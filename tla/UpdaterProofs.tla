---------------------------- MODULE UpdaterProofs ----------------------------
(***************************************************************************)
(* Proofs about Updater for any releases, machine values and builds, and   *)
(* any number of reboots, kills, failures, edits and publications.         *)
(***************************************************************************)
EXTENDS Updater, TLAPS

-----------------------------------------------------------------------------
(* The steps, one lemma per part of the invariant.                         *)

\* Every step keeps the types.
LEMMA TypeStep ==
    ASSUME UpdaterInv, [Next]_vars
    PROVE  TypeOK'
  <1> USE DEF UpdaterInv, host, disk, script, history, bounds
  <1>1. CASE Start
    BY <1>1, UpdaterAssumption DEF Start, TypeOK
  <1>2. CASE MigrateSkip
    BY <1>2, UpdaterAssumption DEF MigrateSkip, TypeOK
  <1>3. CASE MigrateRefuse
    BY <1>3, UpdaterAssumption DEF MigrateRefuse, TypeOK
  <1>4. CASE MigrateExtract
    BY <1>4, UpdaterAssumption DEF MigrateExtract, TypeOK
  <1>5. CASE MigrateArchive
    BY <1>5, UpdaterAssumption DEF MigrateArchive, TypeOK
  <1>6. CASE PollNothing
    BY <1>6, UpdaterAssumption DEF PollNothing, Desired, TypeOK
  <1>7. CASE PollChange
    BY <1>7, UpdaterAssumption DEF PollChange, Desired, TypeOK
  <1>8. CASE BuildSystem
    BY <1>8, UpdaterAssumption DEF BuildSystem, TypeOK
  <1>9. CASE BuildFails
    BY <1>9, UpdaterAssumption DEF BuildFails, TypeOK
  <1>10. CASE Switch
    BY <1>10, UpdaterAssumption DEF Switch, TypeOK
  <1>11. CASE SwitchFails
    BY <1>11, UpdaterAssumption DEF SwitchFails, Fails, TypeOK
  <1>12. CASE HealthPasses
    BY <1>12, UpdaterAssumption DEF HealthPasses, TypeOK
  <1>13. CASE HealthFails
    BY <1>13, UpdaterAssumption DEF HealthFails, Fails, TypeOK
  <1>14. CASE Rollback
    BY <1>14, UpdaterAssumption DEF Rollback, TypeOK
  <1>15. CASE SetProfile
    BY <1>15, UpdaterAssumption DEF SetProfile, TypeOK
  <1>16. CASE SetBootDefault
    BY <1>16, UpdaterAssumption DEF SetBootDefault, TypeOK
  <1>17. CASE Record
    BY <1>17, UpdaterAssumption DEF Record, TypeOK
  <1>18. CASE Interrupted
    BY <1>18, UpdaterAssumption DEF Interrupted, TypeOK
  <1>19. CASE Publish
    BY <1>19, UpdaterAssumption DEF Publish, TypeOK
  <1>20. CASE Edit
    BY <1>20, UpdaterAssumption DEF Edit, TypeOK
  <1>21. CASE Reboot
    BY <1>21, UpdaterAssumption DEF Reboot, TypeOK
  <1>22. CASE UNCHANGED vars
    BY <1>22 DEF vars, TypeOK
  <1> QED
    BY <1>1, <1>2, <1>3, <1>4, <1>5, <1>6, <1>7, <1>8, <1>9, <1>10, <1>11, <1>12, <1>13, <1>14, <1>15, <1>16, <1>17, <1>18, <1>19, <1>20, <1>21, <1>22 DEF Next, Run

\* The profile and the boot default only change to a system that was checked.
LEMMA CheckedStep ==
    ASSUME UpdaterInv, [Next]_vars
    PROVE  (BootWasChecked /\ (pc \in {"set", "boot", "record"} => next \in checked))'
  <1> USE DEF UpdaterInv, host, disk, script, history, bounds
  <1>1. CASE Start
    BY <1>1 DEF Start, BootWasChecked, ScriptIsSound
  <1>2. CASE MigrateSkip
    BY <1>2 DEF MigrateSkip, BootWasChecked, ScriptIsSound
  <1>3. CASE MigrateRefuse
    BY <1>3 DEF MigrateRefuse, BootWasChecked, ScriptIsSound
  <1>4. CASE MigrateExtract
    BY <1>4 DEF MigrateExtract, BootWasChecked, ScriptIsSound
  <1>5. CASE MigrateArchive
    BY <1>5 DEF MigrateArchive, BootWasChecked, ScriptIsSound
  <1>6. CASE PollNothing
    BY <1>6 DEF PollNothing, Desired, BootWasChecked, ScriptIsSound
  <1>7. CASE PollChange
    BY <1>7 DEF PollChange, Desired, BootWasChecked, ScriptIsSound
  <1>8. CASE BuildSystem
    BY <1>8 DEF BuildSystem, BootWasChecked, ScriptIsSound
  <1>9. CASE BuildFails
    BY <1>9 DEF BuildFails, BootWasChecked, ScriptIsSound
  <1>10. CASE Switch
    BY <1>10 DEF Switch, BootWasChecked, ScriptIsSound
  <1>11. CASE SwitchFails
    BY <1>11 DEF SwitchFails, Fails, BootWasChecked, ScriptIsSound
  <1>12. CASE HealthPasses
    BY <1>12 DEF HealthPasses, BootWasChecked, ScriptIsSound
  <1>13. CASE HealthFails
    BY <1>13 DEF HealthFails, Fails, BootWasChecked, ScriptIsSound
  <1>14. CASE Rollback
    BY <1>14 DEF Rollback, BootWasChecked, ScriptIsSound
  <1>15. CASE SetProfile
    BY <1>15 DEF SetProfile, BootWasChecked, ScriptIsSound
  <1>16. CASE SetBootDefault
    BY <1>16 DEF SetBootDefault, BootWasChecked, ScriptIsSound
  <1>17. CASE Record
    BY <1>17 DEF Record, BootWasChecked, ScriptIsSound
  <1>18. CASE Interrupted
    BY <1>18 DEF Interrupted, BootWasChecked, ScriptIsSound
  <1>19. CASE Publish
    BY <1>19 DEF Publish, BootWasChecked, ScriptIsSound
  <1>20. CASE Edit
    BY <1>20 DEF Edit, BootWasChecked, ScriptIsSound
  <1>21. CASE Reboot
    BY <1>21 DEF Reboot, BootWasChecked, ScriptIsSound
  <1>22. CASE UNCHANGED vars
    BY <1>22 DEF vars, BootWasChecked, ScriptIsSound
  <1> QED
    BY <1>1, <1>2, <1>3, <1>4, <1>5, <1>6, <1>7, <1>8, <1>9, <1>10, <1>11, <1>12, <1>13, <1>14, <1>15, <1>16, <1>17, <1>18, <1>19, <1>20, <1>21, <1>22 DEF Next, Run

\* Without a failure the script can always go back to the boot default.
LEMMA PlaceStep ==
    ASSUME UpdaterInv, [Next]_vars
    PROVE  (failures = 0 => StepsAreSound)'
  <1> USE DEF UpdaterInv, host, disk, script, history, bounds
  <1>1. CASE Start
    BY <1>1, UpdaterAssumption DEF Start, ScriptIsSound, StepsAreSound, TypeOK
  <1>2. CASE MigrateSkip
    BY <1>2, UpdaterAssumption DEF MigrateSkip, ScriptIsSound, StepsAreSound, TypeOK
  <1>3. CASE MigrateRefuse
    BY <1>3, UpdaterAssumption DEF MigrateRefuse, ScriptIsSound, StepsAreSound, TypeOK
  <1>4. CASE MigrateExtract
    BY <1>4, UpdaterAssumption DEF MigrateExtract, ScriptIsSound, StepsAreSound, TypeOK
  <1>5. CASE MigrateArchive
    BY <1>5, UpdaterAssumption DEF MigrateArchive, ScriptIsSound, StepsAreSound, TypeOK
  <1>6. CASE PollNothing
    BY <1>6, UpdaterAssumption DEF PollNothing, Desired, ScriptIsSound, StepsAreSound, TypeOK
  <1>7. CASE PollChange
    BY <1>7, UpdaterAssumption DEF PollChange, Desired, ScriptIsSound, StepsAreSound, TypeOK
  <1>8. CASE BuildSystem
    BY <1>8, UpdaterAssumption DEF BuildSystem, ScriptIsSound, StepsAreSound, TypeOK
  <1>9. CASE BuildFails
    BY <1>9, UpdaterAssumption DEF BuildFails, ScriptIsSound, StepsAreSound, TypeOK
  <1>10. CASE Switch
    BY <1>10, UpdaterAssumption DEF Switch, ScriptIsSound, StepsAreSound, TypeOK
  <1>11. CASE SwitchFails
    BY <1>11, UpdaterAssumption DEF SwitchFails, Fails, ScriptIsSound, StepsAreSound, TypeOK
  <1>12. CASE HealthPasses
    BY <1>12, UpdaterAssumption DEF HealthPasses, ScriptIsSound, StepsAreSound, TypeOK
  <1>13. CASE HealthFails
    BY <1>13, UpdaterAssumption DEF HealthFails, Fails, ScriptIsSound, StepsAreSound, TypeOK
  <1>14. CASE Rollback
    BY <1>14, UpdaterAssumption DEF Rollback, ScriptIsSound, StepsAreSound, TypeOK
  <1>15. CASE SetProfile
    BY <1>15, UpdaterAssumption DEF SetProfile, ScriptIsSound, StepsAreSound, TypeOK
  <1>16. CASE SetBootDefault
    BY <1>16, UpdaterAssumption DEF SetBootDefault, ScriptIsSound, StepsAreSound, TypeOK
  <1>17. CASE Record
    BY <1>17, UpdaterAssumption DEF Record, ScriptIsSound, StepsAreSound, TypeOK
  <1>18. CASE Interrupted
    BY <1>18, UpdaterAssumption DEF Interrupted, ScriptIsSound, StepsAreSound, TypeOK
  <1>19. CASE Publish
    BY <1>19, UpdaterAssumption DEF Publish, ScriptIsSound, StepsAreSound, TypeOK
  <1>20. CASE Edit
    BY <1>20, UpdaterAssumption DEF Edit, ScriptIsSound, StepsAreSound, TypeOK
  <1>21. CASE Reboot
    BY <1>21, UpdaterAssumption DEF Reboot, ScriptIsSound, StepsAreSound, TypeOK
  <1>22. CASE UNCHANGED vars
    BY <1>22 DEF vars, ScriptIsSound, StepsAreSound, TypeOK
  <1> QED
    BY <1>1, <1>2, <1>3, <1>4, <1>5, <1>6, <1>7, <1>8, <1>9, <1>10, <1>11, <1>12, <1>13, <1>14, <1>15, <1>16, <1>17, <1>18, <1>19, <1>20, <1>21, <1>22 DEF Next, Run

\* Without an edit at the wrong moment, what is built is what is wanted.
LEMMA BuiltStep ==
    ASSUME UpdaterInv, [Next]_vars
    PROVE  (~raced => NextIsBuilt)'
  <1> USE DEF UpdaterInv, host, disk, script, history, bounds
  <1>1. CASE Start
    BY <1>1, UpdaterAssumption DEF Start, ScriptIsSound, NextIsBuilt, TypeOK
  <1>2. CASE MigrateSkip
    BY <1>2, UpdaterAssumption DEF MigrateSkip, ScriptIsSound, NextIsBuilt, TypeOK
  <1>3. CASE MigrateRefuse
    BY <1>3, UpdaterAssumption DEF MigrateRefuse, ScriptIsSound, NextIsBuilt, TypeOK
  <1>4. CASE MigrateExtract
    BY <1>4, UpdaterAssumption DEF MigrateExtract, ScriptIsSound, NextIsBuilt, TypeOK
  <1>5. CASE MigrateArchive
    BY <1>5, UpdaterAssumption DEF MigrateArchive, ScriptIsSound, NextIsBuilt, TypeOK
  <1>6. CASE PollNothing
    BY <1>6, UpdaterAssumption DEF PollNothing, Desired, ScriptIsSound, NextIsBuilt, TypeOK
  <1>7. CASE PollChange
    BY <1>7, UpdaterAssumption DEF PollChange, Desired, ScriptIsSound, NextIsBuilt, TypeOK
  <1>8. CASE BuildSystem
    BY <1>8, UpdaterAssumption DEF BuildSystem, ScriptIsSound, NextIsBuilt, TypeOK
  <1>9. CASE BuildFails
    BY <1>9, UpdaterAssumption DEF BuildFails, ScriptIsSound, NextIsBuilt, TypeOK
  <1>10. CASE Switch
    BY <1>10, UpdaterAssumption DEF Switch, ScriptIsSound, NextIsBuilt, TypeOK
  <1>11. CASE SwitchFails
    BY <1>11, UpdaterAssumption DEF SwitchFails, Fails, ScriptIsSound, NextIsBuilt, TypeOK
  <1>12. CASE HealthPasses
    BY <1>12, UpdaterAssumption DEF HealthPasses, ScriptIsSound, NextIsBuilt, TypeOK
  <1>13. CASE HealthFails
    BY <1>13, UpdaterAssumption DEF HealthFails, Fails, ScriptIsSound, NextIsBuilt, TypeOK
  <1>14. CASE Rollback
    BY <1>14, UpdaterAssumption DEF Rollback, ScriptIsSound, NextIsBuilt, TypeOK
  <1>15. CASE SetProfile
    BY <1>15, UpdaterAssumption DEF SetProfile, ScriptIsSound, NextIsBuilt, TypeOK
  <1>16. CASE SetBootDefault
    BY <1>16, UpdaterAssumption DEF SetBootDefault, ScriptIsSound, NextIsBuilt, TypeOK
  <1>17. CASE Record
    BY <1>17, UpdaterAssumption DEF Record, ScriptIsSound, NextIsBuilt, TypeOK
  <1>18. CASE Interrupted
    BY <1>18, UpdaterAssumption DEF Interrupted, ScriptIsSound, NextIsBuilt, TypeOK
  <1>19. CASE Publish
    BY <1>19, UpdaterAssumption DEF Publish, ScriptIsSound, NextIsBuilt, TypeOK
  <1>20. CASE Edit
    BY <1>20, UpdaterAssumption DEF Edit, ScriptIsSound, NextIsBuilt, TypeOK
  <1>21. CASE Reboot
    BY <1>21, UpdaterAssumption DEF Reboot, ScriptIsSound, NextIsBuilt, TypeOK
  <1>22. CASE UNCHANGED vars
    BY <1>22 DEF vars, ScriptIsSound, NextIsBuilt, TypeOK
  <1> QED
    BY <1>1, <1>2, <1>3, <1>4, <1>5, <1>6, <1>7, <1>8, <1>9, <1>10, <1>11, <1>12, <1>13, <1>14, <1>15, <1>16, <1>17, <1>18, <1>19, <1>20, <1>21, <1>22 DEF Next, Run

\* What was recorded is the boot default until the next one takes its place.
LEMMA RecordStep ==
    ASSUME UpdaterInv, [Next]_vars
    PROVE  ((Undisturbed /\ pc # "record" /\ recorded # None) => boot = Build[recorded])'
  <1> USE DEF UpdaterInv, host, disk, script, history, bounds
  <1>1. CASE Start
    BY <1>1, UpdaterAssumption DEF Start, ScriptIsSound, StepsAreSound, NextIsBuilt, Undisturbed, TypeOK
  <1>2. CASE MigrateSkip
    BY <1>2, UpdaterAssumption DEF MigrateSkip, ScriptIsSound, StepsAreSound, NextIsBuilt, Undisturbed, TypeOK
  <1>3. CASE MigrateRefuse
    BY <1>3, UpdaterAssumption DEF MigrateRefuse, ScriptIsSound, StepsAreSound, NextIsBuilt, Undisturbed, TypeOK
  <1>4. CASE MigrateExtract
    BY <1>4, UpdaterAssumption DEF MigrateExtract, ScriptIsSound, StepsAreSound, NextIsBuilt, Undisturbed, TypeOK
  <1>5. CASE MigrateArchive
    BY <1>5, UpdaterAssumption DEF MigrateArchive, ScriptIsSound, StepsAreSound, NextIsBuilt, Undisturbed, TypeOK
  <1>6. CASE PollNothing
    BY <1>6, UpdaterAssumption DEF PollNothing, Desired, ScriptIsSound, StepsAreSound, NextIsBuilt, Undisturbed, TypeOK
  <1>7. CASE PollChange
    BY <1>7, UpdaterAssumption DEF PollChange, Desired, ScriptIsSound, StepsAreSound, NextIsBuilt, Undisturbed, TypeOK
  <1>8. CASE BuildSystem
    BY <1>8, UpdaterAssumption DEF BuildSystem, ScriptIsSound, StepsAreSound, NextIsBuilt, Undisturbed, TypeOK
  <1>9. CASE BuildFails
    BY <1>9, UpdaterAssumption DEF BuildFails, ScriptIsSound, StepsAreSound, NextIsBuilt, Undisturbed, TypeOK
  <1>10. CASE Switch
    BY <1>10, UpdaterAssumption DEF Switch, ScriptIsSound, StepsAreSound, NextIsBuilt, Undisturbed, TypeOK
  <1>11. CASE SwitchFails
    BY <1>11, UpdaterAssumption DEF SwitchFails, Fails, ScriptIsSound, StepsAreSound, NextIsBuilt, Undisturbed, TypeOK
  <1>12. CASE HealthPasses
    BY <1>12, UpdaterAssumption DEF HealthPasses, ScriptIsSound, StepsAreSound, NextIsBuilt, Undisturbed, TypeOK
  <1>13. CASE HealthFails
    BY <1>13, UpdaterAssumption DEF HealthFails, Fails, ScriptIsSound, StepsAreSound, NextIsBuilt, Undisturbed, TypeOK
  <1>14. CASE Rollback
    BY <1>14, UpdaterAssumption DEF Rollback, ScriptIsSound, StepsAreSound, NextIsBuilt, Undisturbed, TypeOK
  <1>15. CASE SetProfile
    BY <1>15, UpdaterAssumption DEF SetProfile, ScriptIsSound, StepsAreSound, NextIsBuilt, Undisturbed, TypeOK
  <1>16. CASE SetBootDefault
    BY <1>16, UpdaterAssumption DEF SetBootDefault, ScriptIsSound, StepsAreSound, NextIsBuilt, Undisturbed, TypeOK
  <1>17. CASE Record
    BY <1>17, UpdaterAssumption DEF Record, ScriptIsSound, StepsAreSound, NextIsBuilt, Undisturbed, TypeOK
  <1>18. CASE Interrupted
    BY <1>18, UpdaterAssumption DEF Interrupted, ScriptIsSound, StepsAreSound, NextIsBuilt, Undisturbed, TypeOK
  <1>19. CASE Publish
    BY <1>19, UpdaterAssumption DEF Publish, ScriptIsSound, StepsAreSound, NextIsBuilt, Undisturbed, TypeOK
  <1>20. CASE Edit
    BY <1>20, UpdaterAssumption DEF Edit, ScriptIsSound, StepsAreSound, NextIsBuilt, Undisturbed, TypeOK
  <1>21. CASE Reboot
    BY <1>21, UpdaterAssumption DEF Reboot, ScriptIsSound, StepsAreSound, NextIsBuilt, Undisturbed, TypeOK
  <1>22. CASE UNCHANGED vars
    BY <1>22 DEF vars, ScriptIsSound, StepsAreSound, NextIsBuilt, Undisturbed, TypeOK
  <1> QED
    BY <1>1, <1>2, <1>3, <1>4, <1>5, <1>6, <1>7, <1>8, <1>9, <1>10, <1>11, <1>12, <1>13, <1>14, <1>15, <1>16, <1>17, <1>18, <1>19, <1>20, <1>21, <1>22 DEF Next, Run

\* What was recorded has passed its check, or is what ran already.
LEMMA RecordedStep ==
    ASSUME UpdaterInv, [Next]_vars
    PROVE  RecordedWasChecked'
  <1> USE DEF UpdaterInv, host, disk, script, history, bounds
  <1>1. CASE Start
    BY <1>1, UpdaterAssumption DEF Start, RecordedIsSound, RecordedWasChecked, BootWasChecked, ScriptIsSound, StepsAreSound, NextIsBuilt, TypeOK
  <1>2. CASE MigrateSkip
    BY <1>2, UpdaterAssumption DEF MigrateSkip, RecordedIsSound, RecordedWasChecked, BootWasChecked, ScriptIsSound, StepsAreSound, NextIsBuilt, TypeOK
  <1>3. CASE MigrateRefuse
    BY <1>3, UpdaterAssumption DEF MigrateRefuse, RecordedIsSound, RecordedWasChecked, BootWasChecked, ScriptIsSound, StepsAreSound, NextIsBuilt, TypeOK
  <1>4. CASE MigrateExtract
    BY <1>4, UpdaterAssumption DEF MigrateExtract, RecordedIsSound, RecordedWasChecked, BootWasChecked, ScriptIsSound, StepsAreSound, NextIsBuilt, TypeOK
  <1>5. CASE MigrateArchive
    BY <1>5, UpdaterAssumption DEF MigrateArchive, RecordedIsSound, RecordedWasChecked, BootWasChecked, ScriptIsSound, StepsAreSound, NextIsBuilt, TypeOK
  <1>6. CASE PollNothing
    BY <1>6, UpdaterAssumption DEF PollNothing, Desired, RecordedIsSound, RecordedWasChecked, BootWasChecked, ScriptIsSound, StepsAreSound, NextIsBuilt, TypeOK
  <1>7. CASE PollChange
    BY <1>7, UpdaterAssumption DEF PollChange, Desired, RecordedIsSound, RecordedWasChecked, BootWasChecked, ScriptIsSound, StepsAreSound, NextIsBuilt, TypeOK
  <1>8. CASE BuildSystem
    BY <1>8, UpdaterAssumption DEF BuildSystem, RecordedIsSound, RecordedWasChecked, BootWasChecked, ScriptIsSound, StepsAreSound, NextIsBuilt, TypeOK
  <1>9. CASE BuildFails
    BY <1>9, UpdaterAssumption DEF BuildFails, RecordedIsSound, RecordedWasChecked, BootWasChecked, ScriptIsSound, StepsAreSound, NextIsBuilt, TypeOK
  <1>10. CASE Switch
    BY <1>10, UpdaterAssumption DEF Switch, RecordedIsSound, RecordedWasChecked, BootWasChecked, ScriptIsSound, StepsAreSound, NextIsBuilt, TypeOK
  <1>11. CASE SwitchFails
    BY <1>11, UpdaterAssumption DEF SwitchFails, Fails, RecordedIsSound, RecordedWasChecked, BootWasChecked, ScriptIsSound, StepsAreSound, NextIsBuilt, TypeOK
  <1>12. CASE HealthPasses
    BY <1>12, UpdaterAssumption DEF HealthPasses, RecordedIsSound, RecordedWasChecked, BootWasChecked, ScriptIsSound, StepsAreSound, NextIsBuilt, TypeOK
  <1>13. CASE HealthFails
    BY <1>13, UpdaterAssumption DEF HealthFails, Fails, RecordedIsSound, RecordedWasChecked, BootWasChecked, ScriptIsSound, StepsAreSound, NextIsBuilt, TypeOK
  <1>14. CASE Rollback
    BY <1>14, UpdaterAssumption DEF Rollback, RecordedIsSound, RecordedWasChecked, BootWasChecked, ScriptIsSound, StepsAreSound, NextIsBuilt, TypeOK
  <1>15. CASE SetProfile
    BY <1>15, UpdaterAssumption DEF SetProfile, RecordedIsSound, RecordedWasChecked, BootWasChecked, ScriptIsSound, StepsAreSound, NextIsBuilt, TypeOK
  <1>16. CASE SetBootDefault
    BY <1>16, UpdaterAssumption DEF SetBootDefault, RecordedIsSound, RecordedWasChecked, BootWasChecked, ScriptIsSound, StepsAreSound, NextIsBuilt, TypeOK
  <1>17. CASE Record
    BY <1>17, UpdaterAssumption DEF Record, RecordedIsSound, RecordedWasChecked, BootWasChecked, ScriptIsSound, StepsAreSound, NextIsBuilt, TypeOK
  <1>18. CASE Interrupted
    BY <1>18, UpdaterAssumption DEF Interrupted, RecordedIsSound, RecordedWasChecked, BootWasChecked, ScriptIsSound, StepsAreSound, NextIsBuilt, TypeOK
  <1>19. CASE Publish
    BY <1>19, UpdaterAssumption DEF Publish, RecordedIsSound, RecordedWasChecked, BootWasChecked, ScriptIsSound, StepsAreSound, NextIsBuilt, TypeOK
  <1>20. CASE Edit
    BY <1>20, UpdaterAssumption DEF Edit, RecordedIsSound, RecordedWasChecked, BootWasChecked, ScriptIsSound, StepsAreSound, NextIsBuilt, TypeOK
  <1>21. CASE Reboot
    BY <1>21, UpdaterAssumption DEF Reboot, RecordedIsSound, RecordedWasChecked, BootWasChecked, ScriptIsSound, StepsAreSound, NextIsBuilt, TypeOK
  <1>22. CASE UNCHANGED vars
    BY <1>22 DEF vars, RecordedIsSound, RecordedWasChecked, BootWasChecked, ScriptIsSound, StepsAreSound, NextIsBuilt, TypeOK
  <1> QED
    BY <1>1, <1>2, <1>3, <1>4, <1>5, <1>6, <1>7, <1>8, <1>9, <1>10, <1>11, <1>12, <1>13, <1>14, <1>15, <1>16, <1>17, <1>18, <1>19, <1>20, <1>21, <1>22 DEF Next, Run

-----------------------------------------------------------------------------
(* The theorems.                                                           *)

\* Nothing has happened to a host that was just installed.
LEMMA InitSound == Init => UpdaterInv
  <1> SUFFICES ASSUME Init
               PROVE  UpdaterInv
    OBVIOUS
  <1> USE UpdaterAssumption DEF Init
  <1>1. TypeOK
    <2>1. target \in Release \cup {None} /\ {machine, legacy} \subseteq Machine \cup {None}
      <3>1. Installed.machine \in Machine /\ Installed.system \in System
        OBVIOUS
      <3>2. machine \in Machine \cup {None} /\ legacy \in Machine \cup {None}
        BY <3>1
      <3> QED
        BY <3>2
    <2>2. Installed.system \in System
      OBVIOUS
    <2>3. recorded = None /\ pc = "idle" /\ checked \subseteq System
      BY <2>2
    <2>4. /\ changes \in 0..MaxChanges /\ reboots \in 0..MaxReboots
          /\ flakes \in 0..MaxFlakes /\ failures \in 0..MaxFailures
      OBVIOUS
    <2> QED
      BY <2>1, <2>2, <2>3, <2>4 DEF TypeOK
  <1>2. BootWasChecked /\ RecordedWasChecked
    BY DEF BootWasChecked, RecordedWasChecked
  <1>3. ScriptIsSound
    BY DEF ScriptIsSound, StepsAreSound, NextIsBuilt
  <1> QED
    BY <1>1, <1>2, <1>3 DEF UpdaterInv, IdleRunsBootDefault, RecordedIsSound, RecordedIsBuilt

\* Every step keeps the invariant.
LEMMA Steps ==
    ASSUME UpdaterInv, [Next]_vars
    PROVE  UpdaterInv'
  <1>1. TypeOK' /\ BootWasChecked' /\ RecordedWasChecked'
    BY TypeStep, CheckedStep, RecordedStep
  <1>2. ScriptIsSound'
    BY CheckedStep, PlaceStep, BuiltStep, RecordStep DEF ScriptIsSound
  <1>3. IdleRunsBootDefault'
    BY <1>2 DEF ScriptIsSound, StepsAreSound, IdleRunsBootDefault
  <1>4. RecordedIsBuilt'
    BY <1>1, <1>2, UpdaterAssumption DEF ScriptIsSound, RecordedIsBuilt, Desired, TypeOK
  <1> QED
    BY <1>1, <1>2, <1>3, <1>4 DEF UpdaterInv, RecordedIsSound

\* Between any two commands of the update, and after any kill or reboot, the
\* record is true and a host at rest runs its boot default
\* (hosts/collector/deployment.nix): the inductive invariant.
THEOREM HostSound == Spec => []UpdaterInv
  BY InitSound, Steps, PTL DEF Spec

\* "commits the generation only when collector-health-check passes": no
\* reboot comes up with a system that has not passed its check.
THEOREM BootsChecked == Spec => []BootWasChecked
  <1>1. UpdaterInv => BootWasChecked
    BY DEF UpdaterInv
  <1> QED
    BY HostSound, <1>1, PTL

\* The migration never leaves the host without its machine facts, whatever
\* ends it.
THEOREM FactsStay == Spec => FactsKept
  <1>1. ASSUME UpdaterInv, [Next]_vars
        PROVE  [machine # None \/ legacy # None => machine' # None \/ legacy' # None]_vars
    <2> USE UpdaterAssumption DEF UpdaterInv, host, disk, script, history, bounds
    <2>1. CASE MigrateExtract
      BY <2>1 DEF MigrateExtract
    <2>2. CASE MigrateArchive
      <3>1. machine # None /\ machine' = machine
        BY <1>1, <2>2 DEF MigrateArchive, TypeOK
      <3> QED
        BY <3>1
    <2>3. CASE Edit
      BY <2>3 DEF Edit
    <2>4. CASE Publish \/ Reboot \/ Interrupted
      BY <2>4 DEF Publish, Reboot, Interrupted
    <2>5. CASE Start \/ MigrateSkip \/ MigrateRefuse \/ PollNothing \/ PollChange
      BY <2>5 DEF Start, MigrateSkip, MigrateRefuse, PollNothing, PollChange
    <2>6. CASE BuildSystem \/ BuildFails \/ Switch \/ SwitchFails
      BY <2>6 DEF BuildSystem, BuildFails, Switch, SwitchFails
    <2>7. CASE HealthPasses \/ HealthFails \/ Rollback \/ SetProfile \/ SetBootDefault \/ Record
      BY <2>7 DEF HealthPasses, HealthFails, Rollback, SetProfile, SetBootDefault, Record
    <2> QED
      BY <1>1, <2>1, <2>2, <2>3, <2>4, <2>5, <2>6, <2>7 DEF Next, Run, vars
  <1> QED
    BY HostSound, <1>1, PTL DEF Spec, FactsKept

=============================================================================
