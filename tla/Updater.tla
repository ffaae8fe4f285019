------------------------------ MODULE Updater ------------------------------
(***************************************************************************)
(* The pull deployment of the appliance (hosts/collector/deployment.nix):  *)
(* a timer starts collector-update, which polls the release branch, builds *)
(* the system of that revision with this host's machine values, activates  *)
(* it, lets collector-health-check judge it, and commits it as the boot    *)
(* default or rolls back.  The script runs under errexit; it is a oneshot  *)
(* unit, so there is one at a time.                                        *)
(*                                                                         *)
(* A system is what a build yields; two pairs of revision and machine      *)
(* values may yield the same one.                                          *)
(***************************************************************************)
EXTENDS Integers, FiniteSets

CONSTANTS
    Release,      \* revisions the release branch may name
    Machine,      \* contents machine-values.json may have
    System,       \* built systems
    Build,        \* [Release \X Machine -> System]
    Healthy,      \* systems the health check can pass
    Installed,    \* the system the installer left, with the values it used
    None,         \* no release, no values, nothing recorded
    MaxChanges,   \* bound: releases published and edits made
    MaxReboots,   \* bound: reboots
    MaxFlakes,    \* bound: failed builds, and healthy systems judged unhealthy
    MaxFailures   \* bound: failures and kills the script does not handle

ASSUME UpdaterAssumption ==
    /\ Build \in [Release \X Machine -> System]
    /\ Healthy \subseteq System
    /\ Installed \in [system : System, machine : Machine]
    /\ None \notin Release \cup Machine \cup (Release \X Machine)
    /\ {MaxChanges, MaxReboots, MaxFlakes, MaxFailures} \subseteq Nat

VARIABLES
    target,    \* the revision the release branch names, or None
    machine,   \* machine-values.json, or None
    legacy,    \* site-values.json of the former layout, or None
    archived,  \* does site-values.json.migrated exist?
    running,   \* /run/current-system
    profile,   \* the system profile
    boot,      \* what the boot loader starts
    recorded,  \* state_dir/current: a pair, or None
    pc,        \* where the script stands
    want,      \* its variable desired
    next, prev,
    checked,   \* history: systems whose health check passed,
    raced,     \* ... and whether the values were edited once hashed and not yet built
    changes, reboots, flakes, failures

host == <<target, machine, legacy, archived>>
disk == <<running, profile, boot, recorded>>
script == <<want, next, prev>>
history == <<checked, raced>>
bounds == <<changes, reboots, flakes, failures>>
vars == <<host, disk, pc, script, history, bounds>>

Init ==
    /\ target = None
    /\ \/ machine = Installed.machine /\ legacy = None
       \/ machine = None /\ legacy \in {Installed.machine, None}
    /\ archived = FALSE
    /\ running = Installed.system
    /\ profile = Installed.system
    /\ boot = Installed.system
    /\ recorded = None
    /\ pc = "idle"
    /\ want = None
    /\ next = Installed.system
    /\ prev = Installed.system
    /\ checked = {Installed.system} /\ raced = FALSE
    /\ changes = 0 /\ reboots = 0 /\ flakes = 0 /\ failures = 0

-----------------------------------------------------------------------------
(* The environment.                                                        *)

\* CI advances the release branch.
Publish ==
    /\ changes < MaxChanges
    /\ changes' = changes + 1
    /\ target' \in Release
    /\ UNCHANGED <<machine, legacy, archived, disk, pc, script, history,
                   reboots, flakes, failures>>

\* An operator edits the machine values.
Edit ==
    /\ changes < MaxChanges
    /\ machine # None
    /\ changes' = changes + 1
    /\ machine' \in Machine
    /\ raced' = (raced \/ pc = "build")
    /\ UNCHANGED <<target, legacy, archived, disk, pc, script, checked,
                   reboots, flakes, failures>>

\* The machine starts again, with what the boot loader has.
Reboot ==
    /\ reboots < MaxReboots
    /\ reboots' = reboots + 1
    /\ running' = boot
    /\ pc' = "idle"
    /\ UNCHANGED <<host, profile, boot, recorded, script, history,
                   changes, flakes, failures>>

-----------------------------------------------------------------------------
(* collector-config-migrate, which the script starts with.                 *)

Start ==
    /\ pc = "idle"
    /\ pc' = "migrate"
    /\ UNCHANGED <<host, disk, script, history, bounds>>

MigrateSkip ==
    /\ pc = "migrate"
    /\ machine # None
    /\ pc' = "poll"
    /\ UNCHANGED <<host, disk, script, history, bounds>>

\* Neither store is there: the script exits with an error.
MigrateRefuse ==
    /\ pc = "migrate"
    /\ machine = None /\ legacy = None
    /\ pc' = "idle"
    /\ UNCHANGED <<host, disk, script, history, bounds>>

\* Mutant: the legacy store is archived before the values are extracted.
MigrateExtractLate ==
    /\ pc = "migrate"
    /\ machine = None /\ legacy # None
    /\ legacy' = None
    /\ archived' = TRUE
    /\ pc' = "archive"
    /\ UNCHANGED <<target, machine, disk, script, history, bounds>>

\* The values are written to a temporary file and renamed into place.
MigrateExtract ==
    /\ pc = "migrate"
    /\ machine = None /\ legacy # None
    /\ machine' = legacy
    /\ pc' = "archive"
    /\ UNCHANGED <<target, legacy, archived, disk, script, history, bounds>>

\* The legacy store is archived, unless an archive exists.
MigrateArchive ==
    /\ pc = "archive"
    /\ archived' = TRUE
    /\ legacy' = IF archived THEN legacy ELSE None
    /\ pc' = "poll"
    /\ UNCHANGED <<target, machine, disk, script, history, bounds>>

-----------------------------------------------------------------------------
(* collector-update.                                                       *)

Desired == <<target, machine>>

\* No release is published, or the pair is the recorded one.
PollNothing ==
    /\ pc = "poll"
    /\ target = None \/ Desired = recorded
    /\ pc' = "idle"
    /\ UNCHANGED <<host, disk, script, history, bounds>>

\* The branch is resolved and the values are hashed.
PollChange ==
    /\ pc = "poll"
    /\ target # None /\ Desired # recorded
    /\ want' = Desired
    /\ pc' = "build"
    /\ UNCHANGED <<host, disk, next, prev, history, bounds>>

\* The values are overlaid on the revision and the system is built: only now
\* are they read for the build.  An unchanged system is recorded.
BuildSystem ==
    /\ pc = "build"
    /\ next' = Build[<<want[1], machine>>]
    /\ prev' = running
    /\ IF next' = running
       THEN recorded' = want /\ pc' = "idle"
       ELSE recorded' = recorded /\ pc' = "switch"
    /\ UNCHANGED <<host, running, profile, boot, want, history, bounds>>

\* The clone, the validation of the values or the build fails.
BuildFails ==
    /\ pc = "build"
    /\ flakes < MaxFlakes
    /\ flakes' = flakes + 1
    /\ pc' = "idle"
    /\ UNCHANGED <<host, disk, script, history, changes, reboots, failures>>

\* switch-to-configuration test.
Switch ==
    /\ pc = "switch"
    /\ running' = next
    /\ pc' = "health"
    /\ UNCHANGED <<host, profile, boot, recorded, script, history, bounds>>

\* What can go wrong with the new system: always when it is unhealthy, now
\* and then when it is not.
Fails ==
    \/ next \notin Healthy /\ UNCHANGED flakes
    \/ flakes < MaxFlakes /\ flakes' = flakes + 1

\* Mutant: a failed activation is left as it is.
SwitchFailsExits ==
    /\ pc = "switch"
    /\ Fails
    /\ running' \in {prev, next}
    /\ pc' = "idle"
    /\ UNCHANGED <<host, profile, boot, recorded, script, history,
                   changes, reboots, failures>>

\* It fails; activation may have got past the current-system link.
SwitchFails ==
    /\ pc = "switch"
    /\ Fails
    /\ running' \in {prev, next}
    /\ pc' = "rollback"
    /\ UNCHANGED <<host, profile, boot, recorded, script, history,
                   changes, reboots, failures>>

HealthPasses ==
    /\ pc = "health"
    /\ next \in Healthy
    /\ checked' = checked \cup {next}
    /\ pc' = "set"
    /\ UNCHANGED <<host, disk, script, raced, bounds>>

\* Mutant: the exit status of the health check is not looked at.
HealthFailsIgnored ==
    /\ pc = "health"
    /\ Fails
    /\ pc' = "set"
    /\ UNCHANGED <<host, disk, script, history, changes, reboots, failures>>

HealthFails ==
    /\ pc = "health"
    /\ Fails
    /\ pc' = "rollback"
    /\ UNCHANGED <<host, disk, script, history, changes, reboots, failures>>

\* Mutant: the failed system is recorded, so that it is not tried again.
RollbackRecords ==
    /\ pc = "rollback"
    /\ running' = prev
    /\ recorded' = want
    /\ pc' = "idle"
    /\ UNCHANGED <<host, profile, boot, script, history, bounds>>

\* The previous system is activated; the script exits with an error.
Rollback ==
    /\ pc = "rollback"
    /\ running' = prev
    /\ pc' = "idle"
    /\ UNCHANGED <<host, profile, boot, recorded, script, history, bounds>>

\* nix-env --set.
SetProfile ==
    /\ pc = "set"
    /\ profile' = next
    /\ pc' = "boot"
    /\ UNCHANGED <<host, running, boot, recorded, script, history, bounds>>

\* switch-to-configuration boot.
SetBootDefault ==
    /\ pc = "boot"
    /\ boot' = next
    /\ pc' = "record"
    /\ UNCHANGED <<host, running, profile, recorded, script, history, bounds>>

Record ==
    /\ pc = "record"
    /\ recorded' = want
    /\ pc' = "idle"
    /\ UNCHANGED <<host, running, profile, boot, script, history, bounds>>

(***************************************************************************)
(* The script ends where it has no handler: the command under way fails,   *)
(* or the unit is stopped.  The command may have done its work or not.     *)
(***************************************************************************)
Interrupted ==
    /\ pc # "idle"
    /\ failures < MaxFailures
    /\ failures' = failures + 1
    /\ running' \in CASE pc = "switch"   -> {running, next}
                      [] pc = "rollback" -> {running, prev}
                      [] OTHER           -> {running}
    /\ profile' \in IF pc = "set" THEN {profile, next} ELSE {profile}
    /\ boot' \in IF pc = "boot" THEN {boot, next} ELSE {boot}
    /\ pc' = "idle"
    /\ UNCHANGED <<host, recorded, script, history, changes, reboots, flakes>>

\* The steps of a run of the script that nothing interrupts.
Run ==
    \/ Start \/ MigrateSkip \/ MigrateRefuse \/ MigrateExtract \/ MigrateArchive
    \/ PollNothing \/ PollChange \/ BuildSystem \/ BuildFails
    \/ Switch \/ SwitchFails \/ HealthPasses \/ HealthFails \/ Rollback
    \/ SetProfile \/ SetBootDefault \/ Record

Next == Run \/ Interrupted \/ Publish \/ Edit \/ Reboot

Spec == Init /\ [][Next]_vars

\* The timer starts the script again and again, and a started script goes on.
FairSpec == Spec /\ WF_vars(Run)

-----------------------------------------------------------------------------
(* Properties.                                                             *)

\* Every variable keeps its type, and the script's variables are set when it
\* gets to the steps that read them.
TypeOK ==
    /\ target \in Release \cup {None}
    /\ {machine, legacy} \subseteq Machine \cup {None}
    /\ archived \in BOOLEAN
    /\ {running, profile, boot, next, prev} \subseteq System
    /\ recorded \in (Release \X Machine) \cup {None}
    /\ pc \in {"idle", "migrate", "archive", "poll", "build", "switch", "health",
               "rollback", "set", "boot", "record"}
    /\ pc \in {"archive", "poll", "build"} => machine # None
    /\ pc \notin {"idle", "migrate", "archive", "poll"} => want \in Release \X Machine
    /\ checked \subseteq System /\ raced \in BOOLEAN
    /\ changes \in 0..MaxChanges /\ reboots \in 0..MaxReboots
    /\ flakes \in 0..MaxFlakes /\ failures \in 0..MaxFailures

\* "commits the generation only when collector-health-check passes"
\* (docs/architecture.md): whatever fails and whenever the script is killed,
\* a reboot comes up with a system that has passed its check.
BootWasChecked == boot \in checked /\ profile \in checked

\* "failures roll back" (same place): between runs of the script that nothing
\* interrupted, the machine runs what it would boot.
IdleRunsBootDefault == (pc = "idle" /\ failures = 0) => running = boot

\* Nothing stopped the script on its way, and no edit fell between the two
\* readings of the machine values.
Undisturbed == failures = 0 /\ reboots = 0 /\ ~raced

\* The change key (deployment.nix): when it says there is nothing to do, the
\* boot default is the system of the published release with the machine
\* values this host has now.
RecordedIsBuilt ==
    (Undisturbed /\ pc = "idle" /\ target # None /\ machine # None /\ recorded = Desired)
        => boot = Build[Desired]

\* "a failing check restores the previous generation and leaves the release
\* uncommitted, so the next poll retries it" (deployment.nix): a release is
\* recorded as deployed only after its system passed the check, reboots in
\* the middle of a deployment included.
RecordedWasChecked ==
    (failures = 0 /\ ~raced /\ recorded # None) => Build[recorded] \in checked

\* What the record claims is so: built from what it names, and checked.
RecordedIsSound == RecordedIsBuilt /\ RecordedWasChecked

\* Where a script that was never stopped stands between two systems: it can
\* still roll back to the boot default, or runs what is going to be it.
StepsAreSound ==
    /\ pc \in {"idle", "migrate", "archive", "poll", "build"} => running = boot
    /\ pc \in {"switch", "health", "rollback"} => prev = boot
    /\ pc \in {"health", "set", "boot", "record"} => running = next
    /\ pc = "record" => boot = next

\* What it is about to deploy is built from what it is about to record.
NextIsBuilt ==
    /\ pc = "build" => machine = want[2]
    /\ pc \in {"switch", "health", "set", "boot", "record"} => next = Build[want]

\* The strengthening of the properties: what is true at each command of the
\* script.
ScriptIsSound ==
    /\ pc \in {"set", "boot", "record"} => next \in checked
    /\ failures = 0 => StepsAreSound
    /\ ~raced => NextIsBuilt
    /\ (Undisturbed /\ pc # "record" /\ recorded # None) => boot = Build[recorded]

\* What holds of the host in every state, between any two commands: the
\* inductive invariant of UpdaterProofs.
UpdaterInv ==
    /\ TypeOK
    /\ BootWasChecked
    /\ IdleRunsBootDefault
    /\ RecordedIsSound
    /\ ScriptIsSound

\* Migration never leaves the host without its machine facts.
FactsKept ==
    [][machine # None \/ legacy # None => machine' # None \/ legacy' # None]_vars

\* Once releases and edits have ceased, a healthy release runs, is the boot
\* default and is recorded, whatever was rolled back before: in a behaviour
\* without reboots, kills, unhandled failures and racing edits (Undisturbed).
GoodReleaseDeployed ==
    []Undisturbed =>
        <>[](target # None /\ machine # None /\ Build[Desired] \in Healthy
                => /\ running = Build[Desired]
                   /\ boot = running
                   /\ recorded = Desired)

=============================================================================
