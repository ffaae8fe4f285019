-------------------------- MODULE CertificateProofs --------------------------
(***************************************************************************)
(* Proofs about the identity client of Enroll and the shared certificate   *)
(* of SharedCertificate, for any keys and certificates, and any number of  *)
(* kills, failures, reboots and expiries.                                  *)
(***************************************************************************)
EXTENDS SharedCertificate, WellFoundedInduction, TLAPS

-----------------------------------------------------------------------------
(* The identity client.                                                    *)

\* The part of the invariant about the files of the identity.
IdentityInv == TypeOK /\ InstalledPairMatches /\ StepsHaveFiles /\ NextKeyIsNew

\* openssl makes a key that is in no file.
LEMMA FreshKey ==
    ASSUME TypeOK
    PROVE  Min(Key \ InUse) \in Key \ InUse
  <1> DEFINE Free == Key \ InUse
  <1>1. Free # {}
    <2>1. CASE cert = None
      <3>1. {key, nextKey, nextJson, response} \subseteq Key \cup {None} /\ None \in Key \cup {None}
        BY DEF TypeOK
      <3>2. Key \ {key, nextKey, nextJson, response, None} # {}
        BY <3>1, EnrollAssumption
      <3>3. InUse \subseteq {key, nextKey, nextJson, response, None}
        BY <2>1 DEF InUse
      <3> QED
        BY <3>2, <3>3
    <2>2. CASE cert # None
      <3>1. {key, nextKey, nextJson, response} \subseteq Key \cup {None} /\ cert.key \in Key \cup {None}
        BY <2>2 DEF TypeOK
      <3>2. Key \ {key, nextKey, nextJson, response, cert.key} # {}
        BY <3>1, EnrollAssumption
      <3>3. InUse \subseteq {key, nextKey, nextJson, response, cert.key}
        BY <2>2 DEF InUse
      <3> QED
        BY <3>2, <3>3
    <2> QED
      BY <2>1, <2>2
  <1>2. Free \subseteq Nat
    BY EnrollAssumption
  <1> HIDE DEF Free
  <1>3. PICK m \in Free : \A n \in Free : <<n, m>> \notin {p \in Nat \X Nat : p[1] < p[2]}
    <2>1. IsWellFoundedOn(OpToRel(<, Nat), Nat)
      BY NatLessThanWellFounded
    <2>2. OpToRel(<, Nat) = {p \in Nat \X Nat : p[1] < p[2]}
      BY Zenon DEF OpToRel
    <2> DEFINE below == {p \in Nat \X Nat : p[1] < p[2]}
    <2>3. IsWellFoundedOn(below, Nat)
      BY <2>1, <2>2, Zenon
    <2> HIDE DEF below
    <2>4. \E m \in Free : \A n \in Free : <<n, m>> \notin below
      BY <1>1, <1>2, <2>3, WFMin
    <2> QED
      BY <2>4 DEF below
  <1>4. \A n \in Free : m <= n
    <2> TAKE n \in Free
    <2>1. n \in Nat /\ m \in Nat /\ <<n, m>> \in Nat \X Nat
      BY <1>2
    <2>2. ~(<<n, m>>[1] < <<n, m>>[2])
      BY <1>3, <2>1
    <2> QED
      BY <2>1, <2>2
  <1>5. Min(Free) \in Free
    BY <1>4 DEF Min
  <1> QED
    BY <1>5 DEF Free

\* A request that failed is counted.
LEMMA FailureCounted ==
    ASSUME TypeOK, failures < MaxFailures, failures' = failures + 1
    PROVE  failures' \in 0..MaxFailures
  <1>1. failures \in 0..MaxFailures /\ MaxFailures \in Nat
    BY EnrollAssumption DEF TypeOK
  <1> QED
    BY <1>1

\* A certificate that gets older stays the one it is.
LEMMA CertAges ==
    ASSUME TypeOK, cert # None,
           NEW age \in {"fresh", "due", "expired"}, cert' = [cert EXCEPT !.age = age]
    PROVE  cert' # None /\ cert'.age = age /\ cert'.key = cert.key
  <1>1. cert \in [key : Key, age : {"fresh", "due", "expired"}]
    BY DEF TypeOK
  <1>2. cert' \in [key : Key, age : {"fresh", "due", "expired"}]
    BY <1>1
  <1> QED
    BY <1>1, <1>2, EnrollAssumption

\* What a run that ends anywhere leaves behind.
LEMMA InterruptFiles ==
    ASSUME IdentityInv, Interrupt
    PROVE  /\ chain' \in {chain, None, "piece"}
           /\ cert' \in {cert, None}
           /\ key' \in {key, None}
           /\ nextKey' \in {nextKey, None}
           /\ nextJson' \in {nextJson, None}
           /\ response' \in {response, None}
           /\ pc' = "idle" /\ declared' = declared /\ mode' = mode
           /\ ~Unusable => cert' = cert /\ key' = key
           /\ chain' # chain => pc = "pin"
  <1>1. CASE pc = "check" /\ Unusable
    <2>1. PICK n \in 0..5 : Remove(n)
      BY <1>1 DEF Interrupt
    <2> QED
      BY <1>1, <2>1 DEF Interrupt, Remove
  <1>2. CASE ~(pc = "check" /\ Unusable)
    BY <1>2 DEF Interrupt, identity, request
  <1> QED
    BY <1>1, <1>2

\* An interruption keeps the invariant of the files.
LEMMA InterruptStep ==
    ASSUME IdentityInv, Interrupt, failures' \in 0..MaxFailures, kills' \in 0..MaxKills
    PROVE  IdentityInv'
  <1>1. TypeOK'
    BY InterruptFiles DEF IdentityInv, TypeOK
  <1>2. InstalledPairMatches' /\ StepsHaveFiles' /\ NextKeyIsNew'
    BY InterruptFiles DEF IdentityInv, InstalledPairMatches, StepsHaveFiles, NextKeyIsNew
  <1> QED
    BY <1>1, <1>2 DEF IdentityInv

\* Every step of the client keeps the types of the files.
LEMMA TypeStep ==
    ASSUME IdentityInv, Next
    PROVE  TypeOK'
  <1> USE EnrollAssumption DEF IdentityInv, TypeOK, StepsHaveFiles, identity, request, faults
  <1>1. CASE Start
    BY <1>1 DEF Start
  <1>2. CASE Pin
    BY <1>2 DEF Pin
  <1>3. CASE PinFails
    BY <1>3 DEF PinFails
  <1>4. CASE CheckUnusable
    BY <1>4 DEF CheckUnusable, Remove
  <1>5. CASE CheckPasses
    BY <1>5 DEF CheckPasses
  <1>6. CASE NotDue
    BY <1>6 DEF NotDue
  <1>7. CASE BeginRenewal
    BY <1>7 DEF BeginRenewal
  <1>8. CASE BeginEnrollment
    BY <1>8 DEF BeginEnrollment
  <1>9. CASE RequestKey
    BY <1>9, FreshKey DEF RequestKey
  <1>10. CASE RequestJson
    BY <1>10 DEF RequestJson
  <1>11. CASE Post
    BY <1>11 DEF Post
  <1>12. CASE PostRefused
    BY <1>12 DEF PostRefused
  <1>13. CASE PostFails
    BY <1>13 DEF PostFails
  <1>14. CASE InstallDiscards
    BY <1>14 DEF InstallDiscards
  <1>15. CASE InstallKey
    BY <1>15 DEF InstallKey
  <1>16. CASE InstallCert
    BY <1>16 DEF InstallCert
  <1>17. CASE InstallClean
    BY <1>17 DEF InstallClean
  <1>18. CASE Age
    BY <1>18 DEF Age
  <1>19. CASE Expire
    <2>1. cert' = None \/ cert' \in [key : Key, age : {"fresh", "due", "expired"}]
      BY <1>19 DEF Expire
    <2>2. failures' \in 0..MaxFailures /\ kills' \in 0..MaxKills
      BY <1>19, FailureCounted DEF Expire
    <2> QED
      BY <1>19, <2>1, <2>2 DEF Expire
  <1>20. CASE Declare
    BY <1>20 DEF Declare
  <1>21. CASE Killed
    <2>1. failures' \in 0..MaxFailures /\ kills' \in 0..MaxKills
      BY <1>21 DEF Killed
    <2> QED
      BY <1>21, <2>1, InterruptStep DEF Killed
  <1> QED
    BY <1>1, <1>2, <1>3, <1>4, <1>5, <1>6, <1>7, <1>8, <1>9, <1>10, <1>11, <1>12, <1>13, <1>14, <1>15, <1>16, <1>17, <1>18, <1>19, <1>20, <1>21 DEF Next, Run

\* Every step of the client keeps what a run relies on.
LEMMA FilesStep ==
    ASSUME IdentityInv, Next
    PROVE  InstalledPairMatches' /\ StepsHaveFiles' /\ NextKeyIsNew'
  <1> USE EnrollAssumption DEF IdentityInv, InstalledPairMatches, StepsHaveFiles, NextKeyIsNew,
                              identity, request, faults
  <1>1. CASE Start
    BY <1>1 DEF Start
  <1>2. CASE Pin
    BY <1>2 DEF Pin
  <1>3. CASE PinFails
    BY <1>3 DEF PinFails
  <1>4. CASE CheckUnusable
    BY <1>4 DEF CheckUnusable, Remove
  <1>5. CASE CheckPasses
    BY <1>5 DEF CheckPasses
  <1>6. CASE NotDue
    BY <1>6 DEF NotDue
  <1>7. CASE BeginRenewal
    BY <1>7 DEF BeginRenewal
  <1>8. CASE BeginEnrollment
    BY <1>8 DEF BeginEnrollment
  <1>9. CASE RequestKey
    BY <1>9, FreshKey DEF RequestKey, InUse, TypeOK
  <1>10. CASE RequestJson
    BY <1>10 DEF RequestJson
  <1>11. CASE Post
    BY <1>11 DEF Post
  <1>12. CASE PostRefused
    BY <1>12 DEF PostRefused
  <1>13. CASE PostFails
    BY <1>13 DEF PostFails
  <1>14. CASE InstallDiscards
    BY <1>14 DEF InstallDiscards
  <1>15. CASE InstallKey
    BY <1>15 DEF InstallKey, TypeOK
  <1>16. CASE InstallCert
    BY <1>16 DEF InstallCert, TypeOK
  <1>17. CASE InstallClean
    BY <1>17 DEF InstallClean
  <1>18. CASE Age
    BY <1>18 DEF Age, TypeOK
  <1>19. CASE Expire
    BY <1>19 DEF Expire, TypeOK
  <1>20. CASE Declare
    BY <1>20 DEF Declare
  <1>21. CASE Killed
    <2>1. failures' \in 0..MaxFailures /\ kills' \in 0..MaxKills
      BY <1>21 DEF Killed, TypeOK
    <2> QED
      BY <1>21, <2>1, InterruptStep DEF Killed
  <1> QED
    BY <1>1, <1>2, <1>3, <1>4, <1>5, <1>6, <1>7, <1>8, <1>9, <1>10, <1>11, <1>12, <1>13, <1>14, <1>15, <1>16, <1>17, <1>18, <1>19, <1>20, <1>21 DEF Next, Run

\* A step of the client takes a usable identity away only by its end or by
\* moving in the key of the next.
LEMMA KeptStep ==
    ASSUME IdentityInv, Next
    PROVE  Usable => Usable' \/ (cert' # None /\ cert'.age = "expired")
                          \/ pc' = "install_cert"
  <1> USE DEF IdentityInv, Usable, TypeOK, StepsHaveFiles, NextKeyIsNew, identity, request, faults
  <1>1. CASE Start
    BY <1>1 DEF Start
  <1>2. CASE Pin
    BY <1>2 DEF Pin
  <1>3. CASE PinFails
    BY <1>3, EnrollAssumption DEF PinFails
  <1>4. CASE CheckUnusable
    BY <1>4 DEF CheckUnusable, Remove, Unusable
  <1>5. CASE CheckPasses
    BY <1>5 DEF CheckPasses
  <1>6. CASE NotDue
    BY <1>6 DEF NotDue
  <1>7. CASE BeginRenewal
    BY <1>7 DEF BeginRenewal
  <1>8. CASE BeginEnrollment
    BY <1>8 DEF BeginEnrollment
  <1>9. CASE RequestKey
    BY <1>9 DEF RequestKey
  <1>10. CASE RequestJson
    BY <1>10 DEF RequestJson
  <1>11. CASE Post
    BY <1>11 DEF Post
  <1>12. CASE PostRefused
    BY <1>12 DEF PostRefused
  <1>13. CASE PostFails
    BY <1>13 DEF PostFails
  <1>14. CASE InstallDiscards
    BY <1>14 DEF InstallDiscards
  <1>15. CASE InstallKey
    BY <1>15 DEF InstallKey
  <1>16. CASE InstallCert
    BY <1>16 DEF InstallCert
  <1>17. CASE InstallClean
    BY <1>17 DEF InstallClean
  <1>18. CASE Age
    BY <1>18, CertAges DEF Age
  <1>19. CASE Expire
    BY <1>19, CertAges DEF Expire
  <1>20. CASE Declare
    BY <1>20 DEF Declare
  <1>21. CASE Killed
    BY <1>21, InterruptFiles, EnrollAssumption DEF Killed, Unusable
  <1> QED
    BY <1>1, <1>2, <1>3, <1>4, <1>5, <1>6, <1>7, <1>8, <1>9, <1>10, <1>11, <1>12, <1>13, <1>14, <1>15, <1>16, <1>17, <1>18, <1>19, <1>20, <1>21 DEF Next, Run

\* A step of the client puts a fresh certificate in place of another only for
\* another key.
LEMMA RotateStep ==
    ASSUME IdentityInv, Next
    PROVE  cert # None /\ cert' # None /\ cert'.age = "fresh" /\ cert # cert'
                => cert'.key # cert.key
  <1> USE DEF IdentityInv, TypeOK, StepsHaveFiles, NextKeyIsNew, identity, request, faults
  <1>1. CASE Start
    BY <1>1 DEF Start
  <1>2. CASE Pin
    BY <1>2 DEF Pin
  <1>3. CASE PinFails
    BY <1>3, EnrollAssumption DEF PinFails
  <1>4. CASE CheckUnusable
    BY <1>4 DEF CheckUnusable, Remove, Unusable
  <1>5. CASE CheckPasses
    BY <1>5 DEF CheckPasses
  <1>6. CASE NotDue
    BY <1>6 DEF NotDue
  <1>7. CASE BeginRenewal
    BY <1>7 DEF BeginRenewal
  <1>8. CASE BeginEnrollment
    BY <1>8 DEF BeginEnrollment
  <1>9. CASE RequestKey
    BY <1>9 DEF RequestKey
  <1>10. CASE RequestJson
    BY <1>10 DEF RequestJson
  <1>11. CASE Post
    BY <1>11 DEF Post
  <1>12. CASE PostRefused
    BY <1>12 DEF PostRefused
  <1>13. CASE PostFails
    BY <1>13 DEF PostFails
  <1>14. CASE InstallDiscards
    BY <1>14 DEF InstallDiscards
  <1>15. CASE InstallKey
    BY <1>15 DEF InstallKey
  <1>16. CASE InstallCert
    BY <1>16 DEF InstallCert
  <1>17. CASE InstallClean
    BY <1>17 DEF InstallClean
  <1>18. CASE Age
    BY <1>18, CertAges DEF Age
  <1>19. CASE Expire
    BY <1>19, CertAges DEF Expire
  <1>20. CASE Declare
    BY <1>20 DEF Declare
  <1>21. CASE Killed
    BY <1>21, InterruptFiles, EnrollAssumption DEF Killed, Unusable
  <1> QED
    BY <1>1, <1>2, <1>3, <1>4, <1>5, <1>6, <1>7, <1>8, <1>9, <1>10, <1>11, <1>12, <1>13, <1>14, <1>15, <1>16, <1>17, <1>18, <1>19, <1>20, <1>21 DEF Next, Run

-----------------------------------------------------------------------------
(* The client next to the script that fetches the certificate.             *)

\* What a step of both does to the files of the client: a step of its own, a
\* failure counted, the end of its run, or nothing.
LEMMA ClientSteps ==
    ASSUME CTypeOK, [CNext]_cvars
    PROVE  \/ Next
           \/ /\ failures' \in 0..MaxFailures
              /\ UNCHANGED <<chain, identity, request, declared, pc, mode, kills>>
           \/ Interrupt /\ UNCHANGED faults
           \/ UNCHANGED vars
  <1>1. CASE EnrollStep
    BY <1>1 DEF EnrollStep
  <1>2. CASE FetchFails
    BY <1>2, FailureCounted DEF FetchFails, CTypeOK
  <1>3. CASE Reboot
    BY <1>3 DEF Reboot, faults
  <1>4. CASE Elapse
    BY <1>4 DEF Elapse
  <1>5. CASE Fetch
    BY <1>5 DEF Fetch
  <1>6. CASE FetchRefused
    BY <1>6 DEF FetchRefused
  <1>7. CASE Unchanged
    BY <1>7 DEF Unchanged
  <1>8. CASE ReplaceCert
    BY <1>8 DEF ReplaceCert
  <1>9. CASE ReplaceKey
    BY <1>9 DEF ReplaceKey
  <1>10. CASE Reload
    BY <1>10 DEF Reload
  <1>11. CASE TerminatorStart
    BY <1>11 DEF TerminatorStart
  <1>12. CASE Issue
    BY <1>12 DEF Issue
  <1>13. CASE Stopped
    BY <1>13 DEF Stopped
  <1>14. CASE UNCHANGED cvars
    BY <1>14 DEF cvars
  <1> QED
    BY <1>1, <1>2, <1>3, <1>4, <1>5, <1>6, <1>7, <1>8, <1>9, <1>10, <1>11, <1>12, <1>13, <1>14 DEF CNext, Script

\* The part of the invariant about the client holds on.
LEMMA IdentityStep ==
    ASSUME CTypeOK, IdentityInv, [CNext]_cvars
    PROVE  IdentityInv'
  <1>1. CASE Next
    BY <1>1, TypeStep, FilesStep DEF IdentityInv
  <1>2. CASE /\ failures' \in 0..MaxFailures
             /\ UNCHANGED <<chain, identity, request, declared, pc, mode, kills>>
    BY <1>2 DEF IdentityInv, TypeOK, InstalledPairMatches, StepsHaveFiles, NextKeyIsNew,
                identity, request
  <1>3. CASE Interrupt /\ UNCHANGED faults
    <2>1. failures' \in 0..MaxFailures /\ kills' \in 0..MaxKills
      BY <1>3 DEF faults, IdentityInv, TypeOK
    <2> QED
      BY <1>3, <2>1, InterruptStep
  <1>4. CASE UNCHANGED vars
    BY <1>4 DEF vars, IdentityInv, TypeOK, InstalledPairMatches, StepsHaveFiles, NextKeyIsNew,
                identity, request, faults
  <1> QED
    BY <1>1, <1>2, <1>3, <1>4, ClientSteps

\* A step of the script keeps the types, what the terminator serves and what
\* a run put in place.
LEMMA ScriptStep ==
    ASSUME CertificateInv, [CNext]_cvars
    PROVE  /\ issued' \in 0..MaxIssues
           /\ {certFile, keyFile, served, fetched}' \subseteq 0..issued'
           /\ stage' \in {"idle", "after", "fetch", "compare", "key", "reload"}
           /\ stage' \in {"compare", "key", "reload"} => fetched' # 0
           /\ reboots' \in 0..MaxReboots /\ stops' \in 0..MaxStops
           /\ ServedIsInstalled' /\ ReplacedByOnePair'
  <1> USE CertificateAssumption DEF CertificateInv, CTypeOK, ServedIsInstalled,
                                    ReplacedByOnePair, files
  <1>1. CASE EnrollStep
    BY <1>1 DEF EnrollStep
  <1>2. CASE Elapse
    BY <1>2 DEF Elapse
  <1>3. CASE Fetch
    BY <1>3 DEF Fetch
  <1>4. CASE FetchRefused
    BY <1>4 DEF FetchRefused
  <1>5. CASE FetchFails
    BY <1>5 DEF FetchFails
  <1>6. CASE Unchanged
    BY <1>6 DEF Unchanged
  <1>7. CASE ReplaceCert
    BY <1>7 DEF ReplaceCert
  <1>8. CASE ReplaceKey
    BY <1>8 DEF ReplaceKey
  <1>9. CASE Reload
    BY <1>9 DEF Reload, Loadable
  <1>10. CASE TerminatorStart
    BY <1>10 DEF TerminatorStart, Loadable
  <1>11. CASE Issue
    BY <1>11 DEF Issue
  <1>12. CASE Stopped
    BY <1>12 DEF Stopped
  <1>13. CASE Reboot
    BY <1>13 DEF Reboot
  <1>14. CASE UNCHANGED cvars
    BY <1>14 DEF cvars, shared
  <1> QED
    BY <1>1, <1>2, <1>3, <1>4, <1>5, <1>6, <1>7, <1>8, <1>9, <1>10, <1>11, <1>12, <1>13, <1>14 DEF CNext, Script

-----------------------------------------------------------------------------
(* The theorems.                                                           *)

\* An appliance that was just installed has no files.
LEMMA InitSound == CInit => CertificateInv
  <1> SUFFICES ASSUME CInit
               PROVE  CertificateInv
    OBVIOUS
  <1>1. TypeOK
    BY EnrollAssumption DEF CInit, Init, TypeOK
  <1>2. CTypeOK
    BY <1>1, CertificateAssumption DEF CInit, CTypeOK
  <1>3. InstalledPairMatches /\ StepsHaveFiles /\ NextKeyIsNew
    BY DEF CInit, Init, InstalledPairMatches, StepsHaveFiles, NextKeyIsNew
  <1>4. ServedIsInstalled /\ ReplacedByOnePair
    BY DEF CInit, ServedIsInstalled, ReplacedByOnePair
  <1> QED
    BY <1>2, <1>3, <1>4 DEF CertificateInv

\* Every step of both scripts, of nginx and of the host keeps the invariant.
LEMMA InvStep == CertificateInv /\ [CNext]_cvars => CertificateInv'
  <1> SUFFICES ASSUME CertificateInv, [CNext]_cvars
               PROVE  CertificateInv'
    OBVIOUS
  <1>1. IdentityInv /\ CTypeOK
    BY DEF CertificateInv, CTypeOK, IdentityInv
  <1>2. IdentityInv'
    BY <1>1, IdentityStep
  <1>3. CTypeOK'
    BY <1>2, ScriptStep DEF IdentityInv, CTypeOK
  <1> QED
    BY <1>2, <1>3, ScriptStep DEF IdentityInv, CertificateInv

\* Whatever runs are killed, requests fail and reboots come, no certificate
\* is moved next to a key it is not for, and a terminator that runs serves the
\* pair that is installed unless a run was stopped between its two files.
THEOREM CertificatesSafe == CSpec => []CertificateInv
  <1> QED
    BY InitSound, InvStep, PTL DEF CSpec

\* Whatever the client and the script do, a usable identity only ends by
\* expiring or by the first move of its renewal.
THEOREM IdentityStays == CSpec => IdentityKept
  <1> DEFINE Kept == Usable => Usable' \/ (cert' # None /\ cert'.age = "expired")
                          \/ pc' = "install_cert"
  <1>1. CertificateInv /\ [CNext]_cvars => [Kept]_vars
    <2> SUFFICES ASSUME CertificateInv, [CNext]_cvars
                 PROVE  Kept \/ UNCHANGED vars
      OBVIOUS
    <2>1. IdentityInv /\ CTypeOK
      BY DEF CertificateInv, CTypeOK, IdentityInv
    <2>2. CASE Next
      BY <2>1, <2>2, KeptStep
    <2>3. CASE UNCHANGED <<chain, identity, request, declared, pc, mode, kills>>
      BY <2>3 DEF Usable, identity
    <2>4. CASE Interrupt
      BY <2>1, <2>4, InterruptFiles, EnrollAssumption DEF Usable, Unusable, IdentityInv, StepsHaveFiles
    <2> QED
      BY <2>1, <2>2, <2>3, <2>4, ClientSteps
  <1> QED
    BY <1>1, CertificatesSafe, PTL DEF CSpec, IdentityKept

\* A renewal never keeps the key, whatever earlier runs left behind.
THEOREM KeyRotates == CSpec => RenewalRotatesKey
  <1> DEFINE Rotated == cert # None /\ cert' # None /\ cert'.age = "fresh" /\ cert # cert'
                => cert'.key # cert.key
  <1>1. CertificateInv /\ [CNext]_cvars => [Rotated]_vars
    <2> SUFFICES ASSUME CertificateInv, [CNext]_cvars
                 PROVE  Rotated \/ UNCHANGED vars
      OBVIOUS
    <2>1. IdentityInv /\ CTypeOK
      BY DEF CertificateInv, CTypeOK, IdentityInv
    <2>2. CASE Next
      BY <2>1, <2>2, RotateStep
    <2>3. CASE UNCHANGED <<chain, identity, request, declared, pc, mode, kills>>
      BY <2>3 DEF identity
    <2>4. CASE Interrupt
      BY <2>1, <2>4, InterruptFiles
    <2> QED
      BY <2>1, <2>2, <2>3, <2>4, ClientSteps
  <1> QED
    BY <1>1, CertificatesSafe, PTL DEF CSpec, RenewalRotatesKey

=============================================================================
