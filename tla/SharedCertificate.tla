------------------------- MODULE SharedCertificate -------------------------
(***************************************************************************)
(* How the publicly trusted certificate gets from the authority into the   *)
(* TLS terminator (modules/enroll.nix, ahara-certificate; hosts/collector/ *)
(* tls.nix), next to the client that keeps the identity it is fetched with *)
(* (Enroll): a oneshot unit on a timer has systemd run that client first,  *)
(* then fetches certificate and key with the identity's files, compares    *)
(* them with the installed files, replaces these one after the other and   *)
(* has nginx reload.  The client's own timer may start it at any time.     *)
(*                                                                         *)
(* A certificate and its key are the number of their issue; 0 is no file,  *)
(* and an nginx that is not running.                                       *)
(***************************************************************************)
EXTENDS Enroll

CONSTANTS
    MaxIssues,   \* bound: certificates the authority issues
    MaxReboots,  \* bound: reboots of the appliance
    MaxStops     \* bound: runs stopped by themselves, and failed reloads

ASSUME CertificateAssumption ==
    {MaxIssues, MaxReboots, MaxStops} \subseteq Nat

VARIABLES
    issued,            \* what the authority hands out
    certFile, keyFile, \* the installed files
    served,            \* what nginx serves
    fetched,           \* the temporary copy of a run
    stage,             \* where the script, or the job that starts it, stands
    reboots, stops

files == <<certFile, keyFile>>
shared == <<issued, files, served, fetched, stage, reboots, stops>>
cvars == <<vars, shared>>

CInit ==
    /\ Init
    /\ issued = 0
    /\ certFile = 0 /\ keyFile = 0
    /\ served = 0
    /\ fetched = 0
    /\ stage = "idle"
    /\ reboots = 0 /\ stops = 0

-----------------------------------------------------------------------------
(* The authority and nginx.                                                *)

Issue ==
    /\ issued < MaxIssues
    /\ issued' = issued + 1
    /\ UNCHANGED <<vars, files, served, fetched, stage, reboots, stops>>

\* nginx reads a certificate and a key that fit together.
Loadable == certFile # 0 /\ certFile = keyFile

\* systemd starts it again every two seconds until it comes up.
TerminatorStart ==
    /\ served = 0
    /\ Loadable
    /\ served' = certFile
    /\ UNCHANGED <<vars, issued, files, fetched, stage, reboots, stops>>

-----------------------------------------------------------------------------
(* The script.                                                             *)

\* The timer elapses: the unit wants ahara-enroll and is ordered after it.
Elapse ==
    /\ stage = "idle"
    /\ stage' = "after"
    /\ UNCHANGED <<vars, issued, files, served, fetched, reboots, stops>>

\* A step of the client or of what surrounds it; the end of its run, however
\* it ends, releases the job that waits for it.
EnrollStep ==
    /\ Next
    /\ stage' = IF stage = "after" /\ pc # "idle" /\ pc' = "idle" THEN "fetch" ELSE stage
    /\ UNCHANGED <<issued, files, served, fetched, reboots, stops>>

\* The identity's files, as they are now, authenticate, and a pair comes that
\* fits together and has not expired.
Fetch ==
    /\ stage = "fetch"
    /\ Usable /\ issued # 0
    /\ fetched' = issued
    /\ stage' = "compare"
    /\ UNCHANGED <<vars, issued, files, served, reboots, stops>>

\* No identity.crt, one that has expired or, while the client moves the next
\* one in, is not for identity.key, or a transport that does not verify; or
\* nothing is issued yet (404): what is installed is kept.
FetchRefused ==
    /\ stage = "fetch"
    /\ ~Usable \/ issued = 0
    /\ stage' = "idle"
    /\ UNCHANGED <<vars, issued, files, served, fetched, reboots, stops>>

\* The authority cannot be reached, or what comes cannot be used.
FetchFails ==
    /\ stage = "fetch"
    /\ failures < MaxFailures
    /\ failures' = failures + 1
    /\ stage' = "idle"
    /\ UNCHANGED <<chain, identity, request, declared, pc, mode, kills>>
    /\ UNCHANGED <<issued, files, served, fetched, reboots, stops>>

\* Mutant: only the certificate is compared.
UnchangedCertificate ==
    /\ stage = "compare"
    /\ certFile = fetched
    /\ stage' = "idle"
    /\ UNCHANGED <<vars, issued, files, served, fetched, reboots, stops>>

\* Both files are what was fetched: exit 0.
Unchanged ==
    /\ stage = "compare"
    /\ certFile = fetched /\ keyFile = fetched
    /\ stage' = "idle"
    /\ UNCHANGED <<vars, issued, files, served, fetched, reboots, stops>>

ReplaceCert ==
    /\ stage = "compare"
    /\ ~(certFile = fetched /\ keyFile = fetched)
    /\ certFile' = fetched
    /\ stage' = "key"
    /\ UNCHANGED <<vars, issued, keyFile, served, fetched, reboots, stops>>

\* Mutant: the units are reloaded only when there was no key before.
ReplaceKeyQuiet ==
    /\ stage = "key"
    /\ keyFile' = fetched
    /\ stage' = IF keyFile = 0 THEN "reload" ELSE "idle"
    /\ UNCHANGED <<vars, issued, certFile, served, fetched, reboots, stops>>

ReplaceKey ==
    /\ stage = "key"
    /\ keyFile' = fetched
    /\ stage' = "reload"
    /\ UNCHANGED <<vars, issued, certFile, served, fetched, reboots, stops>>

\* systemctl reload-or-restart: nginx keeps what it has if it cannot load.
Reload ==
    /\ stage = "reload"
    /\ served' = IF Loadable THEN certFile ELSE served
    /\ stage' = "idle"
    /\ UNCHANGED <<vars, issued, files, fetched, reboots, stops>>

\* The script is stopped between two commands; or the reload fails, which
\* `|| true` hides.
Stopped ==
    /\ stage \notin {"idle", "after"}
    /\ stops < MaxStops
    /\ stops' = stops + 1
    /\ stage' = "idle"
    /\ UNCHANGED <<vars, issued, files, served, fetched, reboots>>

\* Both scripts end where they are.
Reboot ==
    /\ reboots < MaxReboots
    /\ reboots' = reboots + 1
    /\ Interrupt
    /\ served' = 0
    /\ stage' = "idle"
    /\ UNCHANGED <<failures, kills, issued, files, fetched, stops>>

Script ==
    \/ Elapse \/ FetchRefused \/ FetchFails
    \/ Unchanged \/ ReplaceCert \/ ReplaceKey \/ Reload

CNext ==
    \/ EnrollStep \/ Script \/ Fetch \/ TerminatorStart
    \/ Issue \/ Stopped \/ Reboot

CSpec == CInit /\ [][CNext]_cvars

\* The timers start the scripts again and again and a started one goes on;
\* systemd keeps starting nginx.  Fetches do not forever fall on the moment
\* between the two moves that renew the identity's files.
CFairSpec ==
    /\ CSpec
    /\ WF_cvars(Run /\ EnrollStep) /\ WF_cvars(Script) /\ SF_cvars(Fetch)
    /\ WF_cvars(TerminatorStart)

-----------------------------------------------------------------------------
(* Properties.                                                             *)

\* Every variable keeps its type; files are never newer than what was issued,
\* and a run that goes on past the checks has a certificate in hand.
CTypeOK ==
    /\ TypeOK
    /\ issued \in 0..MaxIssues
    /\ {certFile, keyFile, served, fetched} \subseteq 0..issued
    /\ stage \in {"idle", "after", "fetch", "compare", "key", "reload"}
    /\ stage \in {"compare", "key", "reload"} => fetched # 0
    /\ reboots \in 0..MaxReboots /\ stops \in 0..MaxStops

\* Until a run replaces the first file, a running terminator serves the pair
\* that is installed, unless a run was stopped in the middle.
ServedIsInstalled ==
    (stage \notin {"key", "reload"} /\ stops = 0 /\ served # 0)
        => served = certFile /\ certFile = keyFile

\* A run that replaces the files puts one pair in their place.
ReplacedByOnePair ==
    /\ stage \in {"key", "reload"} => certFile = fetched
    /\ stage = "reload" => keyFile = fetched

\* What holds of the files of both scripts and of the terminator in every
\* state: the inductive invariant of CertificateProofs.
CertificateInv ==
    /\ CTypeOK
    /\ InstalledPairMatches
    /\ StepsHaveFiles
    /\ NextKeyIsNew
    /\ ServedIsInstalled
    /\ ReplacedByOnePair

\* "one that cannot keeps whatever it is already serving" (enroll.nix): on an
\* appliance that is declared, the latest certificate ends up being served,
\* not only being installed, though the identity it is fetched with is
\* renewed, expires and is thrown away meanwhile; only a broken first contact
\* stands in the way, and a run that is stopped in the middle or a failed
\* reload.
LatestIsServed ==
    ([](stops = 0) /\ <>declared) => <>(chain = "piece") \/ <>[](served = issued)

=============================================================================
