------------------------------- MODULE Enroll -------------------------------
(***************************************************************************)
(* The client that obtains and keeps the machine identity                  *)
(* (modules/enroll.nix, ahara-enroll): a oneshot unit on a timer that      *)
(* pins the authority's certificate on first contact, enrolls, and renews  *)
(* with a fresh key from half of the certificate's life on.  All its state *)
(* is files, so a run that is killed leaves the next one what it had       *)
(* written.                                                                *)
(*                                                                         *)
(* A key pair is a number; a certificate is the key it is for and its age. *)
(* A file that does not exist holds None.                                  *)
(***************************************************************************)
EXTENDS Integers, FiniteSetsExt

CONSTANTS
    Key,          \* key pairs; one more than files can hold at a time
    None,
    MaxFailures,  \* bound: requests the authority does not answer, and times
                  \* without an answer that outlast a certificate
    MaxKills      \* bound: runs that are killed

ASSUME EnrollAssumption ==
    /\ Key \subseteq Nat
    /\ None \notin Key /\ None # "piece" /\ None # "pinned"
    /\ None \notin [key : Key, age : {"fresh", "due", "expired"}]
    /\ \A a, b, c, d, e \in Key \cup {None} : Key \ {a, b, c, d, e} # {}
    /\ MaxFailures \in Nat /\ MaxKills \in Nat

VARIABLES
    chain,     \* authority.pem: None, "piece" of a download, or "pinned"
    key,       \* identity.key
    cert,      \* identity.crt
    nextKey,   \* next.key, with next.csr
    nextJson,  \* next.json: the key the request asks a certificate for
    response,  \* response.json: the key the issued certificate is for
    declared,  \* is the workload id in the authority's policy?
    pc, mode,  \* where the script stands, and whether it enrolls or renews
    failures, kills

identity == <<key, cert>>
request == <<nextKey, nextJson, response>>
faults == <<failures, kills>>
vars == <<chain, identity, request, declared, pc, mode, faults>>

\* identity_usable.
Usable ==
    /\ chain = "pinned"
    /\ cert # None /\ key # None
    /\ cert.age # "expired"
    /\ cert.key = key

Init ==
    /\ chain = None
    /\ key = None
    /\ cert = None
    /\ nextKey = None
    /\ nextJson = None
    /\ response = None
    /\ declared \in BOOLEAN
    /\ pc = "idle"
    /\ mode = "enroll"
    /\ failures = 0 /\ kills = 0

-----------------------------------------------------------------------------
(* The environment.                                                        *)

\* Time passes: the certificate gets to half its life ...
Age ==
    /\ cert # None
    /\ cert.age = "fresh"
    /\ cert' = [cert EXCEPT !.age = "due"]
    /\ UNCHANGED <<chain, key, request, declared, pc, mode, faults>>

\* ... and to its end, when for all that time nothing could renew it.
Expire ==
    /\ cert # None
    /\ cert.age = "due"
    /\ failures < MaxFailures
    /\ failures' = failures + 1
    /\ cert' = [cert EXCEPT !.age = "expired"]
    /\ UNCHANGED <<chain, key, request, declared, pc, mode, kills>>

\* Somebody declares the id on the authority.
Declare ==
    /\ ~declared
    /\ declared' = TRUE
    /\ UNCHANGED <<chain, identity, request, pc, mode, faults>>

-----------------------------------------------------------------------------
(* The script.                                                             *)

\* A file of the pinned certificate's name is taken for the certificate.
Start ==
    /\ pc = "idle"
    /\ pc' = IF chain = None THEN "pin" ELSE "check"
    /\ UNCHANGED <<chain, identity, request, declared, mode, faults>>

Pin ==
    /\ pc = "pin"
    /\ chain' = "pinned"
    /\ pc' = "check"
    /\ UNCHANGED <<identity, request, declared, mode, faults>>

\* curl fails, which may leave a piece of the file, or what it fetched is no
\* certificate and is removed.
PinFails ==
    /\ pc = "pin"
    /\ failures < MaxFailures
    /\ failures' = failures + 1
    /\ chain' \in {None, "piece"}
    /\ pc' = "idle"
    /\ UNCHANGED <<identity, request, declared, mode, kills>>

\* The first n files of the rm that makes room for enrolling afresh.
Remove(n) ==
    /\ cert' = IF n >= 1 THEN None ELSE cert
    /\ key' = IF n >= 2 THEN None ELSE key
    /\ nextKey' = IF n >= 3 THEN None ELSE nextKey
    /\ nextJson' = IF n >= 4 THEN None ELSE nextJson
    /\ response' = IF n >= 5 THEN None ELSE response

Unusable == (cert # None \/ key # None) /\ ~Usable

\* Mutant: a certificate that is due is thrown away before it is renewed.
CheckUnusableEager ==
    /\ pc = "check"
    /\ Unusable \/ (Usable /\ cert.age = "due")
    /\ Remove(5)
    /\ pc' = "decide"
    /\ UNCHANGED <<chain, declared, mode, faults>>

CheckUnusable ==
    /\ pc = "check"
    /\ Unusable
    /\ Remove(5)
    /\ pc' = "decide"
    /\ UNCHANGED <<chain, declared, mode, faults>>

CheckPasses ==
    /\ pc = "check"
    /\ ~Unusable
    /\ pc' = "decide"
    /\ UNCHANGED <<chain, identity, request, declared, mode, faults>>

\* renew_after says that it is too early: exit 0.
NotDue ==
    /\ pc = "decide"
    /\ Usable /\ cert.age = "fresh"
    /\ pc' = "idle"
    /\ UNCHANGED <<chain, identity, request, declared, mode, faults>>

BeginRenewal ==
    /\ pc = "decide"
    /\ Usable /\ cert.age = "due"
    /\ mode' = "renew"
    /\ pc' = "request"
    /\ UNCHANGED <<chain, identity, request, declared, faults>>

\* Without an identity a request that is there already is sent again.
BeginEnrollment ==
    /\ pc = "decide"
    /\ ~Usable
    /\ mode' = "enroll"
    /\ pc' = IF nextJson = None THEN "request" ELSE "post"
    /\ UNCHANGED <<chain, identity, request, declared, faults>>

InUse == {key, nextKey, nextJson, response} \cup
         (IF cert = None THEN {} ELSE {cert.key})

\* Mutant: a key that is there is used again.
RequestKeyReused ==
    /\ pc = "request"
    /\ nextKey' = IF key # None THEN key ELSE Min(Key \ InUse)
    /\ pc' = "encode"
    /\ UNCHANGED <<chain, identity, nextJson, response, declared, mode, faults>>

\* request(): openssl writes a new key and its signing request ...
RequestKey ==
    /\ pc = "request"
    /\ nextKey' = Min(Key \ InUse)
    /\ pc' = "encode"
    /\ UNCHANGED <<chain, identity, nextJson, response, declared, mode, faults>>

\* ... and jq puts the signing request into next.json.
RequestJson ==
    /\ pc = "encode"
    /\ nextJson' = nextKey
    /\ pc' = "post"
    /\ UNCHANGED <<chain, identity, nextKey, response, declared, mode, faults>>

\* Does the authority grant what is posted?  Renewal authenticates with the
\* certificate that is held, enrollment needs the id to be declared; both
\* verify the transport with the pinned certificate.
Granted ==
    /\ chain = "pinned"
    /\ IF mode = "renew" THEN Usable ELSE declared

Post ==
    /\ pc = "post"
    /\ Granted
    /\ response' = nextJson
    /\ pc' = "install"
    /\ UNCHANGED <<chain, identity, nextKey, nextJson, declared, mode, faults>>

\* Refused, or with a pinned certificate that verifies nothing not even
\* sent: the run ends and the files stay.
PostRefused ==
    /\ pc = "post"
    /\ ~Granted
    /\ pc' = "idle"
    /\ UNCHANGED <<chain, identity, request, declared, mode, faults>>

\* The authority cannot be reached, or its answer is lost.
PostFails ==
    /\ pc = "post"
    /\ failures < MaxFailures
    /\ failures' = failures + 1
    /\ pc' = "idle"
    /\ UNCHANGED <<chain, identity, request, declared, mode, kills>>

\* Mutant: the request that led to the certificate is kept.
InstallDiscardsLess ==
    /\ pc = "install"
    /\ response # nextKey
    /\ nextKey' = None
    /\ response' = None
    /\ pc' = "idle"
    /\ UNCHANGED <<chain, identity, nextJson, declared, mode, faults>>

\* install_issued: the certificate is for another key than next.key.
InstallDiscards ==
    /\ pc = "install"
    /\ response # nextKey
    /\ nextKey' = None
    /\ nextJson' = None
    /\ response' = None
    /\ pc' = "idle"
    /\ UNCHANGED <<chain, identity, declared, mode, faults>>

\* ... it is for next.key: the key is moved into place ...
InstallKey ==
    /\ pc = "install"
    /\ response = nextKey
    /\ key' = nextKey
    /\ nextKey' = None
    /\ pc' = "install_cert"
    /\ UNCHANGED <<chain, cert, nextJson, response, declared, mode, faults>>

\* ... then the certificate ...
InstallCert ==
    /\ pc = "install_cert"
    /\ cert' = [key |-> response, age |-> "fresh"]
    /\ pc' = "clean"
    /\ UNCHANGED <<chain, key, request, declared, mode, faults>>

\* ... and what the request left is removed.
InstallClean ==
    /\ pc = "clean"
    /\ nextJson' = None
    /\ response' = None
    /\ pc' = "idle"
    /\ UNCHANGED <<chain, identity, nextKey, declared, mode, faults>>

\* The run ends between two commands, in the middle of the rm, or while curl
\* downloads.
Interrupt ==
    /\ IF pc = "check" /\ Unusable
       THEN \E n \in 0..5 : Remove(n)
       ELSE UNCHANGED <<identity, request>>
    /\ chain' \in IF pc = "pin" THEN {None, "piece"} ELSE {chain}
    /\ pc' = "idle"
    /\ UNCHANGED <<declared, mode>>

\* The unit is stopped.
Killed ==
    /\ pc # "idle"
    /\ kills < MaxKills
    /\ kills' = kills + 1
    /\ Interrupt
    /\ UNCHANGED failures

Run ==
    \/ Start \/ Pin \/ PinFails
    \/ CheckUnusable \/ CheckPasses
    \/ NotDue \/ BeginRenewal \/ BeginEnrollment
    \/ RequestKey \/ RequestJson
    \/ Post \/ PostRefused \/ PostFails
    \/ InstallDiscards \/ InstallKey \/ InstallCert \/ InstallClean

Next == Run \/ Killed \/ Age \/ Expire \/ Declare

Spec == Init /\ [][Next]_vars

\* The timer starts the unit again and again, and a started run goes on.
FairSpec == Spec /\ WF_vars(Run)

-----------------------------------------------------------------------------
(* Properties.                                                             *)

\* Every file keeps the type of its contents.
TypeOK ==
    /\ chain \in {None, "piece", "pinned"}
    /\ {key, nextKey, nextJson, response} \subseteq Key \cup {None}
    /\ cert = None \/ cert \in [key : Key, age : {"fresh", "due", "expired"}]
    /\ declared \in BOOLEAN
    /\ pc \in {"idle", "pin", "check", "decide", "request", "encode", "post",
               "install", "install_cert", "clean"}
    /\ mode \in {"enroll", "renew"}
    /\ failures \in 0..MaxFailures /\ kills \in 0..MaxKills

\* Whatever request, response and key earlier, killed runs left behind, a
\* certificate is moved next to a key only if it is for that key.
InstalledPairMatches == pc = "clean" => key = response /\ (cert # None => cert.key = key)

\* A step of the script finds the files it works with, and pins only a
\* certificate that is not there.
StepsHaveFiles ==
    /\ pc = "pin" => chain = None
    /\ pc = "encode" => nextKey # None
    /\ pc = "post" => nextJson # None
    /\ pc \in {"install", "install_cert", "clean"} => response # None
    /\ pc = "install_cert" => key = response /\ nextKey = None

\* A key that waits for its certificate is not the one of the certificate held.
NextKeyIsNew ==
    /\ cert # None /\ nextKey # None => nextKey # cert.key
    /\ pc = "install_cert" /\ cert # None => cert.key # response

\* "keeping current identity" (enroll.nix): no refusal, lost answer, discarded
\* certificate or killed run takes a usable identity away.  It ends by
\* expiring, or at the instant the key of its successor is moved in.
IdentityKept ==
    [][Usable => Usable' \/ (cert' # None /\ cert'.age = "expired")
                         \/ pc' = "install_cert"]_vars

\* "renewal rotates the key" (enroll.nix): an issued certificate is never for
\* the key of the one it replaces.
RenewalRotatesKey ==
    [][cert # None /\ cert' # None /\ cert'.age = "fresh" /\ cert # cert'
            => cert'.key # cert.key]_vars

\* "a device whose authority is unreachable, or whose id has not been declared
\* there, exits quietly and tries again" (enroll.nix): once the id is
\* declared, the appliance gets a usable identity again and again, whatever
\* runs failed or were killed and however often certificates expire; only a
\* first contact that broke off and left a piece of authority.pem stands in
\* the way.
DeclaredGetsIdentity == declared ~> Usable \/ chain = "piece"

=============================================================================
