------------------------------- MODULE Ingest -------------------------------
(***************************************************************************)
(* How readings get into the spools: POST /ingest (service/src/api.rs),    *)
(* the pollers' start, and the set of spools they share (SpoolSet in       *)
(* service/src/spool.rs).  A body may hold lines of several modules; its   *)
(* handler appends them module by module, looking every spool up, or       *)
(* opening it, under the mutex of the set.  A spool itself is Spool.tla;   *)
(* here it is how often the lines of each body were appended to it.        *)
(***************************************************************************)
EXTENDS Integers, FiniteSets, FiniteSetsExt

CONSTANTS
    Module,      \* numbers, for names in the order of BTreeMap
    Pollable,    \* modules that have a poller
    Handler,     \* connection threads
    Body,        \* request bodies
    Groups,      \* [Body -> SUBSET Module]: modules with lines in a body
    MaxAttempts, \* bound: times a body is pushed
    MaxCrashes,  \* bound: crashes of the process
    MaxErrors    \* bound: I/O errors

ASSUME IngestAssumption ==
    /\ Module \subseteq Nat
    /\ Pollable \subseteq Module
    /\ Groups \in [Body -> SUBSET Module]
    /\ "free" \notin Handler /\ IsFiniteSet(Handler)
    /\ {MaxAttempts, MaxCrashes, MaxErrors} \subseteq Nat

VARIABLES
    polled,    \* modules whose poller this process starts
    up,        \* "down", "starting" (main before api::run), or "serving"
    dirs,      \* directories under the spool root
    spools,    \* SpoolSet.spools: the registered modules
    opened,    \* history: Spool objects made for a module in this process
    appended,  \* appended[m][b]: appends of b's lines to m's spool
    lock,      \* holder of the mutex of the set, or "free"
    thread,    \* per handler: where it stands and what it has still to do
    attempts,  \* history: times a body was handed to a handler
    ok,        \* history: bodies that were answered 200
    crashes, errors

faults == <<crashes, errors>>
vars == <<polled, up, dirs, spools, opened, appended, lock, thread, attempts, ok, faults>>

Free == [at |-> "free", body |-> {}, todo |-> {}]

Init ==
    /\ polled = {}
    /\ up = "down"
    /\ dirs \in SUBSET Module
    /\ spools = {}
    /\ opened = [m \in Module |-> 0]
    /\ appended = [m \in Module |-> [b \in Body |-> 0]]
    /\ lock = "free"
    /\ thread = [h \in Handler |-> Free]
    /\ attempts = [b \in Body |-> 0]
    /\ ok = {}
    /\ crashes = 0 /\ errors = 0

-----------------------------------------------------------------------------
(* Start-up.                                                               *)

\* SpoolSet::open: every existing directory is a spool.  The configuration
\* says which pollers there will be.
Open ==
    /\ up = "down"
    /\ polled' \in SUBSET Pollable
    /\ spools' = dirs
    /\ opened' = [m \in Module |-> IF m \in dirs THEN 1 ELSE 0]
    /\ up' = "starting"
    /\ UNCHANGED <<dirs, appended, lock, thread, attempts, ok, faults>>

\* It fails: the process exits and systemd starts it again.
OpenFails ==
    /\ up = "down"
    /\ errors < MaxErrors
    /\ errors' = errors + 1
    /\ UNCHANGED <<polled, up, dirs, spools, opened, appended, lock, thread, attempts, ok, crashes>>

\* for_module for a poller; no handler runs yet.
StartPoller(m) ==
    /\ up = "starting"
    /\ m \in polled \ spools
    /\ spools' = spools \cup {m}
    /\ dirs' = dirs \cup {m}
    /\ opened' = [opened EXCEPT ![m] = @ + 1]
    /\ UNCHANGED <<polled, up, appended, lock, thread, attempts, ok, faults>>

\* api::run.
Serve ==
    /\ up = "starting"
    /\ polled \subseteq spools
    /\ up' = "serving"
    /\ UNCHANGED <<polled, dirs, spools, opened, appended, lock, thread, attempts, ok, faults>>

-----------------------------------------------------------------------------
(* POST /ingest.                                                           *)

Step(h, at) == thread' = [thread EXCEPT ![h].at = at]

\* An authorized request whose lines have been grouped by module.
Begin(h, b) ==
    /\ up = "serving"
    /\ thread[h] = Free
    /\ attempts[b] < MaxAttempts
    /\ attempts' = [attempts EXCEPT ![b] = @ + 1]
    /\ thread' = [thread EXCEPT ![h] = [at |-> "lookup", body |-> {b}, todo |-> Groups[b]]]
    /\ UNCHANGED <<polled, up, dirs, spools, opened, appended, lock, ok, faults>>

\* The module the loop is at.
Current(h) == Min(thread[h].todo)

\* for_module: the mutex is taken and the spool is there.
Found(h) ==
    /\ thread[h].at = "lookup" /\ thread[h].todo # {}
    /\ lock = "free"
    /\ Current(h) \in spools
    /\ Step(h, "append")
    /\ UNCHANGED <<polled, up, dirs, spools, opened, appended, lock, attempts, ok, faults>>

\* Mutant: the mutex is given back before the spool is opened.
MissingUnlocked(h) ==
    /\ thread[h].at = "lookup" /\ thread[h].todo # {}
    /\ lock = "free"
    /\ Current(h) \notin spools
    /\ Step(h, "open")
    /\ UNCHANGED <<polled, up, dirs, spools, opened, appended, lock, attempts, ok, faults>>

\* ... it is not: the mutex is held while Spool::open reads the directory.
Missing(h) ==
    /\ thread[h].at = "lookup" /\ thread[h].todo # {}
    /\ lock = "free"
    /\ Current(h) \notin spools
    /\ lock' = h
    /\ Step(h, "open")
    /\ UNCHANGED <<polled, up, dirs, spools, opened, appended, attempts, ok, faults>>

\* Spool::open creates the directory, the spool is registered.
OpenSpool(h) ==
    /\ thread[h].at = "open"
    /\ spools' = spools \cup {Current(h)}
    /\ dirs' = dirs \cup {Current(h)}
    /\ opened' = [opened EXCEPT ![Current(h)] = @ + 1]
    /\ lock' = "free"
    /\ Step(h, "append")
    /\ UNCHANGED <<polled, up, appended, attempts, ok, faults>>

\* Opening a spool fails, before or after its directory is made, or appending
\* to it, before or after the lines were written (the rotation and the cap of
\* Spool follow them): 500, what was made and appended before stays.  Lines
\* written in part are Spool's torn bytes.
Error(h) ==
    /\ errors < MaxErrors
    /\ errors' = errors + 1
    /\ \/ /\ thread[h].at = "open"
          /\ dirs' \in {dirs, dirs \cup {Current(h)}}
          /\ UNCHANGED appended
       \/ /\ thread[h].at = "append"
          /\ \/ UNCHANGED appended
             \/ \E b \in thread[h].body : appended' = [appended EXCEPT ![Current(h)][b] = @ + 1]
          /\ UNCHANGED dirs
    /\ lock' = IF lock = h THEN "free" ELSE lock
    /\ thread' = [thread EXCEPT ![h] = Free]
    /\ UNCHANGED <<polled, up, spools, opened, attempts, ok, crashes>>

\* Spool::append of the module's lines returns.
AppendLines(h) ==
    /\ thread[h].at = "append"
    /\ \E b \in thread[h].body : appended' = [appended EXCEPT ![Current(h)][b] = @ + 1]
    /\ thread' = [thread EXCEPT ![h].at = "lookup", ![h].todo = @ \ {Current(h)}]
    /\ UNCHANGED <<polled, up, dirs, spools, opened, lock, attempts, ok, faults>>

\* Every module has its lines: 200.
Answer(h) ==
    /\ thread[h].at = "lookup" /\ thread[h].todo = {}
    /\ ok' = ok \cup thread[h].body
    /\ thread' = [thread EXCEPT ![h] = Free]
    /\ UNCHANGED <<polled, up, dirs, spools, opened, appended, lock, attempts, faults>>

\* The process dies; directories and what was appended stay.
Crash ==
    /\ up # "down"
    /\ crashes < MaxCrashes
    /\ crashes' = crashes + 1
    /\ up' = "down"
    /\ lock' = "free"
    /\ thread' = [h \in Handler |-> Free]
    /\ UNCHANGED <<polled, dirs, spools, opened, appended, attempts, ok, errors>>

\* The loop over the modules of a body.
Loop(h) == Found(h) \/ Missing(h) \/ OpenSpool(h) \/ AppendLines(h)

Handle(h) == (\E b \in Body : Begin(h, b)) \/ Loop(h) \/ Error(h) \/ Answer(h)

Next ==
    \/ Open \/ OpenFails \/ (\E m \in Module : StartPoller(m)) \/ Serve
    \/ \E h \in Handler : Handle(h)
    \/ Crash

Spec == Init /\ [][Next]_vars

-----------------------------------------------------------------------------
(* Properties.                                                             *)

\* Every variable keeps its type; only the thread that opens a spool holds
\* the mutex, and modules that have a spool have a directory.
TypeOK ==
    /\ polled \subseteq Pollable
    /\ up \in {"down", "starting", "serving"}
    /\ spools \subseteq Module /\ dirs \subseteq Module
    /\ up # "down" => spools \subseteq dirs
    /\ opened \in [Module -> Nat]
    /\ appended \in [Module -> [Body -> Nat]]
    /\ lock \in Handler \cup {"free"}
    /\ thread \in [Handler -> [at : {"free", "lookup", "open", "append"},
                               body : SUBSET Body, todo : SUBSET Module]]
    /\ \A h \in Handler : thread[h].at = "open" <=> lock = h
    /\ attempts \in [Body -> 0..MaxAttempts]
    /\ ok \subseteq Body
    /\ crashes \in 0..MaxCrashes /\ errors \in 0..MaxErrors

\* A process never has two Spool objects for one directory, although handlers
\* and pollers open spools on demand: two would number segments and count
\* bytes each for itself.
OneSpoolPerModule == up # "down" => \A m \in Module : opened[m] <= 1

\* "existing subdirectories reopen at startup so pending batches survive a
\* restart even if their producer stays idle" (SpoolSet): whatever was ever
\* appended can be read while the API serves.
PendingIsServed ==
    up = "serving" => \A m \in Module : (\E b \in Body : appended[m][b] > 0) => m \in spools

\* 200 is answered only when every module of the body has its lines.
OkMeansStored ==
    \A b \in ok : \A m \in Groups[b] : appended[m][b] > 0

\* Handlers that have still to append the lines of a body for a module.
Waiting(m, b) == {h \in Handler : b \in thread[h].body /\ m \in thread[h].todo}

\* A body's lines are stored at most once for every time it was pushed, the
\* times they are still going to be counted too: a duplicate needs a push that
\* was not answered 200, which a failure in the middle of the modules makes
\* possible.
NoDuplicatePerPush ==
    \A m \in Module : \A b \in Body :
        appended[m][b] + Cardinality(Waiting(m, b)) <= attempts[b]

\* The modules that are registered are those a Spool object was made for, and
\* whatever was appended has a directory, which every start finds again.
SpoolsAreOpened ==
    /\ up # "down" => \A m \in Module : opened[m] = IF m \in spools THEN 1 ELSE 0
    /\ \A m \in Module : (\E b \in Body : appended[m][b] > 0) =>
          m \in dirs /\ (up # "down" => m \in spools)

\* What a handler has done of its body is stored.
DoneIsStored(h) ==
    \E b \in Body :
        /\ thread[h].body = {b} /\ thread[h].todo \subseteq Groups[b]
        /\ \A m \in Groups[b] \ thread[h].todo : appended[m][b] > 0

\* Where a handler stands; while it opens a spool nobody else registers that
\* module.
ThreadsAreSound ==
    \A h \in Handler :
        /\ thread[h].at = "free" => thread[h] = Free
        /\ thread[h].at # "free" => up = "serving" /\ DoneIsStored(h)
        /\ thread[h].at = "open" => thread[h].todo # {} /\ Current(h) \notin spools
        /\ thread[h].at = "append" => thread[h].todo # {} /\ Current(h) \in spools

\* What holds of the set in every state, in the middle of a push included: the
\* inductive invariant of IngestProofs.
IngestInv ==
    /\ TypeOK
    /\ OneSpoolPerModule
    /\ PendingIsServed
    /\ OkMeansStored
    /\ NoDuplicatePerPush
    /\ SpoolsAreOpened
    /\ ThreadsAreSound

=============================================================================
