--------------------------- MODULE WiimInventory ---------------------------
(***************************************************************************)
(* The WiiM renderer inventory (service/src/wiim.rs).  Three copies of it  *)
(* exist: the state file, Registry.wiim behind a mutex, and the vector the *)
(* discovery thread keeps in its own local variable between scans.  The    *)
(* thread (WiimModule::run) publishes its vector after every scan; each    *)
(* handler of POST /wiim/probe (WiimTransport::probe) merges the renderer  *)
(* it found into the registry.  Both save while they hold the mutex, by    *)
(* writing a temporary file and renaming it.                               *)
(*                                                                         *)
(* An inventory maps the ids it lists to entries: the facts a description  *)
(* document gave (address, port, service paths), which nothing here looks  *)
(* at, and whether the renderer counts as reachable.  Where renderers are  *)
(* found, and what the facts are used for, is WiimTransport.               *)
(***************************************************************************)
EXTENDS Integers, FiniteSets

CONSTANTS
    Device,     \* renderer ids
    Facts,      \* what a description may say of a renderer
    OnFile,     \* what an earlier life of the process may have saved
    Handler,    \* threads that may handle a probe
    MaxCrashes, \* bound: crashes of the process
    MaxErrors   \* bound: failed saves

ASSUME WiimAssumption ==
    /\ MaxCrashes \in Nat /\ MaxErrors \in Nat
    /\ OnFile \subseteq (UNION {[ids -> Facts] : ids \in SUBSET Device})
    /\ "scan" \notin Handler /\ "free" \notin Handler

VARIABLES
    file,      \* the state file: what it lists, and whether it parses
    tmp,       \* the temporary file next to it
    registry,  \* Registry.wiim
    devices,   \* the discovery thread's own vector
    lock,      \* holder of the registry mutex, or "free"
    scan,      \* where the discovery thread stands
    probe,     \* per handler: where it stands, what it found and merged
    answered,  \* history: ids the scan under way found
    seen,      \* history: ids the latest stored scan found or a later probe
    scanned,   \* history: ids the thread loaded or a scan saved
    unsaved,   \* history: a failed save, or a probe's before Publish, left file and
               \* registry apart
    crashes, errors

vars == <<file, tmp, registry, devices, lock, scan, probe,
          answered, seen, scanned, unsaved, crashes, errors>>

Listings == UNION {[ids -> Facts] : ids \in SUBSET Device}

Contents == [list : Listings, whole : BOOLEAN]

Nothing == [d \in {} |-> d]

Whole(list) == [list |-> list, whole |-> TRUE]

\* What an interrupted write leaves: load_inventory cannot parse it.
Damaged == [list |-> Nothing, whole |-> FALSE]

Entry == [facts : Facts, reachable : BOOLEAN]

Inventory == UNION {[ids -> Entry] : ids \in SUBSET Device}

Listed(inventory) == [d \in DOMAIN inventory |-> inventory[d].facts]

Reachable(inventory) == {d \in DOMAIN inventory : inventory[d].reachable}

\* What discover() and a probe hand over.
Discovered(list) == [d \in DOMAIN list |-> [facts |-> list[d], reachable |-> TRUE]]

\* Mutants: previous entries keep their mark; undiscovered ones are dropped.
merge_keeps_mark(previous, discovered) ==
    [d \in DOMAIN previous \cup DOMAIN discovered |->
        IF d \in DOMAIN discovered THEN discovered[d] ELSE previous[d]]

merge_drops(previous, discovered) == discovered

\* merge_inventory: every previous entry is marked unreachable, then the
\* discovered ones replace theirs.
merge_inventory(previous, discovered) ==
    [d \in DOMAIN previous \cup DOMAIN discovered |->
        IF d \in DOMAIN discovered THEN discovered[d]
        ELSE [previous[d] EXCEPT !.reachable = FALSE]]

\* load_inventory with from_json: no entry of the file counts as reachable; a
\* file that does not parse counts as empty.
load_inventory ==
    LET list == IF file.whole THEN file.list ELSE Nothing
    IN  [d \in DOMAIN list |-> [facts |-> list[d], reachable |-> FALSE]]

Idle == [at |-> "idle", merged |-> Nothing, found |-> Nothing]

-----------------------------------------------------------------------------

Init ==
    /\ file \in {Whole(list) : list \in OnFile}
    /\ tmp = Whole(Nothing)
    /\ registry = Nothing
    /\ devices = Nothing
    /\ lock = "free"
    /\ scan = "load"
    /\ probe = [h \in Handler |-> Idle]
    /\ answered = {}
    /\ seen = {}
    /\ scanned = {}
    /\ unsaved = FALSE
    /\ crashes = 0
    /\ errors = 0

history == <<answered, seen, scanned, unsaved>>
faults == <<crashes, errors>>

\* The thread starts: its vector is what the file holds.
Load ==
    /\ scan = "load"
    /\ devices' = load_inventory
    /\ scanned' = DOMAIN devices'
    /\ unsaved' = FALSE
    /\ scan' = "publish"
    /\ UNCHANGED <<file, tmp, registry, lock, probe, answered, seen, faults>>

\* ... and the registry a copy of the vector.
Publish ==
    /\ scan = "publish"
    /\ lock = "free"
    /\ registry' = devices
    /\ seen' = {}
    /\ scan' = "scan"
    /\ UNCHANGED <<file, tmp, devices, lock, probe, answered, scanned, unsaved, faults>>

\* discover() returns the renderers that answered; they are merged into the
\* thread's own vector.
ScanMerge(list) ==
    /\ scan = "scan"
    /\ devices' = merge_inventory(devices, Discovered(list))
    /\ answered' = DOMAIN list
    /\ scan' = "merged"
    /\ UNCHANGED <<file, tmp, registry, lock, probe, seen, scanned, unsaved, faults>>

\* discover() fails: the thread sleeps and tries again.
ScanError ==
    /\ scan = "scan"
    /\ UNCHANGED vars

\* Mutant: the mutex is released before the save.
ScanStoreUnlocked ==
    /\ scan = "merged"
    /\ lock = "free"
    /\ registry' = devices
    /\ seen' = answered
    /\ scan' = "write"
    /\ UNCHANGED <<file, tmp, devices, lock, probe, answered, scanned, unsaved, faults>>

\* The thread takes the mutex and copies its vector into the registry.
ScanStore ==
    /\ scan = "merged"
    /\ lock = "free"
    /\ lock' = "scan"
    /\ registry' = devices
    /\ seen' = answered
    /\ scan' = "write"
    /\ UNCHANGED <<file, tmp, devices, probe, answered, scanned, unsaved, faults>>

\* save_inventory, first half: fs::write of the temporary file.
ScanWrite ==
    /\ scan = "write"
    /\ tmp' = Whole(Listed(registry))
    /\ scan' = "rename"
    /\ UNCHANGED <<file, registry, devices, lock, probe, history, faults>>

\* save_inventory, second half: rename; the guard is dropped with it.
ScanRename ==
    /\ scan = "rename"
    /\ file' = tmp
    /\ scanned' = scanned \cup answered
    /\ answered' = {}
    /\ unsaved' = FALSE
    /\ lock' = "free"
    /\ scan' = "scan"
    /\ UNCHANGED <<tmp, registry, devices, probe, seen, faults>>

\* A failed save is logged; the registry keeps the new inventory.
ScanSaveFails ==
    /\ scan \in {"write", "rename"}
    /\ errors < MaxErrors
    /\ errors' = errors + 1
    /\ tmp' = IF scan = "write" THEN Damaged ELSE tmp
    /\ unsaved' = TRUE
    /\ lock' = "free"
    /\ scan' = "scan"
    /\ answered' = {}
    /\ UNCHANGED <<file, registry, devices, probe, seen, scanned, crashes>>

-----------------------------------------------------------------------------

\* POST /wiim/probe: the address is inside the IoT CIDR, candidate ports are
\* tried one after the other.
ProbeBegin(h) ==
    /\ probe[h].at = "idle"
    /\ probe' = [probe EXCEPT ![h].at = "fetch"]
    /\ UNCHANGED <<file, tmp, registry, devices, lock, scan, history, faults>>

\* A description was fetched and validated.
ProbeFound(h, list) ==
    /\ probe[h].at = "fetch"
    /\ probe' = [probe EXCEPT ![h].at = "found", ![h].found = Discovered(list)]
    /\ UNCHANGED <<file, tmp, registry, devices, lock, scan, history, faults>>

\* No candidate port answered: 502.
ProbeFailed(h) ==
    /\ probe[h].at = "fetch"
    /\ probe' = [probe EXCEPT ![h] = Idle]
    /\ UNCHANGED <<file, tmp, registry, devices, lock, scan, history, faults>>

\* The handler takes the mutex and merges what it found into a copy of the
\* registry.
ProbeMerge(h) ==
    /\ probe[h].at = "found"
    /\ lock = "free"
    /\ lock' = h
    /\ probe' = [probe EXCEPT ![h].at = "write",
                              ![h].merged = merge_inventory(registry, probe[h].found)]
    /\ UNCHANGED <<file, tmp, registry, devices, scan, history, faults>>

ProbeWrite(h) ==
    /\ probe[h].at = "write"
    /\ tmp' = Whole(Listed(probe[h].merged))
    /\ probe' = [probe EXCEPT ![h].at = "rename"]
    /\ UNCHANGED <<file, registry, devices, lock, scan, history, faults>>

\* The save succeeded: the registry follows, and the caller is answered 200.
ProbeRename(h) ==
    /\ probe[h].at = "rename"
    /\ file' = tmp
    /\ registry' = probe[h].merged
    /\ seen' = seen \cup DOMAIN probe[h].found
    /\ unsaved' = (scan = "publish")
    /\ lock' = "free"
    /\ probe' = [probe EXCEPT ![h] = Idle]
    /\ UNCHANGED <<tmp, devices, scan, answered, scanned, faults>>

\* The save failed: `?` returns before the registry is touched.
ProbeSaveFails(h) ==
    /\ probe[h].at \in {"write", "rename"}
    /\ errors < MaxErrors
    /\ errors' = errors + 1
    /\ tmp' = IF probe[h].at = "write" THEN Damaged ELSE tmp
    /\ lock' = "free"
    /\ probe' = [probe EXCEPT ![h] = Idle]
    /\ UNCHANGED <<file, registry, devices, scan, history, crashes>>

\* The process dies and is started again; a write under way leaves a piece.
Crash ==
    /\ crashes < MaxCrashes
    /\ crashes' = crashes + 1
    /\ tmp' = IF scan = "write" \/ \E h \in Handler : probe[h].at = "write"
              THEN Damaged ELSE tmp
    /\ registry' = Nothing
    /\ devices' = Nothing
    /\ lock' = "free"
    /\ scan' = "load"
    /\ probe' = [h \in Handler |-> Idle]
    /\ answered' = {}
    /\ seen' = {}
    /\ UNCHANGED <<file, scanned, unsaved, errors>>

Scan ==
    \/ Load \/ Publish
    \/ (\E list \in Listings : ScanMerge(list)) \/ ScanError \/ ScanStore
    \/ ScanWrite \/ ScanRename \/ ScanSaveFails

Probe(h) ==
    \/ ProbeBegin(h) \/ ProbeFailed(h)
    \/ \E d \in Device : \E facts \in Facts : ProbeFound(h, [id \in {d} |-> facts])
    \/ ProbeMerge(h) \/ ProbeWrite(h) \/ ProbeRename(h) \/ ProbeSaveFails(h)

Next == Scan \/ (\E h \in Handler : Probe(h)) \/ Crash

Spec == Init /\ [][Next]_vars

-----------------------------------------------------------------------------
(* Properties.                                                             *)

\* Every variable keeps its type, and the handler or thread in the middle of
\* a save is the one that holds the mutex.
TypeOK ==
    /\ file \in Contents
    /\ tmp \in Contents
    /\ registry \in Inventory
    /\ devices \in Inventory
    /\ lock \in Handler \cup {"scan", "free"}
    /\ scan \in {"write", "rename"} <=> lock = "scan"
    /\ \A h \in Handler : probe[h].at \in {"write", "rename"} <=> lock = h
    /\ scan \in {"load", "publish", "scan", "merged", "write", "rename"}
    /\ probe \in [Handler -> [at : {"idle", "fetch", "found", "write", "rename"},
                              merged : Inventory, found : Inventory]]
    /\ answered \subseteq Device
    /\ seen \subseteq Device
    /\ scanned \subseteq Device
    /\ unsaved \in BOOLEAN
    /\ crashes \in 0..MaxCrashes
    /\ errors \in 0..MaxErrors

\* Whoever saves, and whenever it crashes or fails, the state file is never
\* half an inventory: save_inventory renames only what it finished writing,
\* and no two savers share the temporary file.
FileNeverDamaged == file.whole

\* No renderer is reported reachable because of an older scan: it answered
\* the latest stored scan or a probe since then.
ReachableWasSeen == Reachable(registry) \subseteq seen

\* The file lists what the registry lists whenever the mutex is free, from
\* the moment the thread has published, unless a save failed since or a probe
\* was stored between the thread's reading the file and its publishing.
SavedAgrees ==
    (lock = "free" /\ ~unsaved /\ scan \notin {"load", "publish"})
        => file.list = Listed(registry)

\* ... which holds because every save starts from a file and a registry, or
\* a vector just loaded, that agree.
BasesAgree ==
    /\ (lock # "scan" /\ ~unsaved /\ scan \notin {"load", "publish"})
          => file.list = Listed(registry)
    /\ (scan = "publish" /\ ~unsaved) => file.list = Listed(devices)

\* What the thread is about to store: a vector in which only what answered
\* this scan is reachable, and which has kept all that an earlier one saved.
ScanHolds ==
    /\ scan = "publish" => Reachable(devices) = {}
    /\ scan = "merged" => Reachable(devices) \subseteq answered
    /\ scan \in {"merged", "write", "rename"} => answered \subseteq DOMAIN devices
    /\ scan \in {"write", "rename"} => registry = devices
    /\ scan = "rename" => tmp = Whole(Listed(registry))
    /\ scan # "load" => scanned \subseteq DOMAIN devices
    /\ scan \notin {"load", "publish"} => scanned \subseteq DOMAIN registry

\* The same of a probe, which starts from the registry.
ProbeHolds ==
    \A h \in Handler :
        /\ probe[h].at \in {"write", "rename"} =>
              /\ Reachable(probe[h].merged) \subseteq DOMAIN probe[h].found
              /\ DOMAIN registry \subseteq DOMAIN probe[h].merged
        /\ probe[h].at = "rename" => tmp = Whole(Listed(probe[h].merged))

\* What holds of the inventory in every state, whoever holds the mutex: the
\* inductive invariant of WiimProofs.
WiimInv ==
    /\ TypeOK
    /\ FileNeverDamaged
    /\ ReachableWasSeen
    /\ SavedAgrees
    /\ BasesAgree
    /\ ScanHolds
    /\ ProbeHolds

\* docs/architecture.md: "last-known entries persist as appliance runtime
\* state".  From the moment the thread has published, a renderer it loaded or
\* a scan saved stays in the file: neither a probe, nor a scan that misses
\* it, nor a crash removes it.
ScannedStayOnFile ==
    [][scan \notin {"load", "publish"} => DOMAIN file.list \cap scanned \subseteq DOMAIN file'.list]_vars

\* The same sentence for every entry, the ones POST /wiim/probe added
\* included: what the file lists it keeps listing.
LastKnownPersist ==
    [][scan \notin {"load", "publish"} => DOMAIN file.list \subseteq DOMAIN file'.list]_vars

=============================================================================
