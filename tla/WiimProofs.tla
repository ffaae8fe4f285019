---------------------------- MODULE WiimProofs ----------------------------
(***************************************************************************)
(* Proofs about WiimInventory for any renderers, any number of handlers,   *)
(* crashes and failed saves, and about WiimTransport, which runs it, for   *)
(* any addresses, CIDR, descriptions, candidate ports and moves.           *)
(***************************************************************************)
EXTENDS WiimTransport, TLAPS

-----------------------------------------------------------------------------
(* Inventories and files.                                                  *)

\* The empty inventory is one, and no entry of it is reachable.
LEMMA NothingFacts ==
    /\ Nothing \in Inventory
    /\ Nothing \in Listings
    /\ DOMAIN Nothing = {}
    /\ Reachable(Nothing) = {}
  <1>1. Nothing \in [{} -> Entry] /\ Nothing \in [{} -> Facts] /\ {} \in SUBSET Device
    BY DEF Nothing
  <1>2. Nothing \in Inventory /\ Nothing \in Listings
    BY <1>1 DEF Inventory, Listings
  <1> QED
    BY <1>1, <1>2 DEF Reachable

\* The parts of an inventory.
LEMMA InventoryParts ==
    ASSUME NEW v \in Inventory
    PROVE  /\ DOMAIN v \subseteq Device
           /\ v = [d \in DOMAIN v |-> v[d]]
           /\ \A d \in DOMAIN v : v[d].facts \in Facts /\ v[d].reachable \in BOOLEAN
  <1> PICK ids \in SUBSET Device : v \in [ids -> Entry]
    BY DEF Inventory
  <1> QED
    BY DEF Entry

\* What makes a function an inventory.
LEMMA IsInventory ==
    ASSUME NEW ids, ids \subseteq Device, NEW v \in [ids -> Entry]
    PROVE  v \in Inventory
  BY DEF Inventory

\* merge_inventory gives an inventory: it keeps every entry, and only what was
\* discovered is reachable.
LEMMA MergeFacts ==
    ASSUME NEW previous \in Inventory, NEW discovered \in Inventory
    PROVE  /\ merge_inventory(previous, discovered) \in Inventory
           /\ DOMAIN merge_inventory(previous, discovered) = DOMAIN previous \cup DOMAIN discovered
           /\ Reachable(merge_inventory(previous, discovered)) \subseteq DOMAIN discovered
  <1> DEFINE ids == DOMAIN previous \cup DOMAIN discovered
             merged == merge_inventory(previous, discovered)
  <1>1. merged = [d \in ids |-> IF d \in DOMAIN discovered THEN discovered[d]
                                ELSE [previous[d] EXCEPT !.reachable = FALSE]]
    BY DEF merge_inventory
  <1>2. ids \subseteq Device
    BY InventoryParts
  <1>3. ASSUME NEW d \in DOMAIN discovered
        PROVE  discovered[d] \in Entry
    <2> PICK all \in SUBSET Device : discovered \in [all -> Entry]
      BY DEF Inventory
    <2> QED
      BY <1>3
  <1>4. ASSUME NEW d \in DOMAIN previous
        PROVE  /\ [previous[d] EXCEPT !.reachable = FALSE] \in Entry
               /\ [previous[d] EXCEPT !.reachable = FALSE].reachable = FALSE
    <2> PICK all \in SUBSET Device : previous \in [all -> Entry]
      BY DEF Inventory
    <2> QED
      BY <1>4 DEF Entry
  <1>5. merged \in [ids -> Entry] /\ DOMAIN merged = ids
    BY <1>1, <1>3, <1>4
  <1>6. merged \in Inventory
    BY <1>2, <1>5, IsInventory
  <1>7. ASSUME NEW d \in ids, d \notin DOMAIN discovered
        PROVE  merged[d].reachable = FALSE
    BY <1>1, <1>4, <1>7
  <1> QED
    BY <1>5, <1>6, <1>7 DEF Reachable

\* What discovery hands over is an inventory of the same renderers.
LEMMA DiscoveredFacts ==
    ASSUME NEW list \in Listings
    PROVE  Discovered(list) \in Inventory /\ DOMAIN Discovered(list) = DOMAIN list
  <1> PICK ids \in SUBSET Device : list \in [ids -> Facts]
    BY DEF Listings
  <1>1. Discovered(list) \in [ids -> Entry] /\ DOMAIN Discovered(list) = ids
    BY DEF Discovered, Entry
  <1> QED
    BY <1>1, IsInventory

\* What a probe hands over.
LEMMA ProbedIsListing ==
    \A d \in Device : \A facts \in Facts : [id \in {d} |-> facts] \in Listings
  <1> TAKE d \in Device
  <1> TAKE facts \in Facts
  <1>1. [id \in {d} |-> facts] \in [{d} -> Facts] /\ {d} \in SUBSET Device
    OBVIOUS
  <1> QED
    BY <1>1 DEF Listings

\* What an inventory lists has the same renderers.
LEMMA ListedFacts ==
    ASSUME NEW v \in Inventory
    PROVE  Listed(v) \in Listings /\ DOMAIN Listed(v) = DOMAIN v
  <1>1. DOMAIN v \subseteq Device /\ \A d \in DOMAIN v : v[d].facts \in Facts
    BY InventoryParts
  <1>2. Listed(v) \in [DOMAIN v -> Facts] /\ DOMAIN Listed(v) = DOMAIN v
    BY <1>1 DEF Listed
  <1> QED
    BY <1>1, <1>2 DEF Listings

\* A file that was written to its end.
LEMMA WholeFacts ==
    ASSUME NEW list \in Listings
    PROVE  /\ Whole(list) \in Contents
           /\ Whole(list).list = list
           /\ Whole(list).whole = TRUE
  BY DEF Whole, Contents

\* What an interrupted write leaves is a file, too.
LEMMA DamagedFacts == Damaged \in Contents
  BY NothingFacts DEF Damaged, Contents

\* What an undamaged file is loaded as lists the same, and nothing of it is
\* reachable.
LEMMA LoadFacts ==
    ASSUME file \in Contents, file.whole
    PROVE  /\ load_inventory \in Inventory
           /\ Listed(load_inventory) = file.list
           /\ Reachable(load_inventory) = {}
  <1>1. file.list \in Listings
    BY DEF Contents
  <1> PICK ids \in SUBSET Device : file.list \in [ids -> Facts]
    BY <1>1 DEF Listings
  <1>2. load_inventory = [d \in ids |-> [facts |-> file.list[d], reachable |-> FALSE]]
    BY DEF load_inventory
  <1>3. load_inventory \in [ids -> Entry] /\ DOMAIN load_inventory = ids
    BY <1>2 DEF Entry
  <1>4. load_inventory \in Inventory
    BY <1>3, IsInventory
  <1>5. \A d \in ids : load_inventory[d].facts = file.list[d] /\ load_inventory[d].reachable = FALSE
    BY <1>2
  <1>6. Listed(load_inventory) = [d \in ids |-> file.list[d]]
    BY <1>3, <1>5 DEF Listed
  <1> QED
    BY <1>3, <1>4, <1>5, <1>6 DEF Reachable

-----------------------------------------------------------------------------
(* The steps.                                                              *)

\* Every step keeps the types, and hands the mutex on as they say.
LEMMA TypeStep ==
    ASSUME TypeOK, FileNeverDamaged, [Next]_vars
    PROVE  TypeOK'
  <1> USE DEF TypeOK, history, faults
  <1>1. CASE Load
    BY <1>1, WiimAssumption, LoadFacts, InventoryParts DEF Load, FileNeverDamaged
  <1>2. CASE Publish
    BY <1>2, WiimAssumption DEF Publish
  <1>3. ASSUME NEW list \in Listings, ScanMerge(list)
        PROVE  TypeOK'
    BY <1>3, WiimAssumption, DiscoveredFacts, MergeFacts, InventoryParts DEF ScanMerge
  <1>4. CASE ScanStore
    BY <1>4, WiimAssumption DEF ScanStore
  <1>5. CASE ScanWrite
    <2> USE <1>5 DEF ScanWrite
    <2>1. tmp' \in Contents
      BY ListedFacts, WholeFacts
    <2> QED
      BY <2>1, WiimAssumption
  <1>6. CASE ScanRename
    <2> USE <1>6 DEF ScanRename
    <2>1. lock = "scan" /\ \A h \in Handler : h # "scan" /\ h # "free"
      BY WiimAssumption
    <2>2. \A h \in Handler : probe'[h].at \notin {"write", "rename"} /\ lock' # h
      BY <2>1
    <2>3. file' \in Contents /\ scanned' \subseteq Device
      OBVIOUS
    <2> QED
      BY <2>2, <2>3
  <1>7. CASE ScanSaveFails
    <2> USE <1>7 DEF ScanSaveFails
    <2>1. lock = "scan" /\ \A h \in Handler : h # "scan" /\ h # "free"
      BY WiimAssumption
    <2>2. \A h \in Handler : probe'[h].at \notin {"write", "rename"} /\ lock' # h
      BY <2>1
    <2>3. tmp' \in Contents
      BY DamagedFacts
    <2>4. errors' \in 0..MaxErrors
      BY WiimAssumption
    <2> QED
      BY <2>2, <2>3, <2>4
  <1>8. ASSUME NEW h \in Handler, ProbeBegin(h)
        PROVE  TypeOK'
    BY <1>8 DEF ProbeBegin
  <1>9. ASSUME NEW h \in Handler, ProbeFailed(h)
        PROVE  TypeOK'
    BY <1>9, NothingFacts DEF ProbeFailed, Idle
  <1>10. ASSUME NEW h \in Handler, NEW list \in Listings, ProbeFound(h, list)
        PROVE  TypeOK'
    BY <1>10, DiscoveredFacts DEF ProbeFound
  <1>11. ASSUME NEW h \in Handler, ProbeMerge(h)
        PROVE  TypeOK'
    <2> USE <1>11 DEF ProbeMerge
    <2>1. merge_inventory(registry, probe[h].found) \in Inventory
      BY MergeFacts
    <2> QED
      <3> DEFINE merged == merge_inventory(registry, probe[h].found)
                 Stage == [at : {"idle", "fetch", "found", "write", "rename"},
                           merged : Inventory, found : Inventory]
      <3>1. probe \in [Handler -> Stage] /\ merged \in Inventory
        BY <2>1
      <3> HIDE DEF merged
      <3>2. [probe[h] EXCEPT !.at = "write", !.merged = merged] \in Stage
        BY ONLY <3>1, h \in Handler
      <3> HIDE DEF Stage
      <3>3. probe' = [probe EXCEPT ![h] = [probe[h] EXCEPT !.at = "write", !.merged = merged]]
        BY DEF merged
      <3>4. probe' \in [Handler -> Stage]
        BY ONLY <3>1, <3>2, <3>3
      <3>5. probe'[h].at = "write" /\ \A g \in Handler : g # h => probe'[g] = probe[g]
        BY <3>3
      <3>6. \A g \in Handler : probe'[g].at \in {"write", "rename"} <=> lock' = g
        BY <3>5, WiimAssumption
      <3> QED
        BY <3>4, <3>6, WiimAssumption DEF Stage
  <1>12. ASSUME NEW h \in Handler, ProbeWrite(h)
        PROVE  TypeOK'
    <2> USE <1>12 DEF ProbeWrite
    <2>1. tmp' \in Contents
      BY ListedFacts, WholeFacts
    <2> QED
      BY <2>1, WiimAssumption
  <1>13. ASSUME NEW h \in Handler, ProbeRename(h)
        PROVE  TypeOK'
    <2> USE <1>13 DEF ProbeRename
    <2>1. lock = h /\ h # "scan" /\ h # "free" /\ \A g \in Handler : g # "free"
      BY WiimAssumption
    <2>2. Idle \in [at : {"idle", "fetch", "found", "write", "rename"},
                   merged : Inventory, found : Inventory] /\ Idle.at = "idle"
      BY NothingFacts DEF Idle
    <2>3. probe' \in [Handler -> [at : {"idle", "fetch", "found", "write", "rename"},
                                  merged : Inventory, found : Inventory]]
      BY <2>2
    <2>4. \A g \in Handler : probe'[g].at \notin {"write", "rename"} /\ lock' # g
      BY <2>1, <2>2
    <2>5. scan \notin {"write", "rename"}
      BY <2>1
    <2>6. probe[h].merged \in Inventory /\ probe[h].found \in Inventory
      OBVIOUS
    <2>7. seen' \subseteq Device
      BY <2>6, InventoryParts
    <2> QED
      BY <2>3, <2>4, <2>5, <2>6, <2>7
  <1>14. ASSUME NEW h \in Handler, ProbeSaveFails(h)
        PROVE  TypeOK'
    BY <1>14, WiimAssumption, NothingFacts, DamagedFacts DEF ProbeSaveFails, Idle
  <1>15. CASE Crash
    BY <1>15, WiimAssumption, NothingFacts, DamagedFacts DEF Crash, Idle
  <1>16. CASE UNCHANGED vars
    BY <1>16 DEF vars, history, faults
  <1>17. CASE ScanError
    BY <1>17, <1>16 DEF ScanError
  <1> HIDE DEF TypeOK
  <1> QED
    BY ProbedIsListing, <1>1, <1>2, <1>3, <1>4, <1>5, <1>6, <1>7, <1>8, <1>9, <1>10, <1>11, <1>12, <1>13, <1>14, <1>15, <1>16, <1>17 DEF Next, Scan, Probe

\* The file is replaced by a whole one only: what the holder of the mutex has
\* written is still there when it renames.
LEMMA FileStep ==
    ASSUME WiimInv, [Next]_vars
    PROVE  FileNeverDamaged'
  <1> USE DEF WiimInv, FileNeverDamaged, history, faults
  <1>1. CASE Load
    BY <1>1 DEF Load
  <1>2. CASE Publish
    BY <1>2 DEF Publish
  <1>3. ASSUME NEW list \in Listings, ScanMerge(list)
        PROVE  FileNeverDamaged'
    BY <1>3 DEF ScanMerge
  <1>4. CASE ScanStore
    BY <1>4 DEF ScanStore
  <1>5. CASE ScanWrite
    BY <1>5 DEF ScanWrite
  <1>6. CASE ScanRename
    BY <1>6, ListedFacts, WholeFacts DEF ScanRename, ScanHolds, TypeOK
  <1>7. CASE ScanSaveFails
    BY <1>7 DEF ScanSaveFails
  <1>8. ASSUME NEW h \in Handler, ProbeBegin(h)
        PROVE  FileNeverDamaged'
    BY <1>8 DEF ProbeBegin
  <1>9. ASSUME NEW h \in Handler, ProbeFailed(h)
        PROVE  FileNeverDamaged'
    BY <1>9 DEF ProbeFailed
  <1>10. ASSUME NEW h \in Handler, NEW list \in Listings, ProbeFound(h, list)
        PROVE  FileNeverDamaged'
    BY <1>10 DEF ProbeFound
  <1>11. ASSUME NEW h \in Handler, ProbeMerge(h)
        PROVE  FileNeverDamaged'
    BY <1>11 DEF ProbeMerge
  <1>12. ASSUME NEW h \in Handler, ProbeWrite(h)
        PROVE  FileNeverDamaged'
    BY <1>12 DEF ProbeWrite
  <1>13. ASSUME NEW h \in Handler, ProbeRename(h)
        PROVE  FileNeverDamaged'
    BY <1>13, ListedFacts, WholeFacts DEF ProbeRename, ProbeHolds, TypeOK
  <1>14. ASSUME NEW h \in Handler, ProbeSaveFails(h)
        PROVE  FileNeverDamaged'
    BY <1>14 DEF ProbeSaveFails
  <1>15. CASE Crash
    BY <1>15 DEF Crash
  <1>16. CASE UNCHANGED vars
    BY <1>16 DEF vars, history, faults
  <1>17. CASE ScanError
    BY <1>17, <1>16 DEF ScanError
  <1> HIDE DEF WiimInv, FileNeverDamaged
  <1> QED
    BY ProbedIsListing, <1>1, <1>2, <1>3, <1>4, <1>5, <1>6, <1>7, <1>8, <1>9, <1>10, <1>11, <1>12, <1>13, <1>14, <1>15, <1>16, <1>17 DEF Next, Scan, Probe

\* What the registry calls reachable was found.
LEMMA SeenStep ==
    ASSUME WiimInv, [Next]_vars
    PROVE  ReachableWasSeen'
  <1> USE DEF WiimInv, ReachableWasSeen, history, faults
  <1>1. CASE Load
    BY <1>1 DEF Load
  <1>2. CASE Publish
    BY <1>2 DEF Publish, ScanHolds
  <1>3. ASSUME NEW list \in Listings, ScanMerge(list)
        PROVE  ReachableWasSeen'
    BY <1>3 DEF ScanMerge
  <1>4. CASE ScanStore
    BY <1>4 DEF ScanStore, ScanHolds
  <1>5. CASE ScanWrite
    BY <1>5 DEF ScanWrite
  <1>6. CASE ScanRename
    BY <1>6 DEF ScanRename
  <1>7. CASE ScanSaveFails
    BY <1>7 DEF ScanSaveFails
  <1>8. ASSUME NEW h \in Handler, ProbeBegin(h)
        PROVE  ReachableWasSeen'
    BY <1>8 DEF ProbeBegin
  <1>9. ASSUME NEW h \in Handler, ProbeFailed(h)
        PROVE  ReachableWasSeen'
    BY <1>9 DEF ProbeFailed
  <1>10. ASSUME NEW h \in Handler, NEW list \in Listings, ProbeFound(h, list)
        PROVE  ReachableWasSeen'
    BY <1>10 DEF ProbeFound
  <1>11. ASSUME NEW h \in Handler, ProbeMerge(h)
        PROVE  ReachableWasSeen'
    BY <1>11 DEF ProbeMerge
  <1>12. ASSUME NEW h \in Handler, ProbeWrite(h)
        PROVE  ReachableWasSeen'
    BY <1>12 DEF ProbeWrite
  <1>13. ASSUME NEW h \in Handler, ProbeRename(h)
        PROVE  ReachableWasSeen'
    BY <1>13 DEF ProbeRename, ProbeHolds, Idle
  <1>14. ASSUME NEW h \in Handler, ProbeSaveFails(h)
        PROVE  ReachableWasSeen'
    BY <1>14 DEF ProbeSaveFails
  <1>15. CASE Crash
    BY <1>15, NothingFacts DEF Crash
  <1>16. CASE UNCHANGED vars
    BY <1>16 DEF vars, history, faults
  <1>17. CASE ScanError
    BY <1>17, <1>16 DEF ScanError
  <1> HIDE DEF WiimInv, ReachableWasSeen
  <1> QED
    BY ProbedIsListing, <1>1, <1>2, <1>3, <1>4, <1>5, <1>6, <1>7, <1>8, <1>9, <1>10, <1>11, <1>12, <1>13, <1>14, <1>15, <1>16, <1>17 DEF Next, Scan, Probe

\* File and registry, or file and a vector just loaded, stay in agreement.
LEMMA BasesStep ==
    ASSUME WiimInv, [Next]_vars
    PROVE  BasesAgree'
  <1> USE DEF WiimInv, BasesAgree, history, faults
  <1>1. CASE Load
    BY <1>1, LoadFacts DEF Load, FileNeverDamaged, TypeOK
  <1>2. CASE Publish
    BY <1>2 DEF Publish, TypeOK
  <1>3. ASSUME NEW list \in Listings, ScanMerge(list)
        PROVE  BasesAgree'
    BY <1>3 DEF ScanMerge
  <1>4. CASE ScanStore
    BY <1>4 DEF ScanStore, TypeOK
  <1>5. CASE ScanWrite
    BY <1>5 DEF ScanWrite
  <1>6. CASE ScanRename
    BY <1>6, ListedFacts, WholeFacts DEF ScanRename, TypeOK, ScanHolds
  <1>7. CASE ScanSaveFails
    BY <1>7 DEF ScanSaveFails, TypeOK
  <1>8. ASSUME NEW h \in Handler, ProbeBegin(h)
        PROVE  BasesAgree'
    BY <1>8 DEF ProbeBegin
  <1>9. ASSUME NEW h \in Handler, ProbeFailed(h)
        PROVE  BasesAgree'
    BY <1>9 DEF ProbeFailed
  <1>10. ASSUME NEW h \in Handler, NEW list \in Listings, ProbeFound(h, list)
        PROVE  BasesAgree'
    BY <1>10 DEF ProbeFound
  <1>11. ASSUME NEW h \in Handler, ProbeMerge(h)
        PROVE  BasesAgree'
    BY <1>11, WiimAssumption DEF ProbeMerge
  <1>12. ASSUME NEW h \in Handler, ProbeWrite(h)
        PROVE  BasesAgree'
    BY <1>12 DEF ProbeWrite
  <1>13. ASSUME NEW h \in Handler, ProbeRename(h)
        PROVE  BasesAgree'
    BY <1>13, WiimAssumption, ListedFacts, WholeFacts DEF ProbeRename, TypeOK, ProbeHolds
  <1>14. ASSUME NEW h \in Handler, ProbeSaveFails(h)
        PROVE  BasesAgree'
    BY <1>14, WiimAssumption DEF ProbeSaveFails, TypeOK
  <1>15. CASE Crash
    BY <1>15 DEF Crash
  <1>16. CASE UNCHANGED vars
    BY <1>16 DEF vars, history, faults
  <1>17. CASE ScanError
    BY <1>17, <1>16 DEF ScanError
  <1> HIDE DEF WiimInv, BasesAgree
  <1> QED
    BY ProbedIsListing, <1>1, <1>2, <1>3, <1>4, <1>5, <1>6, <1>7, <1>8, <1>9, <1>10, <1>11, <1>12, <1>13, <1>14, <1>15, <1>16, <1>17 DEF Next, Scan, Probe

\* The thread keeps what it holds: nobody else changes its vector, and nobody
\* the registry or the temporary file while it has the mutex.
LEMMA ScanStep ==
    ASSUME WiimInv, [Next]_vars
    PROVE  ScanHolds'
  <1> USE DEF WiimInv, ScanHolds, history, faults
  <1>1. CASE Load
    BY <1>1, LoadFacts DEF Load, FileNeverDamaged, TypeOK
  <1>2. CASE Publish
    BY <1>2 DEF Publish
  <1>3. ASSUME NEW list \in Listings, ScanMerge(list)
        PROVE  ScanHolds'
    <2> USE <1>3 DEF ScanMerge
    <2> DEFINE new == Discovered(list)
    <2>1. devices \in Inventory /\ new \in Inventory /\ DOMAIN new = DOMAIN list
      BY DiscoveredFacts DEF TypeOK
    <2> HIDE DEF new
    <2>2. /\ DOMAIN merge_inventory(devices, new) = DOMAIN devices \cup DOMAIN new
          /\ Reachable(merge_inventory(devices, new)) \subseteq DOMAIN new
      BY ONLY <2>1, MergeFacts
    <2>3. /\ DOMAIN devices' = DOMAIN devices \cup DOMAIN list
          /\ Reachable(devices)' \subseteq DOMAIN list
      BY <2>1, <2>2 DEF new
    <2> QED
      BY <2>3
  <1>4. CASE ScanStore
    BY <1>4 DEF ScanStore
  <1>5. CASE ScanWrite
    BY <1>5 DEF ScanWrite
  <1>6. CASE ScanRename
    BY <1>6 DEF ScanRename
  <1>7. CASE ScanSaveFails
    BY <1>7 DEF ScanSaveFails
  <1>8. ASSUME NEW h \in Handler, ProbeBegin(h)
        PROVE  ScanHolds'
    BY <1>8 DEF ProbeBegin
  <1>9. ASSUME NEW h \in Handler, ProbeFailed(h)
        PROVE  ScanHolds'
    BY <1>9 DEF ProbeFailed
  <1>10. ASSUME NEW h \in Handler, NEW list \in Listings, ProbeFound(h, list)
        PROVE  ScanHolds'
    BY <1>10 DEF ProbeFound
  <1>11. ASSUME NEW h \in Handler, ProbeMerge(h)
        PROVE  ScanHolds'
    BY <1>11 DEF ProbeMerge, TypeOK
  <1>12. ASSUME NEW h \in Handler, ProbeWrite(h)
        PROVE  ScanHolds'
    BY <1>12, WiimAssumption DEF ProbeWrite, TypeOK
  <1>13. ASSUME NEW h \in Handler, ProbeRename(h)
        PROVE  ScanHolds'
    BY <1>13, WiimAssumption DEF ProbeRename, TypeOK, ProbeHolds
  <1>14. ASSUME NEW h \in Handler, ProbeSaveFails(h)
        PROVE  ScanHolds'
    BY <1>14, WiimAssumption DEF ProbeSaveFails, TypeOK
  <1>15. CASE Crash
    BY <1>15 DEF Crash
  <1>16. CASE UNCHANGED vars
    BY <1>16 DEF vars, history, faults
  <1>17. CASE ScanError
    BY <1>17, <1>16 DEF ScanError
  <1> HIDE DEF WiimInv, ScanHolds
  <1> QED
    BY ProbedIsListing, <1>1, <1>2, <1>3, <1>4, <1>5, <1>6, <1>7, <1>8, <1>9, <1>10, <1>11, <1>12, <1>13, <1>14, <1>15, <1>16, <1>17 DEF Next, Scan, Probe

\* A probe keeps what it holds, as the thread does.
LEMMA ProbeStep ==
    ASSUME WiimInv, [Next]_vars
    PROVE  ProbeHolds'
  <1> USE DEF WiimInv, ProbeHolds, history, faults
  <1>1. CASE Load
    BY <1>1 DEF Load
  <1>2. CASE Publish
    BY <1>2, WiimAssumption DEF Publish, TypeOK
  <1>3. ASSUME NEW list \in Listings, ScanMerge(list)
        PROVE  ProbeHolds'
    BY <1>3 DEF ScanMerge
  <1>4. CASE ScanStore
    BY <1>4, WiimAssumption DEF ScanStore, TypeOK
  <1>5. CASE ScanWrite
    BY <1>5, WiimAssumption DEF ScanWrite, TypeOK
  <1>6. CASE ScanRename
    BY <1>6, WiimAssumption DEF ScanRename, TypeOK
  <1>7. CASE ScanSaveFails
    BY <1>7, WiimAssumption DEF ScanSaveFails, TypeOK
  <1>8. ASSUME NEW h \in Handler, ProbeBegin(h)
        PROVE  ProbeHolds'
    BY <1>8 DEF ProbeBegin, TypeOK
  <1>9. ASSUME NEW h \in Handler, ProbeFailed(h)
        PROVE  ProbeHolds'
    BY <1>9 DEF ProbeFailed, TypeOK, Idle
  <1>10. ASSUME NEW h \in Handler, NEW list \in Listings, ProbeFound(h, list)
        PROVE  ProbeHolds'
    BY <1>10 DEF ProbeFound, TypeOK
  <1>11. ASSUME NEW h \in Handler, ProbeMerge(h)
        PROVE  ProbeHolds'
    <2> USE <1>11 DEF ProbeMerge, TypeOK
    <2>1. registry \in Inventory /\ probe[h].found \in Inventory
      OBVIOUS
    <2> DEFINE added == probe[h].found
               merged == merge_inventory(registry, added)
    <2> HIDE DEF added
    <2>2. registry \in Inventory /\ added \in Inventory
      BY <2>1 DEF added
    <2>3. /\ DOMAIN merge_inventory(registry, added) = DOMAIN registry \cup DOMAIN added
          /\ Reachable(merge_inventory(registry, added)) \subseteq DOMAIN added
      BY ONLY <2>2, MergeFacts
    <2>4. /\ DOMAIN registry \subseteq DOMAIN merged
          /\ Reachable(merged) \subseteq DOMAIN added
      BY <2>3
    <2>5. /\ probe'[h].at = "write"
          /\ probe'[h].merged = merged
          /\ probe'[h].found = probe[h].found
          /\ \A g \in Handler : g # h => probe'[g] = probe[g]
      BY DEF added
    <2> HIDE DEF merged
    <2> QED
      BY <2>4, <2>5 DEF added
  <1>12. ASSUME NEW h \in Handler, ProbeWrite(h)
        PROVE  ProbeHolds'
    BY <1>12, WiimAssumption DEF ProbeWrite, TypeOK
  <1>13. ASSUME NEW h \in Handler, ProbeRename(h)
        PROVE  ProbeHolds'
    BY <1>13, WiimAssumption DEF ProbeRename, TypeOK, Idle
  <1>14. ASSUME NEW h \in Handler, ProbeSaveFails(h)
        PROVE  ProbeHolds'
    BY <1>14, WiimAssumption DEF ProbeSaveFails, TypeOK, Idle
  <1>15. CASE Crash
    BY <1>15 DEF Crash, Idle
  <1>16. CASE UNCHANGED vars
    BY <1>16 DEF vars, history, faults
  <1>17. CASE ScanError
    BY <1>17, <1>16 DEF ScanError
  <1> HIDE DEF WiimInv, ProbeHolds
  <1> QED
    BY ProbedIsListing, <1>1, <1>2, <1>3, <1>4, <1>5, <1>6, <1>7, <1>8, <1>9, <1>10, <1>11, <1>12, <1>13, <1>14, <1>15, <1>16, <1>17 DEF Next, Scan, Probe

-----------------------------------------------------------------------------
(* The theorems.                                                           *)

\* An inventory starts empty, beside whatever an earlier process left.
LEMMA Start == Init => WiimInv
  <1> SUFFICES ASSUME Init
               PROVE  WiimInv
    OBVIOUS
  <1> USE DEF Init
  <1>1. file \in Contents /\ file.whole
    BY WiimAssumption, WholeFacts DEF Listings
  <1>2. TypeOK
    <2>1. tmp \in Contents /\ registry \in Inventory /\ devices \in Inventory
      BY NothingFacts, WholeFacts
    <2>2. Idle \in [at : {"idle", "fetch", "found", "write", "rename"},
                   merged : Inventory, found : Inventory] /\ Idle.at = "idle"
      BY NothingFacts DEF Idle
    <2>3. probe \in [Handler -> [at : {"idle", "fetch", "found", "write", "rename"},
                                 merged : Inventory, found : Inventory]]
      BY <2>2
    <2>4. \A h \in Handler : probe[h].at \notin {"write", "rename"} /\ lock # h
      BY <2>2, WiimAssumption
    <2>5. crashes \in 0..MaxCrashes /\ errors \in 0..MaxErrors
      BY WiimAssumption
    <2>6. /\ scan = "load" /\ lock = "free"
          /\ answered = {} /\ seen = {} /\ scanned = {} /\ unsaved = FALSE
      OBVIOUS
    <2> HIDE DEF Init
    <2> QED
      BY <1>1, <2>1, <2>3, <2>4, <2>5, <2>6 DEF TypeOK
  <1>3. FileNeverDamaged /\ ReachableWasSeen
    BY <1>1, NothingFacts DEF FileNeverDamaged, ReachableWasSeen
  <1>4. SavedAgrees /\ BasesAgree /\ ScanHolds /\ ProbeHolds
    BY DEF SavedAgrees, BasesAgree, ScanHolds, ProbeHolds, Idle
  <1> QED
    BY <1>2, <1>3, <1>4 DEF WiimInv

\* Every step keeps the invariant.
LEMMA InvStep ==
    ASSUME WiimInv, [Next]_vars
    PROVE  WiimInv'
  <1>1. TypeOK' /\ FileNeverDamaged' /\ ReachableWasSeen'
    BY TypeStep, FileStep, SeenStep DEF WiimInv
  <1>2. BasesAgree' /\ ScanHolds' /\ ProbeHolds'
    BY BasesStep, ScanStep, ProbeStep
  <1>3. SavedAgrees'
    BY <1>2 DEF BasesAgree, SavedAgrees
  <1> QED
    BY <1>1, <1>2, <1>3 DEF WiimInv

\* The inductive invariant holds in every reachable state: registry and file
\* agree unless a save failed, and nothing counts as reachable for an older
\* scan (WiimModule::run and WiimTransport::probe in wiim.rs).
THEOREM InventorySafe == Spec => []WiimInv
  <1>1. WiimInv /\ [Next]_vars => WiimInv'
    BY InvStep
  <1> QED
    BY Start, <1>1, PTL DEF Spec

\* The state file is never half an inventory, whoever saves, fails or dies
\* (save_inventory).
THEOREM FileSound == Spec => []FileNeverDamaged
  <1>1. WiimInv => FileNeverDamaged
    BY DEF WiimInv
  <1> QED
    BY <1>1, InventorySafe, PTL

\* Once the thread of a process has published, what it loaded or a scan saved
\* stays in the file through probes, scans that miss it, failed saves and
\* crashes; of a probe that is served before that nothing is said.
THEOREM ScannedKept == Spec => ScannedStayOnFile
  <1>1. ASSUME WiimInv, [Next]_vars
        PROVE  [scan \notin {"load", "publish"} =>
                  DOMAIN file.list \cap scanned \subseteq DOMAIN file'.list]_vars
    <2> SUFFICES ASSUME scan \notin {"load", "publish"}
                 PROVE  DOMAIN file.list \cap scanned \subseteq DOMAIN file'.list
      OBVIOUS
    <2>1. scanned \subseteq DOMAIN registry /\ registry \in Inventory
      BY <1>1 DEF WiimInv, ScanHolds, TypeOK
    <2>2. CASE ScanRename
      <3>1. file' = Whole(Listed(registry))
        BY <1>1, <2>2 DEF ScanRename, WiimInv, ScanHolds
      <3>2. DOMAIN file'.list = DOMAIN registry
        BY <2>1, <3>1, ListedFacts, WholeFacts
      <3> QED
        BY <2>1, <3>2
    <2>3. ASSUME NEW h \in Handler, ProbeRename(h)
          PROVE  DOMAIN file.list \cap scanned \subseteq DOMAIN file'.list
      <3> DEFINE merged == probe[h].merged
      <3>1. /\ file' = Whole(Listed(merged))
            /\ DOMAIN registry \subseteq DOMAIN merged
        BY <1>1, <2>3 DEF ProbeRename, WiimInv, ProbeHolds
      <3>2. merged \in Inventory
        BY <1>1 DEF WiimInv, TypeOK
      <3>3. DOMAIN file'.list = DOMAIN merged
        BY <3>1, <3>2, ListedFacts, WholeFacts
      <3> QED
        BY <2>1, <3>1, <3>3
    <2>4. CASE UNCHANGED file
      BY <2>4
    <2>5. UNCHANGED file \/ ScanRename \/ \E h \in Handler : ProbeRename(h)
      BY <1>1 DEF Next, vars, Scan, Probe, Load, Publish, ScanMerge, ScanError, ScanStore,
                  ScanWrite, ScanSaveFails, ProbeBegin, ProbeFailed, ProbeFound, ProbeMerge,
                  ProbeWrite, ProbeSaveFails, Crash
    <2> QED
      BY <2>2, <2>3, <2>4, <2>5
  <1> QED
    BY <1>1, InventorySafe, PTL DEF Spec, ScannedStayOnFile

-----------------------------------------------------------------------------
(* The transport: copies of the inventory that say what is advertised.     *)

\* A copy stays sound while more renderers move.
LEMMA SoundStays ==
    ASSUME NEW list, NEW where, NEW next, NEW gone, NEW more,
           Sound(list, where, gone), gone \subseteq more,
           \A d \in DOMAIN list \ more : next[d] = where[d]
    PROVE  Sound(list, next, more)
  BY DEF Sound

\* Nothing says nothing wrong.
LEMMA NothingSound == \A where, gone : Sound(Nothing, where, gone)
  BY NothingFacts DEF Sound

\* Listing what was discovered gives it back.
LEMMA ListedDiscovered ==
    ASSUME NEW list \in Listings
    PROVE  Listed(Discovered(list)) = list
  <1> PICK ids \in SUBSET Device : list \in [ids -> Facts]
    BY DEF Listings
  <1>1. DOMAIN Discovered(list) = ids /\ \A d \in ids : Discovered(list)[d].facts = list[d]
    BY DEF Discovered
  <1>2. Listed(Discovered(list)) = [d \in ids |-> list[d]]
    BY <1>1 DEF Listed
  <1> QED
    BY <1>2

\* And lists nothing.
LEMMA ListedNothing == Listed(Nothing) = Nothing
  <1>1. DOMAIN Nothing = {} /\ Nothing = [d \in {} |-> d]
    BY DEF Nothing
  <1>2. Listed(Nothing) = [d \in {} |-> Nothing[d].facts]
    BY <1>1 DEF Listed
  <1>3. [d \in {} |-> Nothing[d].facts] = [d \in {} |-> d]
    OBVIOUS
  <1> QED
    BY <1>1, <1>2, <1>3

\* Merging sound inventories gives a sound one.
LEMMA SoundMerge ==
    ASSUME NEW previous \in Inventory, NEW discovered \in Inventory, NEW where, NEW gone,
           Sound(Listed(previous), where, gone), Sound(Listed(discovered), where, gone)
    PROVE  Sound(Listed(merge_inventory(previous, discovered)), where, gone)
  <1> DEFINE merged == merge_inventory(previous, discovered)
             ids == DOMAIN previous \cup DOMAIN discovered
  <1>1. /\ DOMAIN Listed(merged) = ids /\ DOMAIN merged = ids
        /\ DOMAIN Listed(previous) = DOMAIN previous
        /\ DOMAIN Listed(discovered) = DOMAIN discovered
    BY MergeFacts, ListedFacts
  <1>2. ASSUME NEW d \in DOMAIN discovered
        PROVE  Listed(merged)[d] = Listed(discovered)[d]
    <2>1. merged[d] = discovered[d]
      BY DEF merge_inventory
    <2> QED
      BY <1>1, <2>1 DEF Listed
  <1>3. ASSUME NEW d \in DOMAIN previous, d \notin DOMAIN discovered
        PROVE  Listed(merged)[d] = Listed(previous)[d]
    <2>1. merged[d] = [previous[d] EXCEPT !.reachable = FALSE]
      BY <1>3 DEF merge_inventory
    <2>2. previous[d] \in Entry
      BY DEF Inventory
    <2>3. merged[d].facts = previous[d].facts
      BY <2>1, <2>2 DEF Entry
    <2> QED
      BY <1>1, <2>3 DEF Listed
  <1> HIDE DEF merged
  <1> QED
    BY <1>1, <1>2, <1>3 DEF Sound, merged

\* A control URL that is let through is on the endpoint of the location.
LEMMA JoinedStays ==
    ASSUME NEW location, NEW control, valid_control(location, control)
    PROVE  joined(location, control) = Url("http", location.ip, location.port, control.path)
  <1> DEFINE resolved == joined(location, control)
  <1>1. /\ resolved.scheme = "http" /\ resolved.ip = location.ip /\ resolved.port = location.port
    BY DEF valid_control
  <1>2. CASE control.scheme = "none"
    <2>1. resolved = Url(location.scheme, location.ip, location.port, control.path)
      BY <1>2 DEF joined
    <2>2. resolved.scheme = location.scheme
      BY <2>1 DEF Url
    <2> QED
      BY <1>1, <2>1, <2>2
  <1>3. CASE control.scheme # "none"
    <2>1. resolved = Url(control.scheme, control.ip, control.port, control.path)
      BY <1>3 DEF joined
    <2>2. resolved.scheme = control.scheme /\ resolved.ip = control.ip /\ resolved.port = control.port
      BY <2>1 DEF Url
    <2> QED
      BY <1>1, <2>1, <2>2
  <1> QED
    BY <1>2, <1>3

\* A description that passed validation lists one renderer as it is, and one
\* inside the CIDR.
LEMMA FetchedSound ==
    ASSUME NEW url, NEW list \in fetch_description(url), \A d \in Device : home[d] \in Home[d]
    PROVE  /\ list \in Listings /\ Sound(list, home, moved)
           /\ \A d \in DOMAIN list : contains(list[d].ip)
           /\ list # Nothing =>
                \E d \in Device : \E facts \in Facts : list = [id \in {d} |-> facts]
  <1>1. CASE list = Nothing
    BY <1>1, NothingSound, NothingFacts
  <1>2. CASE list # Nothing
    <2>1. /\ valid_location(url)
          /\ \E d \in At(url) : list = parse_description(d, url)
      BY <1>2 DEF fetch_description
    <2> PICK d \in At(url) : list = parse_description(d, url)
      BY <2>1
    <2>2. d \in Device /\ Url("http", home[d], Description[d].port, Description[d].path) = url
      BY <2>1 DEF At
    <2>3. url.ip = home[d] /\ url.port = Description[d].port
      BY <2>2 DEF Url
    <2>4. /\ \A s \in DOMAIN Description[d].controls : valid_control(url, Description[d].controls[s])
          /\ list = [id \in {d} |-> [ip |-> url.ip, port |-> url.port,
                                     services |-> services(Description[d])]]
      BY <1>2 DEF parse_description
    <2>8. FitsTogether(d, home[d])
      <3> SUFFICES ASSUME NEW s \in DOMAIN Description[d].controls
                   PROVE  ControlUrl(d, home[d], s) =
                            Url("http", home[d], Description[d].port, Description[d].controls[s].path)
        BY DEF FitsTogether
      <3> DEFINE control == Description[d].controls[s]
      <3>1. valid_control(url, control) /\ ControlUrl(d, home[d], s) = joined(url, control)
        BY <2>2, <2>4 DEF ControlUrl
      <3> QED
        BY <2>3, <3>1, JoinedStays
    <2>9. list = [id \in {d} |-> Advertised(d, home[d])]
      BY <2>3, <2>4 DEF Advertised
    <2>10. \A e \in DOMAIN list : contains(list[e].ip)
      BY <2>1, <2>3, <2>9 DEF valid_location, Advertised
    <2>5. Advertised(d, home[d]) \in Facts
      BY <2>2, TransportAssumption
    <2>6. list \in Listings
      BY <2>2, <2>9, <2>5, ProbedIsListing
    <2>7. Sound(list, home, moved)
      BY <2>8, <2>9 DEF Sound
    <2> QED
      BY <2>2, <2>5, <2>6, <2>7, <2>9, <2>10
  <1> QED
    BY <1>1, <1>2

\* The copies that are the inventory's.
InventorySound(where, gone) ==
    /\ Sound(file.list, where, gone) /\ Sound(tmp.list, where, gone)
    /\ Sound(Listed(registry), where, gone) /\ Sound(Listed(devices), where, gone)
    /\ \A h \in Handler :
          /\ Sound(Listed(probe[h].found), where, gone)
          /\ Sound(Listed(probe[h].merged), where, gone)

\* A step of the inventory that is handed sound facts only.
SoundStep(where, gone) ==
    \/ Load \/ Publish
    \/ \E list \in Listings : ScanMerge(list) /\ Sound(list, where, gone)
    \/ ScanError \/ ScanStore \/ ScanWrite \/ ScanRename \/ ScanSaveFails
    \/ \E h \in Handler :
          \/ ProbeBegin(h) \/ ProbeFailed(h)
          \/ \E d \in Device : \E facts \in Facts :
                /\ ProbeFound(h, [id \in {d} |-> facts])
                /\ Sound([id \in {d} |-> facts], where, gone)
          \/ ProbeMerge(h) \/ ProbeWrite(h) \/ ProbeRename(h) \/ ProbeSaveFails(h)
    \/ Crash \/ UNCHANGED vars

\* The inventory spreads what it is handed and makes up nothing.
LEMMA SpreadsSound ==
    ASSUME WiimInv, NEW where, NEW gone, InventorySound(where, gone), SoundStep(where, gone)
    PROVE  InventorySound(where, gone)'
  <1> USE DEF InventorySound, history, faults
  <1>1. CASE Load
    <2>1. Listed(load_inventory) = file.list
      BY LoadFacts DEF WiimInv, TypeOK, FileNeverDamaged
    <2> QED
      BY <1>1, <2>1 DEF Load
  <1>2. CASE Publish
    BY <1>2 DEF Publish
  <1>3. ASSUME NEW list \in Listings, ScanMerge(list), Sound(list, where, gone)
        PROVE  InventorySound(where, gone)'
    <2>1. Sound(Listed(devices'), where, gone)
      BY <1>3, DiscoveredFacts, ListedDiscovered, SoundMerge DEF ScanMerge, WiimInv, TypeOK
    <2> QED
      BY <1>3, <2>1 DEF ScanMerge
  <1>4. CASE ScanError \/ UNCHANGED vars
    BY <1>4 DEF ScanError, vars
  <1>5. CASE ScanStore
    BY <1>5 DEF ScanStore
  <1>6. CASE ScanWrite
    BY <1>6 DEF ScanWrite, Whole
  <1>7. CASE ScanRename
    BY <1>7 DEF ScanRename
  <1>8. CASE ScanSaveFails
    BY <1>8, NothingSound DEF ScanSaveFails, Damaged
  <1>9. ASSUME NEW h \in Handler, ProbeBegin(h)
        PROVE  InventorySound(where, gone)'
    BY <1>9 DEF ProbeBegin, WiimInv, TypeOK
  <1>10. ASSUME NEW h \in Handler, ProbeFailed(h)
         PROVE  InventorySound(where, gone)'
    BY <1>10, NothingSound, ListedNothing DEF ProbeFailed, Idle, WiimInv, TypeOK
  <1>11. ASSUME NEW h \in Handler, NEW list \in Listings, ProbeFound(h, list), Sound(list, where, gone)
         PROVE  InventorySound(where, gone)'
    BY <1>11, ListedDiscovered DEF ProbeFound, WiimInv, TypeOK
  <1>12. ASSUME NEW h \in Handler, ProbeMerge(h)
         PROVE  InventorySound(where, gone)'
    <2>1. Sound(Listed(merge_inventory(registry, probe[h].found)), where, gone)
      BY SoundMerge DEF WiimInv, TypeOK
    <2> QED
      BY <1>12, <2>1 DEF ProbeMerge, WiimInv, TypeOK
  <1>13. ASSUME NEW h \in Handler, ProbeWrite(h)
         PROVE  InventorySound(where, gone)'
    BY <1>13 DEF ProbeWrite, Whole, WiimInv, TypeOK
  <1>14. ASSUME NEW h \in Handler, ProbeRename(h)
         PROVE  InventorySound(where, gone)'
    BY <1>14, NothingSound, ListedNothing DEF ProbeRename, Idle, WiimInv, TypeOK
  <1>15. ASSUME NEW h \in Handler, ProbeSaveFails(h)
         PROVE  InventorySound(where, gone)'
    BY <1>15, NothingSound, ListedNothing DEF ProbeSaveFails, Idle, Damaged, WiimInv, TypeOK
  <1>16. CASE Crash
    BY <1>16, NothingSound, ListedNothing DEF Crash, Idle, Damaged
  <1> HIDE DEF InventorySound
  <1> QED
    BY <1>1, <1>2, <1>3, <1>4, <1>5, <1>6, <1>7, <1>8, <1>9, <1>10, <1>11, <1>12, <1>13, <1>14,
       <1>15, <1>16, ProbedIsListing DEF SoundStep

\* Such a step is a step of the inventory.
LEMMA SoundStepIsStep ==
    ASSUME NEW where, NEW gone, SoundStep(where, gone)
    PROVE  [Next]_vars
  BY DEF SoundStep, Next, Scan, Probe

-----------------------------------------------------------------------------
(* The transport: its steps.                                               *)

\* What a handler is doing has the parts of NoCall.
IsCall(c) == c = [ports |-> c.ports, id |-> c.id, service |-> c.service, url |-> c.url,
                  body |-> c.body, reply |-> c.reply]

Shape ==
    /\ DOMAIN home = Device /\ moved \subseteq Device
    /\ DOMAIN call = Handler
    /\ \A h \in Handler : IsCall(call[h]) /\ call[h].id \subseteq Device

\* How one changes, action by action.
LEMMA PortsChange ==
    ASSUME NEW c, IsCall(c), NEW ports, NEW e, e = [c EXCEPT !.ports = ports]
    PROVE  e = [ports |-> ports, id |-> c.id, service |-> c.service, url |-> c.url,
                body |-> c.body, reply |-> c.reply]
  BY DEF IsCall

\* A probe that begins.
LEMMA ProbeChange ==
    ASSUME NEW c, IsCall(c), NEW ports, NEW url, NEW e, e = [c EXCEPT !.ports = ports, !.url = url]
    PROVE  e = [ports |-> ports, id |-> c.id, service |-> c.service, url |-> url,
                body |-> c.body, reply |-> c.reply]
  BY DEF IsCall

\* A request that is sent.
LEMMA RequestChange ==
    ASSUME NEW c, IsCall(c), NEW id, NEW service, NEW url, NEW e, e = [c EXCEPT !.id = id, !.service = service, !.url = url]
    PROVE  e = [ports |-> c.ports, id |-> id, service |-> service, url |-> url,
                body |-> c.body, reply |-> c.reply]
  BY DEF IsCall

\* An answer that arrives.
LEMMA AnswerChange ==
    ASSUME NEW c, IsCall(c), NEW body, NEW reply, NEW e, e = [c EXCEPT !.body = body, !.reply = reply]
    PROVE  e = [ports |-> c.ports, id |-> c.id, service |-> c.service, url |-> c.url,
                body |-> body, reply |-> reply]
  BY DEF IsCall

\* No request.
LEMMA NoCallParts ==
    /\ IsCall(NoCall) /\ NoCall.ports = {} /\ NoCall.id = {} /\ NoCall.service = "none"
    /\ NoCall.url = Url("none", 0, 0, "none") /\ NoCall.body = 0 /\ NoCall.reply = 0
  BY DEF NoCall, None, IsCall

\* Renderers that do not move stay, and what the inventory is handed is sound.
LEMMA StepHandsSound ==
    ASSUME OutboundInv, Shape, [TNext]_tvars
    PROVE  /\ SoundStep(home, moved)
           /\ found' \in Listings /\ Sound(found', home, moved)
           /\ moved \subseteq moved' /\ moved' \subseteq Device /\ DOMAIN home' = Device
           /\ \A d \in Device : home'[d] \in Home[d] /\ (d \notin moved' => home'[d] = home[d])
  <1> DEFINE Goal == /\ SoundStep(home, moved)
                     /\ found' \in Listings /\ Sound(found', home, moved)
                     /\ moved \subseteq moved' /\ moved' \subseteq Device /\ DOMAIN home' = Device
                     /\ \A d \in Device : home'[d] \in Home[d] /\ (d \notin moved' => home'[d] = home[d])
  <1>1. /\ found \in Listings /\ Sound(found, home, moved) /\ \A d \in Device : home[d] \in Home[d]
        /\ DOMAIN home = Device /\ moved \subseteq Device
    BY DEF OutboundInv, CopiesAreSound, Shape
  <1>2. Nothing \in Listings /\ Sound(Nothing, home, moved)
    BY NothingFacts, NothingSound
  <1> USE DEF SoundStep, network
  <1>3. CASE Collect
    BY <1>1, <1>3 DEF Collect
  <1>4. ASSUME NEW url \in locations, FetchLocation(url)
        PROVE  Goal
    <2>1. PICK list \in fetch_description(url) :
              found' = [d \in DOMAIN found \cup DOMAIN list |->
                           IF d \in DOMAIN list THEN list[d] ELSE found[d]]
      BY <1>4 DEF FetchLocation
    <2>2. list \in Listings /\ Sound(list, home, moved)
      BY <1>1, FetchedSound
    <2>3. DOMAIN found \subseteq Device /\ \A d \in DOMAIN found : found[d] \in Facts
      BY <1>1 DEF Listings
    <2>4. DOMAIN list \subseteq Device /\ \A d \in DOMAIN list : list[d] \in Facts
      BY <2>2 DEF Listings
    <2>5. found' \in [DOMAIN found \cup DOMAIN list -> Facts]
      BY <2>1, <2>3, <2>4
    <2>6. found' \in Listings
      BY <2>3, <2>4, <2>5 DEF Listings
    <2>7. Sound(found', home, moved)
      BY <1>1, <2>1, <2>2 DEF Sound
    <2> QED
      BY <1>1, <1>4, <2>6, <2>7 DEF FetchLocation
  <1>5. CASE Discover
    BY <1>1, <1>2, <1>5 DEF Discover
  <1>6. CASE ScanOn
    BY <1>1, <1>6 DEF ScanOn
  <1>7. ASSUME NEW h \in Handler, NEW ip \in Addresses, ProbeStart(h, ip)
        PROVE  Goal
    BY <1>1, <1>7 DEF ProbeStart
  <1>8. ASSUME NEW h \in Handler, ProbeHit(h)
        PROVE  Goal
    <2>1. PICK list \in fetch_description(ProbeUrl(h)) \ {Nothing} : ProbeFound(h, list)
      BY <1>8 DEF ProbeHit
    <2> DEFINE url == ProbeUrl(h)
    <2>2. \E d \in Device : \E facts \in Facts : list = [id \in {d} |-> facts]
      <3>1. list # Nothing /\ list \in fetch_description(url)
        BY <2>1
      <3> HIDE DEF url
      <3> QED
        BY <1>1, <3>1, FetchedSound, SMTT(30)
    <2>3. Sound(list, home, moved)
      BY <1>1, <2>1, FetchedSound
    <2>4. SoundStep(home, moved)
      BY <2>1, <2>2, <2>3
    <2> QED
      BY <1>1, <1>8, <2>4 DEF ProbeHit
  <1>9. ASSUME NEW h \in Handler, ProbeMiss(h)
        PROVE  Goal
    BY <1>1, <1>9 DEF ProbeMiss
  <1>10. ASSUME NEW h \in Handler, ProbeOn(h)
         PROVE  Goal
    BY <1>1, <1>10 DEF ProbeOn
  <1>11. ASSUME NEW h \in Handler, NEW id \in Device, NEW s \in Services, ProxyStart(h, id, s)
         PROVE  Goal
    BY <1>1, <1>11 DEF ProxyStart
  <1>12. ASSUME NEW h \in Handler, ProxyAnswer(h)
         PROVE  Goal
    BY <1>1, <1>12 DEF ProxyAnswer
  <1>13. ASSUME NEW h \in Handler, ProxyEnd(h)
         PROVE  Goal
    BY <1>1, <1>13 DEF ProxyEnd
  <1>14. CASE Restart
    BY <1>1, <1>2, <1>14 DEF Restart
  <1>15. ASSUME NEW d \in Device, Move(d)
         PROVE  Goal
    BY <1>1, <1>15 DEF Move
  <1>16. CASE UNCHANGED tvars
    BY <1>1, <1>16 DEF tvars
  <1> QED
    BY <1>3, <1>4, <1>5, <1>6, <1>7, <1>8, <1>9, <1>10, <1>11, <1>12, <1>13, <1>14, <1>15, <1>16
       DEF TNext

\* So every copy stays sound.
LEMMA CopiesStep ==
    ASSUME WiimInv, OutboundInv, Shape, [TNext]_tvars
    PROVE  CopiesAreSound'
  <1>1. InventorySound(home, moved) /\ SoundStep(home, moved)
    BY StepHandsSound DEF OutboundInv, CopiesAreSound, InventorySound
  <1>2. /\ Sound(file'.list, home, moved) /\ Sound(tmp'.list, home, moved)
        /\ Sound(Listed(registry'), home, moved) /\ Sound(Listed(devices'), home, moved)
        /\ \A h \in Handler :
              /\ Sound(Listed(probe'[h].found), home, moved)
              /\ Sound(Listed(probe'[h].merged), home, moved)
    BY <1>1, SpreadsSound DEF InventorySound
  <1>3. WiimInv'
    BY <1>1, SoundStepIsStep, InvStep
  <1>4. \A list \in Listings : Sound(list, home, moved) => Sound(list, home', moved')
    <2> SUFFICES ASSUME NEW list \in Listings, Sound(list, home, moved)
                 PROVE  Sound(list, home', moved')
      OBVIOUS
    <2>1. DOMAIN list \subseteq Device
      BY DEF Listings
    <2> QED
      BY <2>1, StepHandsSound, SoundStays
  <1>5. /\ file'.list \in Listings /\ tmp'.list \in Listings
        /\ Listed(registry') \in Listings /\ Listed(devices') \in Listings
        /\ \A h \in Handler : Listed(probe'[h].found) \in Listings /\ Listed(probe'[h].merged) \in Listings
    BY <1>3, ListedFacts DEF WiimInv, TypeOK, Contents
  <1> QED
    BY <1>2, <1>4, <1>5, StepHandsSound DEF CopiesAreSound

\* What is asked of the network stays in the CIDR, and each handler with the
\* one request it serves.
LEMMA RequestsStep ==
    ASSUME WiimInv, OutboundInv, Shape, [TNext]_tvars
    PROVE  StaysInCidr' /\ ProbesAreApart' /\ Shape'
  <1> DEFINE Goal == StaysInCidr' /\ ProbesAreApart' /\ Shape'
  <1> USE DEF OutboundInv, StaysInCidr, ProbesAreApart, Shape, IsCall, network
  <1>0. DOMAIN home' = Device /\ moved' \subseteq Device
    BY StepHandsSound
  <1>1. DOMAIN probe = Handler /\ \A h \in Handler : DOMAIN probe[h] = {"at", "merged", "found"}
    BY DEF WiimInv, TypeOK
  <1>18. DOMAIN Nothing = {}
    BY NothingFacts
  <1>2. IsCall(NoCall) /\ NoCall.id = {} /\ NoCall.body = 0
    BY DEF NoCall
  <1>3. CASE Collect
    BY <1>0, <1>3 DEF Collect, vars, valid_location
  <1>4. ASSUME NEW url \in locations, FetchLocation(url)
        PROVE  Goal
    <2>1. PICK list \in fetch_description(url) :
              found' = [d \in DOMAIN found \cup DOMAIN list |->
                           IF d \in DOMAIN list THEN list[d] ELSE found[d]]
      BY <1>4 DEF FetchLocation
    <2>2. \A d \in DOMAIN list : contains(list[d].ip)
      BY FetchedSound DEF CopiesAreSound
    <2>3. \A d \in DOMAIN found' : contains(found'[d].ip)
      BY <2>1, <2>2
    <2> QED
      BY <1>0, <1>4, <2>3 DEF FetchLocation, vars
  <1>5. CASE Discover
    BY <1>0, <1>5, <1>18 DEF Discover, ScanMerge
  <1>6. CASE ScanOn
    BY <1>0, <1>6 DEF ScanOn, Load, Publish, ScanError, ScanStore, ScanWrite, ScanRename, ScanSaveFails, vars
  <1>7. ASSUME NEW h \in Handler, NEW ip \in Addresses, ProbeStart(h, ip)
        PROVE  Goal
    <2>1. PICK ports : call' = [call EXCEPT ![h].ports = ports, ![h].url.ip = ip]
      BY <1>7 DEF ProbeStart
    <2>2. call[h] = NoCall /\ contains(ip) /\ UNCHANGED <<locations, found>>
          /\ probe' = [probe EXCEPT ![h].at = "fetch"]
      BY <1>7 DEF ProbeStart, ProbeBegin
    <2>3. /\ call'[h] = [ports |-> ports, id |-> {}, service |-> "none",
                         url |-> Url("none", ip, 0, "none"), body |-> 0, reply |-> 0]
          /\ \A g \in Handler : g # h => call'[g] = call[g]
          /\ DOMAIN call' = Handler
      <3>1. call'[h] = [call[h] EXCEPT !.ports = ports, !.url = [@ EXCEPT !.ip = ip]]
        BY <2>1
      <3>2. call[h].url = Url("none", 0, 0, "none") /\ call[h] = NoCall
        BY <2>2, NoCallParts
      <3>3. [Url("none", 0, 0, "none") EXCEPT !.ip = ip] = Url("none", ip, 0, "none")
        BY DEF Url
      <3>4. \A g \in Handler : g # h => call'[g] = call[g]
        BY <2>1
      <3>5. DOMAIN call' = Handler
        BY <2>1
      <3>6. call'[h] = [call[h] EXCEPT !.ports = ports, !.url = Url("none", ip, 0, "none")]
        BY <3>1, <3>2, <3>3
      <3> QED
        BY <3>2, <3>4, <3>5, <3>6, ProbeChange, NoCallParts
    <2>4. call'[h].url.ip = ip /\ call'[h].id = {} /\ IsCall(call'[h])
      BY <2>3 DEF Url
    <2>5. \A g \in Handler : g # h => probe'[g] = probe[g]
      BY <1>1, <2>2
    <2> QED
      BY <1>0, <2>2, <2>3, <2>4, <2>5
  <1>8. ASSUME NEW h \in Handler, call' = [call EXCEPT ![h] = NoCall], UNCHANGED <<locations, found>>,
               probe'[h].at # "fetch", \A g \in Handler : g # h => probe'[g] = probe[g]
        PROVE  Goal
    BY <1>0, <1>2, <1>8
  <1>9. ASSUME NEW h \in Handler, ProbeHit(h)
        PROVE  Goal
    <2>1. PICK list : ProbeFound(h, list)
      BY <1>9 DEF ProbeHit
    <2>2. probe'[h].at # "fetch" /\ \A g \in Handler : g # h => probe'[g] = probe[g]
      BY <1>1, <2>1 DEF ProbeFound
    <2> QED
      BY <1>8, <1>9, <2>2 DEF ProbeHit
  <1>10. ASSUME NEW h \in Handler, ProbeMiss(h)
         PROVE  Goal
    <2>1. CASE Cardinality(call[h].ports) > 1
      <3>1. PICK ports : call' = [call EXCEPT ![h].ports = ports]
        BY <1>10, <2>1 DEF ProbeMiss
      <3>2. probe[h].at = "fetch" /\ UNCHANGED <<locations, found>> /\ probe' = probe
        BY <1>10, <2>1 DEF ProbeMiss, vars
      <3>3. call'[h] = [call[h] EXCEPT !.ports = ports] /\ \A g \in Handler : g # h => call'[g] = call[g]
        BY <3>1
      <3>4. IsCall(call'[h]) /\ call'[h].url = call[h].url /\ call'[h].id = call[h].id
        BY <3>3
      <3> QED
        BY <1>0, <3>1, <3>2, <3>3, <3>4
    <2>2. CASE ~(Cardinality(call[h].ports) > 1)
      BY <1>1, <1>8, <1>10, <2>2 DEF ProbeMiss, ProbeFailed, Idle
    <2> QED
      BY <2>1, <2>2
  <1>11. ASSUME NEW h \in Handler, ProbeOn(h)
         PROVE  Goal
    <2>1. UNCHANGED <<locations, found, call>>
      BY <1>11 DEF ProbeOn
    <2>2. probe'[h].at # "fetch" /\ \A g \in Handler : g # h => probe'[g] = probe[g]
      BY <1>1, <1>11 DEF ProbeOn, ProbeMerge, ProbeWrite, ProbeRename, ProbeSaveFails, Idle
    <2> QED
      BY <1>0, <2>1, <2>2
  <1>12. ASSUME NEW h \in Handler, NEW id \in Device, NEW s \in Services, ProxyStart(h, id, s)
         PROVE  Goal
    <2>0. PICK facts \in device(id) :
              /\ s \in DOMAIN facts.services \cup {"LinkPlay"}
              /\ call' = [call EXCEPT
                ![h].id = {id}, ![h].service = s,
                ![h].url = IF s = "LinkPlay"
                           THEN Url("https", facts.ip, 443, "httpapi.asp")
                           ELSE Url("http", facts.ip, facts.port, facts.services[s])]
      BY ONLY <1>12, Zenon DEF ProxyStart
    <2> DEFINE url == IF s = "LinkPlay"
                      THEN Url("https", facts.ip, 443, "httpapi.asp")
                      ELSE Url("http", facts.ip, facts.port, facts.services[s])
    <2>1. /\ call' = [call EXCEPT ![h].id = {id}, ![h].service = s, ![h].url = url]
          /\ url.ip = facts.ip
      BY <2>0 DEF Url
    <2> HIDE DEF url
    <2>2. call[h] = NoCall /\ probe[h] = Idle /\ probe' = probe /\ UNCHANGED <<locations, found>>
      BY <1>12 DEF ProxyStart, vars
    <2>3. contains(url.ip)
      BY <2>1 DEF device
    <2>4. /\ call'[h] = [ports |-> {}, id |-> {id}, service |-> s, url |-> url, body |-> 0, reply |-> 0]
          /\ \A g \in Handler : g # h => call'[g] = call[g]
          /\ DOMAIN call' = Handler
      <3>1. call'[h] = [call[h] EXCEPT !.id = {id}, !.service = s, !.url = url]
        BY <2>1
      <3>2. \A g \in Handler : g # h => call'[g] = call[g]
        BY <2>1
      <3>3. DOMAIN call' = Handler
        BY <2>1
      <3> QED
        BY <2>2, <3>1, <3>2, <3>3, RequestChange, NoCallParts
    <2>5. probe[h].at = "idle"
      BY <2>2 DEF Idle
    <2> QED
      BY <1>0, <2>2, <2>3, <2>4, <2>5
  <1>13. ASSUME NEW h \in Handler, ProxyAnswer(h)
         PROVE  Goal
    <2>0. PICK size \in 1..(MaxBody + 1) :
              call' = [call EXCEPT ![h].body = size, ![h].reply = collect_response(size)]
      BY ONLY <1>13, Zenon DEF ProxyAnswer
    <2> DEFINE reply == collect_response(size)
    <2>1. call' = [call EXCEPT ![h].body = size, ![h].reply = reply]
      BY <2>0
    <2> HIDE DEF reply
    <2>2. call[h].id # {} /\ probe' = probe /\ UNCHANGED <<locations, found>>
      BY <1>13 DEF ProxyAnswer, vars
    <2>3. /\ call'[h] = [call[h] EXCEPT !.body = size, !.reply = reply]
          /\ \A g \in Handler : g # h => call'[g] = call[g]
      BY <2>1
    <2>4. IsCall(call'[h]) /\ call'[h].url = call[h].url /\ call'[h].id = call[h].id
      BY <2>3
    <2>5. call[h] # NoCall
      BY <1>2, <2>2
    <2> QED
      BY <1>0, <2>1, <2>2, <2>3, <2>4, <2>5
  <1>14. ASSUME NEW h \in Handler, ProxyEnd(h)
         PROVE  Goal
    BY <1>8, <1>14 DEF ProxyEnd, vars
  <1>15. CASE Restart
    BY <1>0, <1>2, <1>15, <1>18 DEF Restart, Crash, Idle
  <1>16. ASSUME NEW d \in Device, Move(d)
         PROVE  Goal
    BY <1>0, <1>16 DEF Move, vars
  <1>17. CASE UNCHANGED tvars
    BY <1>17 DEF tvars, vars
  <1> QED
    BY <1>3, <1>4, <1>5, <1>6, <1>7, <1>9, <1>10, <1>11, <1>12, <1>13, <1>14, <1>15, <1>16, <1>17
       DEF TNext

\* A proxied request is for the renderer it names.
LEMMA ProxyAsks ==
    ASSUME Shape, NEW h \in Handler, NEW id \in Device, NEW s \in Services, ProxyStart(h, id, s)
    PROVE  call'[h].id = {id}
  <1>1. \E url : call' = [call EXCEPT ![h].id = {id}, ![h].service = s, ![h].url = url]
    BY DEF ProxyStart
  <1>2. PICK url : call' = [call EXCEPT ![h].id = {id}, ![h].service = s, ![h].url = url]
    BY <1>1
  <1>3. call'[h] = [call[h] EXCEPT !.id = {id}, !.service = s, !.url = url]
    BY <1>2 DEF Shape
  <1>4. IsCall(call[h])
    BY DEF Shape
  <1>5. call'[h] = [ports |-> call[h].ports, id |-> {id}, service |-> s, url |-> url,
                    body |-> call[h].body, reply |-> call[h].reply]
    BY <1>3, <1>4 DEF IsCall
  <1> QED
    BY <1>5

\* A command goes to the control URL of the renderer it is for.
LEMMA CommandsStep ==
    ASSUME WiimInv, OutboundInv, Shape, [TNext]_tvars
    PROVE  ReachesRenderer'
  <1> DEFINE Reaches(c, d) ==
        IF c.service = "LinkPlay" THEN c.url.ip = home[d]
        ELSE c.url = ControlUrl(d, home[d], c.service)
  <1>1. \A h \in Handler : \A d \in call[h].id \ moved : Reaches(call[h], d)
    BY DEF OutboundInv, ReachesRenderer
  <1>2. ASSUME NEW h \in Handler, NEW id \in Device, NEW s \in Services, ProxyStart(h, id, s),
               id \notin moved
        PROVE  call'[h].id = {id} /\ Reaches(call'[h], id)
    <2>1. PICK facts \in device(id) :
              /\ s \in DOMAIN facts.services \cup {"LinkPlay"}
              /\ call' = [call EXCEPT
                ![h].id = {id}, ![h].service = s,
                ![h].url = IF s = "LinkPlay"
                           THEN Url("https", facts.ip, 443, "httpapi.asp")
                           ELSE Url("http", facts.ip, facts.port, facts.services[s])]
      BY <1>2 DEF ProxyStart
    <2> DEFINE url == IF s = "LinkPlay"
                      THEN Url("https", facts.ip, 443, "httpapi.asp")
                      ELSE Url("http", facts.ip, facts.port, facts.services[s])
    <2>2. id \in DOMAIN registry /\ facts = registry[id].facts
      BY <2>1 DEF device
    <2>3. Sound(Listed(registry), home, moved) /\ DOMAIN Listed(registry) = DOMAIN registry
      BY ListedFacts DEF OutboundInv, CopiesAreSound, WiimInv, TypeOK
    <2>4. Listed(registry)[id] = registry[id].facts
      BY <2>2 DEF Listed
    <2>5. facts = Advertised(id, home[id]) /\ FitsTogether(id, home[id])
      BY <1>2, <2>2, <2>3, <2>4 DEF Sound
    <2>6. facts.ip = home[id] /\ facts.port = Description[id].port
          /\ facts.services = services(Description[id])
      BY <2>5 DEF Advertised
    <2>7. CASE s = "LinkPlay"
      <3>1. url.ip = home[id]
        BY <2>6, <2>7 DEF Url
      <3>2. call'[h] = [call[h] EXCEPT !.id = {id}, !.service = s, !.url = url]
        BY <2>1 DEF Shape
      <3>3. call'[h].id = {id} /\ call'[h].service = s /\ call'[h].url = url
        BY <3>2 DEF Shape, IsCall
      <3> HIDE DEF url
      <3> QED
        BY <2>7, <3>1, <3>3
    <2>8. CASE s # "LinkPlay"
      <3>1. s \in DOMAIN Description[id].controls
            /\ facts.services[s] = Description[id].controls[s].path
        BY <2>1, <2>6, <2>8 DEF services
      <3>2. url = ControlUrl(id, home[id], s)
        BY <2>5, <2>6, <2>8, <3>1 DEF FitsTogether
      <3>3. call'[h] = [call[h] EXCEPT !.id = {id}, !.service = s, !.url = url]
        BY <2>1 DEF Shape
      <3> HIDE DEF url
      <3>4. call'[h].id = {id} /\ call'[h].service = s /\ call'[h].url = url
        BY <3>3 DEF Shape, IsCall
      <3> QED
        BY <2>8, <3>2, <3>4
    <2> QED
      BY <2>7, <2>8
  <1>3. ASSUME NEW h \in Handler
        PROVE  \/ call'[h].id = {}
               \/ \E id \in Device : \E s \in Services : ProxyStart(h, id, s)
               \/ /\ call'[h].id = call[h].id /\ call'[h].service = call[h].service
                  /\ call'[h].url = call[h].url
    <2> USE DEF Shape, IsCall
    <2>1. NoCall.id = {}
      BY DEF NoCall
    <2>2. CASE UNCHANGED call
      BY <2>2
    <2>3. ASSUME NEW g \in Handler, NEW ip \in Addresses, ProbeStart(g, ip)
          PROVE  call'[h].id = call[h].id /\ (g # h => call'[h] = call[h]) /\ (g = h => call'[h].id = {})
      <3>1. call[g] = NoCall /\ \E ports : call' = [call EXCEPT ![g].ports = ports, ![g].url.ip = ip]
        BY <2>3 DEF ProbeStart
      <3> QED
        BY <2>1, <3>1
    <2>4. ASSUME NEW g \in Handler, call' = [call EXCEPT ![g] = NoCall]
          PROVE  (g # h /\ call'[h] = call[h]) \/ call'[h].id = {}
      BY <2>1, <2>4
    <2>5. ASSUME NEW g \in Handler, ProbeMiss(g)
          PROVE  \/ call'[h].id = {}
                 \/ /\ call'[h].id = call[h].id /\ call'[h].service = call[h].service
                    /\ call'[h].url = call[h].url
      <3>1. CASE call' = [call EXCEPT ![g] = NoCall]
        BY <2>4, <3>1
      <3>2. CASE \E ports : call' = [call EXCEPT ![g].ports = ports]
        BY <3>2
      <3> QED
        BY <2>5, <3>1, <3>2 DEF ProbeMiss
    <2>6. ASSUME NEW g \in Handler, ProxyAnswer(g)
          PROVE  /\ call'[h].id = call[h].id /\ call'[h].service = call[h].service
                 /\ call'[h].url = call[h].url
      <3>1. \E size, reply : call' = [call EXCEPT ![g].body = size, ![g].reply = reply]
        <4>1. PICK size \in 1..(MaxBody + 1) :
                  call' = [call EXCEPT ![g].body = size, ![g].reply = collect_response(size)]
          BY <2>6 DEF ProxyAnswer
        <4> QED
          BY <4>1
      <3> PICK size, reply : call' = [call EXCEPT ![g].body = size, ![g].reply = reply]
        BY <3>1
      <3>2. CASE g = h
        <4>1. call'[h] = [call[h] EXCEPT !.body = size, !.reply = reply]
          BY <3>1, <3>2
        <4> QED
          BY <4>1, AnswerChange DEF Shape
      <3>3. CASE g # h
        BY <3>1, <3>3
      <3> QED
        BY <3>2, <3>3
    <2>7. ASSUME NEW g \in Handler, g # h, NEW id, NEW s, ProxyStart(g, id, s)
          PROVE  call'[h] = call[h]
      BY <2>7 DEF ProxyStart
    <2>8. CASE Restart
      BY <2>1, <2>8 DEF Restart
    <2> QED
      BY <2>2, <2>3, <2>4, <2>5, <2>6, <2>7, <2>8
         DEF TNext, tvars, Collect, FetchLocation, Discover, ScanOn, ProbeHit, ProbeOn, ProxyEnd, Move
  <1>4. \A d \in Device : d \notin moved' => home'[d] = home[d] /\ d \notin moved
    BY StepHandsSound
  <1>5. \A h \in Handler : call[h].id \subseteq Device
    BY DEF Shape
  <1>6. ASSUME NEW h \in Handler, NEW d \in call'[h].id \ moved'
        PROVE  /\ Reaches(call'[h], d)
               /\ d \in Device /\ home'[d] = home[d]
    <2>1. CASE \E id \in Device : \E s \in Services : ProxyStart(h, id, s)
      <3>1. PICK id \in Device : \E s \in Services : ProxyStart(h, id, s)
        BY <2>1
      <3>2. PICK s \in Services : ProxyStart(h, id, s)
        BY <3>1
      <3>3. moved' = moved
        BY <3>2 DEF ProxyStart, network
      <3>4. \A i \in call'[h].id : i = id
        BY <3>2, ProxyAsks
      <3>5. d = id /\ id \notin moved
        BY <3>3, <3>4
      <3> HIDE DEF Reaches
      <3> QED
        BY <1>2, <1>4, <3>2, <3>5
    <2>2. CASE call'[h].id = call[h].id /\ call'[h].service = call[h].service
                 /\ call'[h].url = call[h].url
      <3>1. d \in call[h].id /\ d \in Device /\ d \notin moved'
        BY <1>5, <2>2
      <3> QED
        BY <1>1, <1>4, <2>2, <3>1
    <2> QED
      BY <1>3, <2>1, <2>2
  <1> HIDE DEF Reaches
  <1>7. \A h \in Handler : \A d \in call'[h].id \ moved' : Reaches(call'[h], d) /\ home'[d] = home[d]
    BY <1>6
  <1> QED
    BY <1>7 DEF Reaches, ReachesRenderer

\* An answer is relayed whole or not at all.
LEMMA RelayedStep ==
    ASSUME WiimInv, OutboundInv, Shape, [TNext]_tvars
    PROVE  RelayedWhole'
  <1> SUFFICES ASSUME NEW h \in Handler
               PROVE  \/ call'[h].body = 0
                      \/ call'[h].body \in Int /\ call'[h].reply = collect_response(call'[h].body)
                      \/ call'[h].body = call[h].body /\ call'[h].reply = call[h].reply
    BY DEF OutboundInv, RelayedWhole, collect_response
  <1> USE DEF Shape, IsCall
  <1>1. NoCall.body = 0
    BY NoCallParts
  <1>2. CASE UNCHANGED call
    BY <1>2
  <1>3. ASSUME NEW g \in Handler, NEW ip \in Addresses, ProbeStart(g, ip)
        PROVE  call'[h].body = call[h].body /\ call'[h].reply = call[h].reply
    <2>1. \E ports : call' = [call EXCEPT ![g].ports = ports, ![g].url.ip = ip]
      BY <1>3 DEF ProbeStart
    <2> QED
      BY <2>1
  <1>4. ASSUME NEW g \in Handler, call' = [call EXCEPT ![g] = NoCall]
        PROVE  call'[h].body = 0 \/ call'[h] = call[h]
    BY <1>1, <1>4
  <1>5. ASSUME NEW g \in Handler, ProbeMiss(g)
        PROVE  \/ call'[h].body = 0
               \/ call'[h].body = call[h].body /\ call'[h].reply = call[h].reply
    <2>1. CASE call' = [call EXCEPT ![g] = NoCall]
      BY <1>4, <2>1
    <2>2. CASE \E ports : call' = [call EXCEPT ![g].ports = ports]
      BY <2>2
    <2> QED
      BY <1>5, <2>1, <2>2 DEF ProbeMiss
  <1>6. ASSUME NEW g \in Handler, ProxyAnswer(g)
        PROVE  \/ call'[h] = call[h]
               \/ call'[h].body \in Int /\ call'[h].reply = collect_response(call'[h].body)
    <2>1. PICK size \in 1..(MaxBody + 1) :
              call' = [call EXCEPT ![g].body = size, ![g].reply = collect_response(size)]
      BY <1>6 DEF ProxyAnswer
    <2> DEFINE reply == collect_response(size)
    <2>2. call' = [call EXCEPT ![g].body = size, ![g].reply = reply]
      BY <2>1
    <2> HIDE DEF reply
    <2>3. CASE g = h
      <3>1. call'[h] = [call[h] EXCEPT !.body = size, !.reply = reply]
        BY <2>2, <2>3
      <3>2. call'[h].body = size /\ call'[h].reply = reply
        BY <3>1, AnswerChange
      <3>3. size \in Int
        BY TransportAssumption
      <3> QED
        BY <3>2, <3>3 DEF reply
    <2>4. CASE g # h
      BY <2>2, <2>4
    <2> QED
      BY <2>3, <2>4
  <1>7. ASSUME NEW g \in Handler, NEW id \in Device, NEW s \in Services, ProxyStart(g, id, s)
        PROVE  call'[h].body = call[h].body /\ call'[h].reply = call[h].reply
    <2>0. PICK facts \in device(id) :
              /\ s \in DOMAIN facts.services \cup {"LinkPlay"}
              /\ call' = [call EXCEPT
                ![g].id = {id}, ![g].service = s,
                ![g].url = IF s = "LinkPlay"
                           THEN Url("https", facts.ip, 443, "httpapi.asp")
                           ELSE Url("http", facts.ip, facts.port, facts.services[s])]
      BY ONLY <1>7, Zenon DEF ProxyStart
    <2>1. \E url : call' = [call EXCEPT ![g].id = {id}, ![g].service = s, ![g].url = url]
      BY ONLY <2>0, Zenon
    <2> QED
      BY <2>1
  <1>8. CASE Restart
    BY <1>1, <1>8 DEF Restart
  <1> QED
    BY <1>2, <1>3, <1>4, <1>5, <1>6, <1>7, <1>8
       DEF TNext, tvars, Collect, FetchLocation, Discover, ScanOn, ProbeHit, ProbeOn, ProxyEnd, Move

-----------------------------------------------------------------------------
(* The theorems.                                                           *)

\* At the start nothing is under way, and the file is older than the moves.
LEMMA TStart ==
    ASSUME TInit
    PROVE  WiimInv /\ OutboundInv /\ Shape
  <1>1. WiimInv
    BY Start DEF TInit
  <1>2. /\ DOMAIN home = Device /\ \A d \in Device : home[d] \in Home[d]
        /\ moved = {d \in DOMAIN file.list : file.list[d].ip # home[d]}
        /\ locations = {} /\ found = Nothing /\ \A h \in Handler : call[h] = NoCall
        /\ DOMAIN call = Handler
    BY DEF TInit
  <1>3. file.list \in OnFile /\ file.list \in Listings /\ tmp.list = Nothing
        /\ registry = Nothing /\ devices = Nothing /\ probe = [h \in Handler |-> Idle]
    BY <1>1 DEF TInit, Init, Damaged, Whole, WiimInv, TypeOK, Contents
  <1>4. Sound(file.list, home, moved)
    <2> SUFFICES ASSUME NEW d \in DOMAIN file.list \ moved
                 PROVE  file.list[d] = Advertised(d, home[d]) /\ FitsTogether(d, home[d])
      BY DEF Sound
    <2>1. file.list[d].ip = home[d]
      BY <1>2
    <2> QED
      BY <1>3, <2>1, TransportAssumption
  <1>5. CopiesAreSound
    BY <1>2, <1>3, <1>4, NothingFacts, NothingSound, ListedNothing DEF CopiesAreSound, Idle
  <1>6. Shape
    <2>1. moved \subseteq Device
      BY <1>2, <1>3 DEF Listings
    <2> QED
      BY <1>2, <2>1, NoCallParts DEF Shape
  <1>7. StaysInCidr /\ ReachesRenderer /\ RelayedWhole /\ ProbesAreApart
    BY <1>2, <1>3, NoCallParts, NothingFacts DEF StaysInCidr, ReachesRenderer, RelayedWhole, ProbesAreApart, Idle
  <1> QED
    BY <1>1, <1>5, <1>6, <1>7 DEF OutboundInv

\* The invariants of inventory and transport hold together.
LEMMA TransportIsSafe == TSpec => [](WiimInv /\ OutboundInv /\ Shape)
  <1>1. WiimInv /\ OutboundInv /\ Shape /\ [TNext]_tvars => (WiimInv /\ OutboundInv /\ Shape)'
    <2> SUFFICES ASSUME WiimInv, OutboundInv, Shape, [TNext]_tvars
                 PROVE  (WiimInv /\ OutboundInv /\ Shape)'
      OBVIOUS
    <2>1. WiimInv'
      BY StepHandsSound, SoundStepIsStep, InvStep
    <2>2. OutboundInv'
      BY CopiesStep, RequestsStep, CommandsStep, RelayedStep DEF OutboundInv
    <2> QED
      BY <2>1, <2>2, RequestsStep
  <1> QED
    BY <1>1, TStart, PTL DEF TSpec

\* Whatever address a reply claims, a control URL has or the file names: no
\* request leaves the CIDR, each command reaches the control URL of its
\* renderer unless that has moved, and its answer comes back whole; for any
\* renderers, addresses, handlers and limits (wiim.rs, WiimTransport).
THEOREM OutboundSafe == TSpec => []OutboundInv
  BY TransportIsSafe, PTL

\* The scan and the probes that fetch descriptions are a way for the inventory
\* to run: what is shown of WiimInventory, where any facts may be found, holds
\* of the thread and the handlers (wiim.rs, discover and probe).
THEOREM TransportImplementsInventory == TSpec => Spec
  <1>1. TInit => Init
    BY DEF TInit
  <1>2. WiimInv /\ OutboundInv /\ Shape /\ [TNext]_tvars => [Next]_vars
    BY StepHandsSound, SoundStepIsStep
  <1> QED
    BY <1>1, <1>2, TransportIsSafe, PTL DEF TSpec, Spec

=============================================================================
