------------------------------ MODULE EnvProofs ------------------------------
(***************************************************************************)
(* Proofs about EnvPoller for any sensors, addresses and static devices,   *)
(* any discovery interval, and any number of moves and faults.             *)
(***************************************************************************)
EXTENDS EnvPoller, TLAPS

-----------------------------------------------------------------------------

\* The parts of a type invariant that is a function of addresses.
IsList(f) == DOMAIN f \subseteq Addresses /\ \A a \in DOMAIN f : f[a] \in Devices \cup {Nobody}

\* The static devices are a list, and one that is never wrong.
LEMMA StaticFacts ==
    /\ IsList(StaticDevices) /\ DOMAIN StaticDevices = Static
    /\ \A a \in Static : StaticDevices[a] = Nobody
  BY EnvAssumption DEF StaticDevices, IsList

\* So is the empty list.
LEMMA EmptyFacts == IsList(Empty) /\ DOMAIN Empty = {}
  BY DEF Empty, IsList

\* Taking a device off a list leaves the others.
LEMMA RestrictFacts ==
    ASSUME NEW f, NEW a
    PROVE  /\ DOMAIN Restrict(f, DOMAIN f \ {a}) = DOMAIN f \ {a}
           /\ \A b \in DOMAIN f \ {a} : Restrict(f, DOMAIN f \ {a})[b] = f[b]
  BY DEF Restrict

\* Before the first discovery there is nothing to be wrong about.
LEMMA Start == Init => EnvInv
  <1> SUFFICES ASSUME Init PROVE EnvInv
    OBVIOUS
  <1>1. host \in [Addresses -> Devices \cup {Nobody}]
    BY DEF Init
  <1>2. /\ found = Empty /\ devices = Empty /\ rounds = Interval /\ pc = "loop" /\ todo = {}
        /\ lines = {} /\ moves = 0 /\ faults = 0 /\ moved = {}
    BY DEF Init
  <1>3. TypeOK
    BY <1>1, <1>2, EmptyFacts, EnvAssumption DEF TypeOK, IsList
  <1>4. ListsAreRight /\ MislabelledOnlyAfterMove
    BY <1>2, EmptyFacts DEF ListsAreRight, Right, MislabelledOnlyAfterMove
  <1> QED
    BY <1>3, <1>4 DEF EnvInv

\* A discovery that begins has nothing to be wrong about yet: no address has
\* changed hands since.
LEMMA DiscoveryStep ==
    ASSUME EnvInv, Discover \/ DiscoverFails
    PROVE  EnvInv'
  <1> USE DEF EnvInv, Due
  <1>1. CASE Discover
    <2>1. TypeOK'
      BY <1>1, StaticFacts DEF Discover, TypeOK, IsList
    <2>2. ListsAreRight' /\ MislabelledOnlyAfterMove'
      BY <1>1, StaticFacts DEF Discover, ListsAreRight, Right, MislabelledOnlyAfterMove
    <2> QED
      BY <2>1, <2>2
  <1>2. CASE DiscoverFails
    <2>1. lines = {} /\ lines' = {}
      BY <1>2 DEF DiscoverFails, ListsAreRight
    <2>2. faults' \in 0..MaxFaults /\ 0 \in 0..Interval
      BY <1>2, EnvAssumption DEF DiscoverFails, Fault, TypeOK
    <2>3. TypeOK'
      BY <1>2, <2>1, <2>2, StaticFacts DEF DiscoverFails, TypeOK, IsList
    <2>4. ListsAreRight' /\ MislabelledOnlyAfterMove'
      BY <1>2, <2>1, StaticFacts, EnvAssumption
         DEF DiscoverFails, ListsAreRight, Right, MislabelledOnlyAfterMove
    <2> QED
      BY <2>3, <2>4
  <1> QED
    BY <1>1, <1>2

\* A reply comes from whoever holds the address.
LEMMA ReplyStep ==
    ASSUME EnvInv, NEW a \in Addresses, Reply(a)
    PROVE  EnvInv'
  <1> USE DEF EnvInv, Reply, environment
  <1>1. host[a] \in Devices
    BY DEF TypeOK
  <1>2. /\ DOMAIN found' = DOMAIN found \cup {a} /\ found'[a] = host[a]
        /\ \A b \in DOMAIN found : found'[b] = found[b]
    OBVIOUS
  <1>3. TypeOK'
    BY <1>1, <1>2 DEF TypeOK
  <1>4. ListsAreRight' /\ MislabelledOnlyAfterMove'
    BY <1>2 DEF ListsAreRight, Right, MislabelledOnlyAfterMove
  <1> QED
    BY <1>3, <1>4

\* Validation only shortens the list in the making.
LEMMA ValidateStep ==
    ASSUME EnvInv, NEW a \in Addresses, Validate(a)
    PROVE  EnvInv'
  <1> USE DEF EnvInv, Validate, environment
  <1>1. \/ UNCHANGED <<found, faults>>
        \/ /\ DOMAIN found' = DOMAIN found \ {a}
           /\ \A b \in DOMAIN found' : found'[b] = found[b]
    <2>1. CASE UNCHANGED <<found, faults>>
      BY <2>1
    <2>2. CASE found' = Restrict(found, DOMAIN found \ {a})
      BY <2>2, RestrictFacts, Zenon
    <2> QED
      BY <2>1, <2>2
  <1>2. faults' \in 0..MaxFaults
    <2>1. MaxFaults \in Nat /\ faults \in 0..MaxFaults
      BY EnvAssumption DEF TypeOK
    <2>2. faults' = faults \/ (faults < MaxFaults /\ faults' = faults + 1)
      OBVIOUS
    <2> QED
      BY <2>1, <2>2
  <1>3. TypeOK'
    BY <1>1, <1>2 DEF TypeOK
  <1>4. ListsAreRight' /\ MislabelledOnlyAfterMove'
    BY <1>1 DEF ListsAreRight, Right, MislabelledOnlyAfterMove
  <1> QED
    BY <1>3, <1>4

\* A reading is labelled by the list in force, and comes from whoever holds
\* the address: they differ only where it changed hands.
LEMMA PollStep ==
    ASSUME EnvInv, NEW a \in Addresses, Poll(a)
    PROVE  EnvInv'
  <1> USE DEF EnvInv, Poll, environment
  <1> DEFINE line == [ip |-> a, id |-> devices[a], from |-> host[a]]
  <1>1. a \in DOMAIN devices /\ devices[a] \in Devices \cup {Nobody}
    BY DEF TypeOK
  <1>2. lines' \subseteq lines \cup {line} /\ (host[a] = Nobody => lines' = lines)
    BY EnvAssumption
  <1>3. faults' \in 0..MaxFaults
    BY EnvAssumption DEF TypeOK
  <1>4. TypeOK'
    <2>1. \A l \in lines' : l.ip \in DOMAIN devices' \ todo' /\ l.id = devices'[l.ip] /\ l.from \in Devices
      <3> SUFFICES ASSUME NEW l \in lines'
                   PROVE  l.ip \in DOMAIN devices' \ todo' /\ l.id = devices'[l.ip] /\ l.from \in Devices
        OBVIOUS
      <3>1. CASE l \in lines
        BY <3>1 DEF TypeOK
      <3>2. CASE l = line /\ host[a] # Nobody
        BY <1>1, <3>2 DEF TypeOK
      <3> QED
        BY <1>2, <3>1, <3>2
    <2> QED
      BY <1>3, <2>1 DEF TypeOK
  <1>5. ListsAreRight'
    BY DEF ListsAreRight, Right
  <1>6. MislabelledOnlyAfterMove'
    <2> SUFFICES ASSUME NEW l \in lines', l.id \notin {Nobody, l.from}
                 PROVE  l.ip \in moved'
      BY DEF MislabelledOnlyAfterMove
    <2>1. CASE l \in lines
      BY <2>1 DEF MislabelledOnlyAfterMove
    <2>2. CASE l = line
      <3>1. Right(devices)
        BY DEF ListsAreRight
      <3> QED
        BY <1>1, <2>2, <3>1 DEF Right
    <2> QED
      BY <1>2, <2>1, <2>2
  <1> QED
    BY <1>4, <1>5, <1>6

\* A round ends with nothing in hand, and the next discovery is nearer.
LEMMA RoundStep ==
    ASSUME EnvInv, Append \/ AppendFails
    PROVE  EnvInv'
  <1> USE DEF EnvInv, EndRound, environment
  <1>1. /\ pc = "poll" /\ lines' = {} /\ rounds' = rounds + 1 /\ pc' = "loop" /\ todo' = todo
        /\ UNCHANGED <<host, moves, moved, found, devices>>
    BY DEF Append, AppendFails
  <1>2. faults' \in 0..MaxFaults /\ rounds' \in 0..Interval
    BY <1>1, EnvAssumption DEF Append, AppendFails, Fault, TypeOK, ListsAreRight
  <1>3. todo = {}
    BY DEF Append, AppendFails
  <1>4. TypeOK'
    BY <1>1, <1>2, <1>3 DEF TypeOK
  <1>5. ListsAreRight' /\ MislabelledOnlyAfterMove'
    BY <1>1 DEF ListsAreRight, Right, MislabelledOnlyAfterMove
  <1> QED
    BY <1>4, <1>5

\* The steps of the thread that visit no device.
LEMMA ThreadStep ==
    ASSUME EnvInv, CollectEnds \/ Publish \/ StartRound
    PROVE  EnvInv'
  <1> USE DEF EnvInv, environment
  <1>1. CASE CollectEnds
    <2>1. faults' \in 0..MaxFaults
      BY <1>1, EnvAssumption DEF CollectEnds, Fault, TypeOK
    <2>2. TypeOK'
      BY <1>1, <2>1 DEF CollectEnds, TypeOK, ListsAreRight
    <2>3. ListsAreRight' /\ MislabelledOnlyAfterMove'
      BY <1>1 DEF CollectEnds, ListsAreRight, Right, MislabelledOnlyAfterMove
    <2> QED
      BY <2>2, <2>3
  <1>2. CASE Publish
    <2>1. TypeOK'
      BY <1>2, EnvAssumption DEF Publish, TypeOK, ListsAreRight
    <2>2. ListsAreRight' /\ MislabelledOnlyAfterMove'
      BY <1>2, EnvAssumption DEF Publish, ListsAreRight, Right, MislabelledOnlyAfterMove
    <2> QED
      BY <2>1, <2>2
  <1>3. CASE StartRound
    <2>1. TypeOK'
      BY <1>3 DEF StartRound, TypeOK, ListsAreRight
    <2>2. ListsAreRight' /\ MislabelledOnlyAfterMove'
      BY <1>3 DEF StartRound, ListsAreRight, Right, MislabelledOnlyAfterMove
    <2> QED
      BY <2>1, <2>2
  <1> QED
    BY <1>1, <1>2, <1>3

\* A sensor that moves makes entries wrong, and the address is noted.
LEMMA MoveStep ==
    ASSUME EnvInv, NEW d \in Devices, Move(d)
    PROVE  EnvInv'
  <1> USE DEF EnvInv, Move
  <1>1. host' \in [Addresses -> Devices \cup {Nobody}]
    BY DEF TypeOK
  <1>2. moves' \in 0..MaxMoves
    BY EnvAssumption DEF TypeOK
  <1>3. moved \subseteq moved' /\ moved' \subseteq Addresses
        /\ \A a \in Addresses \ moved' : host'[a] = host[a]
    BY DEF TypeOK
  <1>4. TypeOK'
    BY <1>1, <1>2, <1>3 DEF TypeOK
  <1>5. ASSUME NEW list, DOMAIN list \subseteq Addresses, Right(list)
        PROVE  \A a \in DOMAIN list \ moved' : list[a] \in {Nobody, host'[a]}
    BY <1>3, <1>5 DEF Right
  <1>6. ListsAreRight'
    <2>1. DOMAIN found \subseteq Addresses /\ DOMAIN devices \subseteq Addresses
      BY DEF TypeOK
    <2>2. Right(found) => \A a \in DOMAIN found \ moved' : found[a] \in {Nobody, host'[a]}
      BY <1>5, <2>1
    <2>3. Right(devices) => \A a \in DOMAIN devices \ moved' : devices[a] \in {Nobody, host'[a]}
      BY <1>5, <2>1
    <2> QED
      BY <2>2, <2>3 DEF ListsAreRight, Right
  <1>7. MislabelledOnlyAfterMove'
    BY <1>3 DEF MislabelledOnlyAfterMove
  <1> QED
    BY <1>4, <1>6, <1>7

\* A reading carries another sensor's identity only if its address changed
\* hands since the discovery in force began, however discovery, validation and
\* polling are interleaved with moves, and whatever fails (sensors.rs).
THEOREM LabelsAreRight == Spec => []EnvInv
  <1>1. EnvInv /\ [Next]_vars => EnvInv'
    <2> SUFFICES ASSUME EnvInv, [Next]_vars
                 PROVE  EnvInv'
      OBVIOUS
    <2>1. CASE UNCHANGED vars
      BY <2>1 DEF vars, environment, EnvInv, TypeOK, ListsAreRight, Right, MislabelledOnlyAfterMove
    <2> QED
      BY <2>1, DiscoveryStep, ReplyStep, ValidateStep, PollStep, RoundStep, ThreadStep, MoveStep
         DEF Next, Thread
  <1> QED
    BY <1>1, Start, PTL DEF Spec

=============================================================================
