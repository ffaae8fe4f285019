----------------------------- MODULE KasaProofs -----------------------------
(***************************************************************************)
(* Proofs about KasaPoller for any plugs, addresses and static devices,    *)
(* any discovery interval, and any number of moves, lost sessions and      *)
(* faults; and about KlapSession for any plugs, answers, block size,       *)
(* number of words and limit of requests; that base64 gives back any       *)
(* bytes; and that a string that is written into a line has no newline and *)
(* is read back from it (JsonString).                                      *)
(***************************************************************************)
EXTENDS KasaPoller, KlapSession, JsonString, WellFoundedInduction, FiniteSetTheorems, TLAPS

-----------------------------------------------------------------------------
(* Lists of devices.                                                       *)

\* What a list holds.
LEMMA ListParts ==
    ASSUME NEW list, IsList(list)
    PROVE  \A a \in DOMAIN list :
               /\ a \in Addresses
               /\ list[a] \in Device
               /\ list[a].id \in Plugs \cup {None} /\ list[a].name \in Plugs \cup {None}
  <1>1. \A a \in DOMAIN list : a \in Addresses /\ list[a] \in Device
    BY DEF IsList
  <1> QED
    BY <1>1 DEF Device

\* A device without a name is one, and is its identity.
LEMMA UnnamedFacts ==
    ASSUME NEW id \in Plugs \cup {None}
    PROVE  Unnamed(id) \in Device /\ Unnamed(id).id = id /\ Unnamed(id).name = None
  BY DEF Unnamed, Device

\* The static devices are a list, and one that is right whoever is there.
LEMMA StaticFacts ==
    IsList(StaticDevices) /\ DOMAIN StaticDevices = Static /\ Right(StaticDevices)
  <1>1. /\ DOMAIN StaticDevices = Static
        /\ StaticDevices = [a \in Static |-> StaticDevices[a]]
        /\ \A a \in Static : StaticDevices[a] = Unnamed(None)
    BY DEF StaticDevices
  <1>2. Unnamed(None) \in Device /\ Unnamed(None).id = None /\ Unnamed(None).name = None
    BY UnnamedFacts
  <1> QED
    BY <1>1, <1>2, KasaAssumption DEF IsList, Right

\* The empty list.
LEMMA EmptyFacts == DOMAIN << >> = {} /\ IsList(<< >>) /\ << >> \in [{} -> Plugs \cup {None}]
  <1>1. DOMAIN << >> = {}
    OBVIOUS
  <1>2. << >> = [a \in {} |-> None]
    BY <1>1
  <1> QED
    BY <1>1, <1>2 DEF IsList

\* Before the first discovery there is nothing to be wrong about.
LEMMA Start == Init => KasaInv
  <1> SUFFICES ASSUME Init PROVE KasaInv
    OBVIOUS
  <1>1. host \in [Addresses -> Plugs \cup {None}]
    BY DEF Init
  <1>2. /\ known = {} /\ found = << >> /\ devices = << >> /\ sessions = << >>
        /\ registry = << >> /\ rounds = Interval /\ pc = "loop" /\ todo = {} /\ lines = {}
        /\ moves = 0 /\ forgets = 0 /\ faults = 0 /\ moved = {} /\ dead = {}
    BY DEF Init
  <1>3. TypeOK
    BY <1>1, <1>2, EmptyFacts, KasaAssumption DEF TypeOK
  <1>4. ListsAreRight /\ MislabelledOnlyAfterMove
    BY <1>2, EmptyFacts DEF ListsAreRight, Right, MislabelledOnlyAfterMove
  <1> QED
    BY <1>3, <1>4 DEF KasaInv

-----------------------------------------------------------------------------
(* Discovery.                                                              *)

\* One more fault is still within the bound.
LEMMA FaultType ==
    ASSUME faults \in 0..MaxFaults, Fault \/ UNCHANGED faults
    PROVE  faults' \in 0..MaxFaults
  BY KasaAssumption DEF Fault

\* A list that is right is published: the sessions are gone, nothing is read.
LEMMA PublishStep ==
    ASSUME KasaInv, NEW list, IsList(list), Right(list)', Publish(list), lines = {},
           Fault \/ UNCHANGED faults, moved' \subseteq Addresses,
           UNCHANGED <<host, moves, forgets, found, at, lines>>
    PROVE  KasaInv'
  <1> USE DEF KasaInv, Publish
  <1>1. faults' \in 0..MaxFaults
    BY FaultType DEF TypeOK
  <1>2. IsList(found)' /\ IsList(devices)'
    BY DEF TypeOK, IsList
  <1>3. sessions' \in [DOMAIN devices' -> Plugs \cup {None}]
    OBVIOUS
  <1>4. 0 \in 0..Interval /\ 0 < Interval
    BY KasaAssumption
  <1>5. /\ host' \in [Addresses -> Plugs \cup {None}]
        /\ moves' \in 0..MaxMoves /\ forgets' \in 0..MaxForgets
    BY DEF TypeOK
  <1>6. TypeOK'
    BY <1>1, <1>2, <1>3, <1>4, <1>5 DEF TypeOK
  <1>7. Right(devices)'
    BY DEF Right
  <1> QED
    BY <1>4, <1>6, <1>7 DEF ListsAreRight, MislabelledOnlyAfterMove

\* A discovery that begins has nothing to be wrong about yet: no address has
\* changed hands since.
LEMMA DiscoveryStep ==
    ASSUME KasaInv, Discover \/ DiscoverFails \/ CollectEnds
    PROVE  KasaInv'
  <1> USE DEF KasaInv, Due
  <1>1. Right(StaticDevices)'
    <2>1. \A a \in Static : StaticDevices[a].id = None /\ StaticDevices[a].name = None
      BY UnnamedFacts DEF StaticDevices
    <2> QED
      BY <2>1, StaticFacts DEF Right, StaticDevices
  <1>2. CASE Discover
    <2>1. TypeOK'
      BY <1>2, StaticFacts DEF Discover, polled, TypeOK, IsList
    <2>2. found' = StaticDevices
      BY <1>2 DEF Discover
    <2>3. Right(found)'
      BY <1>1, <2>2 DEF Right
    <2> QED
      BY <1>2, <2>1, <2>3 DEF Discover, ListsAreRight, MislabelledOnlyAfterMove
  <1>3. CASE DiscoverFails
    <2>1. lines = {} /\ moved' \subseteq Addresses
      BY <1>3 DEF DiscoverFails, ListsAreRight
    <2> QED
      BY <1>1, <1>3, <2>1, StaticFacts, PublishStep DEF DiscoverFails
  <1>4. CASE CollectEnds
    <2>1. lines = {} /\ moved' \subseteq Addresses /\ Right(found) /\ IsList(found)
      BY <1>4 DEF CollectEnds, environment, ListsAreRight, TypeOK
    <2>2. Right(found)'
      BY <1>4, <2>1 DEF CollectEnds, environment, Right
    <2>3. /\ Publish(found) /\ (Fault \/ UNCHANGED faults)
          /\ UNCHANGED <<host, moves, forgets, found, at, lines>>
      BY <1>4 DEF CollectEnds, environment
    <2> DEFINE list == found
    <2>4. Right(list)'
      BY <2>2
    <2> QED
      BY <2>1, <2>3, <2>4, PublishStep
  <1> QED
    BY <1>2, <1>3, <1>4

\* A reply comes from whoever holds the address.
LEMMA ReplyStep ==
    ASSUME KasaInv, NEW a \in Addresses, Reply(a)
    PROVE  KasaInv'
  <1> USE DEF KasaInv, Reply, environment
  <1>1. host[a] \in Plugs
    BY DEF TypeOK
  <1>2. Unnamed(host[a]) \in Device /\ Unnamed(host[a]).id = host[a]
        /\ Unnamed(host[a]).name = None
    BY <1>1, UnnamedFacts
  <1>3. /\ IsList(found') /\ DOMAIN found' = DOMAIN found \cup {a}
        /\ found'[a] = Unnamed(host[a])
        /\ \A b \in DOMAIN found : found'[b] = found[b]
    <2>1. \A b \in DOMAIN found : b \in Addresses /\ found[b] \in Device
      BY ListParts DEF TypeOK
    <2>2. /\ DOMAIN found' = DOMAIN found \cup {a}
          /\ found' = [b \in DOMAIN found' |-> found'[b]]
          /\ found'[a] = Unnamed(host[a])
          /\ \A b \in DOMAIN found : found'[b] = found[b]
      OBVIOUS
    <2> QED
      BY <1>2, <2>1, <2>2 DEF IsList
  <1>4. TypeOK'
    BY <1>3 DEF polled, TypeOK, IsList
  <1>5. Right(found)'
    BY <1>2, <1>3 DEF ListsAreRight, Right
  <1>6. ListsAreRight' /\ MislabelledOnlyAfterMove'
    BY <1>5 DEF polled, ListsAreRight, Right, MislabelledOnlyAfterMove
  <1> QED
    BY <1>4, <1>6

-----------------------------------------------------------------------------
(* Polling.                                                                *)

\* A poll that fails costs its address the session and nothing else.
LEMMA AbandonStep ==
    ASSUME KasaInv, NEW a \in DOMAIN devices, Abandon(a), faults' \in 0..MaxFaults,
           pc \in {"poll", "energy"}, todo' \subseteq todo, dead' \subseteq Addresses,
           UNCHANGED <<environment, found, devices, registry, rounds, lines>>
    PROVE  KasaInv'
  <1> USE DEF KasaInv, Abandon, environment
  <1>1. sessions' \in [DOMAIN devices' -> Plugs \cup {None}]
    BY DEF TypeOK
  <1>2. /\ known' \subseteq {b \in DOMAIN sessions' : sessions'[b] # None}
        /\ \A b, c \in known' : sessions'[b] = sessions'[c] => b = c
    BY DEF TypeOK
  <1>3. TypeOK'
    BY <1>1, <1>2 DEF TypeOK, IsList
  <1> QED
    BY <1>3 DEF ListsAreRight, Right, MislabelledOnlyAfterMove

\* The plug that opens a session gives up its older one: it is known at no
\* other address.
LEMMA HandshakeStep ==
    ASSUME KasaInv, NEW a \in Addresses, Handshake(a)
    PROVE  KasaInv'
  <1> USE DEF KasaInv, Handshake, environment
  <1>1. a \in DOMAIN devices /\ DOMAIN sessions = DOMAIN devices /\ host[a] \in Plugs
    BY DEF TypeOK
  <1>2. /\ sessions' \in [DOMAIN devices' -> Plugs \cup {None}]
        /\ sessions'[a] = host[a]
        /\ \A b \in DOMAIN sessions \ {a} : sessions'[b] = sessions[b]
    BY <1>1 DEF TypeOK
  <1>3. \A b \in known' \ {a} : b \in known /\ sessions[b] # host[a] /\ b \in DOMAIN sessions
    BY DEF TypeOK
  <1>4. known' \subseteq {b \in DOMAIN sessions' : sessions'[b] # None}
    <2>1. DOMAIN sessions' = DOMAIN sessions
      BY <1>1, <1>2
    <2>2. sessions'[a] # None
      BY <1>2
    <2>3. \A b \in known' \ {a} : sessions'[b] # None
      BY <1>2, <1>3 DEF TypeOK
    <2> QED
      BY <1>1, <1>3, <2>1, <2>2, <2>3
  <1>5. \A b, c \in known' : sessions'[b] = sessions'[c] => b = c
    <2>1. \A b \in known' \ {a} : sessions'[b] # sessions'[a]
      BY <1>2, <1>3
    <2>2. \A b, c \in known' \ {a} : sessions'[b] = sessions'[c] => b = c
      BY <1>2, <1>3 DEF TypeOK
    <2> QED
      BY <2>1, <2>2
  <1>6. at' \in DOMAIN sessions' \ todo' /\ sessions'[at'] # None
    BY <1>1, <1>2
  <1>7. TypeOK'
    BY <1>2, <1>4, <1>5, <1>6 DEF TypeOK, IsList
  <1> QED
    BY <1>7 DEF ListsAreRight, Right, MislabelledOnlyAfterMove

\* The name learned is that of the plug that holds the address.
LEMMA NameStep ==
    ASSUME KasaInv, LearnName
    PROVE  KasaInv'
  <1> USE DEF KasaInv, LearnName, environment
  <1>1. at \in DOMAIN devices /\ at \in Addresses
    BY DEF TypeOK, IsList
  <1>2. host[at] \in Plugs \cup {None}
    BY <1>1 DEF TypeOK
  <1>3. /\ DOMAIN devices' = DOMAIN devices
        /\ devices' = [a \in DOMAIN devices |-> devices'[a]]
        /\ devices'[at] = [devices[at] EXCEPT !.name = host[at]]
        /\ \A a \in DOMAIN devices \ {at} : devices'[a] = devices[a]
    BY <1>1
  <1>4. devices'[at] \in Device /\ devices'[at].id = devices[at].id
        /\ devices'[at].name = host[at]
    <2>1. devices[at] \in Device
      BY <1>1, ListParts DEF TypeOK
    <2> QED
      BY <1>2, <1>3, <2>1 DEF Device
  <1>5. IsList(devices)'
    <2>1. \A a \in DOMAIN devices : a \in Addresses /\ devices[a] \in Device
      BY ListParts DEF TypeOK
    <2> QED
      BY <1>3, <1>4, <2>1 DEF IsList
  <1>6. TypeOK'
    BY <1>3, <1>5 DEF TypeOK, IsList
  <1>7. Right(devices)'
    <2>1. Right(devices)
      BY DEF ListsAreRight
    <2> QED
      BY <1>1, <1>3, <1>4, <2>1 DEF Right
  <1> QED
    BY <1>6, <1>7 DEF ListsAreRight, MislabelledOnlyAfterMove

\* A reading is labelled by the list in force, and comes from whoever holds
\* the address: they differ only where it changed hands.
LEMMA ReadStep ==
    ASSUME KasaInv, ReadEnergy
    PROVE  KasaInv'
  <1> USE DEF KasaInv, ReadEnergy, environment, polled
  <1> DEFINE entry == [ip |-> at, id |-> devices[at].id, name |-> devices[at].name,
                      from |-> host[at]]
  <1>1. at \in DOMAIN devices /\ at \in Addresses /\ sessions[at] \in Plugs
    BY DEF TypeOK, IsList
  <1>2. lines' = lines \cup {entry} /\ entry.ip = at /\ entry.id = devices[at].id
        /\ entry.name = devices[at].name /\ entry.from = host[at] /\ host[at] \in Plugs
    BY <1>1 DEF Works
  <1> HIDE DEF entry
  <1>3. \A l \in lines' : l.ip \in DOMAIN devices' /\ l.from \in Plugs
    BY <1>1, <1>2 DEF TypeOK
  <1>4. TypeOK'
    BY <1>3 DEF TypeOK, IsList
  <1>5. MislabelledOnlyAfterMove'
    <2>1. {entry.id, entry.name} \subseteq {None, entry.from} \/ entry.ip \in moved
      BY <1>1, <1>2 DEF ListsAreRight, Right
    <2> QED
      BY <1>2, <2>1 DEF MislabelledOnlyAfterMove
  <1> QED
    BY <1>4, <1>5 DEF ListsAreRight, Right

\* The other steps at one device.
LEMMA VisitStep ==
    ASSUME KasaInv,
           \/ NameFails \/ EnergyFails
           \/ \E a \in Addresses : Resume(a) \/ HandshakeFails(a)
    PROVE  KasaInv'
  <1> USE DEF KasaInv
  <1>1. ASSUME NEW works, Broken(works)
        PROVE  faults' \in 0..MaxFaults
    BY <1>1, KasaAssumption DEF Broken, TypeOK
  <1>2. CASE NameFails
    <2>1. faults' \in 0..MaxFaults
      BY <1>1, <1>2 DEF NameFails
    <2>2. TypeOK'
      BY <1>2, <2>1 DEF NameFails, environment, polled, TypeOK, IsList
    <2> QED
      BY <1>2, <2>2 DEF NameFails, environment, polled, ListsAreRight, Right,
                        MislabelledOnlyAfterMove
  <1>3. CASE EnergyFails
    <2>1. at \in DOMAIN devices /\ at \in Addresses /\ dead \subseteq Addresses
      BY <1>3 DEF EnergyFails, TypeOK, IsList
    <2>2. faults' \in 0..MaxFaults
      BY <1>1, <1>3 DEF EnergyFails
    <2>3. dead' \subseteq Addresses
      BY <1>3, <2>1 DEF EnergyFails
    <2> QED
      BY <1>3, <2>1, <2>2, <2>3, AbandonStep DEF EnergyFails
  <1>4. ASSUME NEW a \in Addresses, Resume(a)
        PROVE  KasaInv'
    <2>1. a \in DOMAIN sessions
      BY <1>4 DEF Resume, TypeOK
    <2>2. TypeOK'
      BY <1>4, <2>1 DEF Resume, environment, polled, TypeOK, IsList
    <2> QED
      BY <1>4, <2>2 DEF Resume, environment, polled, ListsAreRight, Right,
                        MislabelledOnlyAfterMove
  <1>5. ASSUME NEW a \in Addresses, HandshakeFails(a)
        PROVE  KasaInv'
    <2>1. a \in DOMAIN devices /\ dead' \subseteq Addresses
      BY <1>5 DEF HandshakeFails, TypeOK
    <2>2. faults' \in 0..MaxFaults
      BY <1>1, <1>5 DEF HandshakeFails
    <2> QED
      BY <1>5, <2>1, <2>2, AbandonStep DEF HandshakeFails
  <1> QED
    BY <1>2, <1>3, <1>4, <1>5

\* A round starts with the list in force, and ends with nothing in hand and
\* the next discovery nearer.
LEMMA RoundStep ==
    ASSUME KasaInv, StartRound \/ AppendLines \/ AppendFails
    PROVE  KasaInv'
  <1> USE DEF KasaInv, environment, polled
  <1>1. CASE StartRound
    <2>1. TypeOK'
      BY <1>1 DEF StartRound, TypeOK, IsList
    <2> QED
      BY <1>1, <2>1 DEF StartRound, ListsAreRight, Right, MislabelledOnlyAfterMove
  <1>2. CASE AppendLines \/ AppendFails
    <2>1. EndRound /\ (Fault \/ UNCHANGED faults)
      BY <1>2 DEF AppendLines, AppendFails
    <2>2. faults' \in 0..MaxFaults
      BY <2>1, FaultType DEF TypeOK
    <2>3. rounds' \in 0..Interval
      BY <2>1, KasaAssumption DEF EndRound, TypeOK, ListsAreRight
    <2>4. TypeOK'
      BY <2>1, <2>2, <2>3 DEF EndRound, TypeOK, IsList
    <2> QED
      BY <2>1, <2>4 DEF EndRound, ListsAreRight, Right, MislabelledOnlyAfterMove
  <1> QED
    BY <1>1, <1>2

-----------------------------------------------------------------------------
(* The plugs.                                                              *)

\* A plug that moves makes entries wrong, and the address is noted.
LEMMA MoveStep ==
    ASSUME KasaInv, NEW p \in Plugs, Move(p)
    PROVE  KasaInv'
  <1> USE DEF KasaInv, Move
  <1>1. host' \in [Addresses -> Plugs \cup {None}]
    BY DEF TypeOK
  <1>2. moves' \in 0..MaxMoves
    BY KasaAssumption DEF TypeOK
  <1>3. moved \subseteq moved' /\ moved' \subseteq Addresses
        /\ \A a \in Addresses \ moved' : host'[a] = host[a]
    BY DEF TypeOK
  <1>4. TypeOK'
    BY <1>1, <1>2, <1>3 DEF polled, TypeOK, IsList
  <1>5. ASSUME NEW list, DOMAIN list \subseteq Addresses, Right(list)
        PROVE  \A a \in DOMAIN list \ moved' : {list[a].id, list[a].name} \subseteq {None, host'[a]}
    BY <1>3, <1>5 DEF Right
  <1>6. ListsAreRight'
    <2>1. DOMAIN found \subseteq Addresses /\ DOMAIN devices \subseteq Addresses
      BY DEF TypeOK, IsList
    <2>2. Right(found) => Right(found)'
      BY <1>5, <2>1 DEF Right
    <2>3. Right(devices) => Right(devices)'
      BY <1>5, <2>1 DEF Right, polled
    <2> QED
      BY <2>2, <2>3 DEF ListsAreRight, polled
  <1>7. MislabelledOnlyAfterMove'
    BY <1>3 DEF MislabelledOnlyAfterMove
  <1> QED
    BY <1>4, <1>6, <1>7

\* A plug that forgets its session changes no list.
LEMMA ForgetStep ==
    ASSUME KasaInv, NEW p \in Plugs, Forget(p)
    PROVE  KasaInv'
  <1> USE DEF KasaInv, Forget
  <1>1. known' \subseteq known
    OBVIOUS
  <1>2. forgets' \in 0..MaxForgets
    BY KasaAssumption DEF TypeOK
  <1>3. TypeOK'
    BY <1>1, <1>2 DEF TypeOK, IsList
  <1> QED
    BY <1>3 DEF ListsAreRight, Right, MislabelledOnlyAfterMove

\* A reading carries another plug's identity or name only if its address
\* changed hands since the discovery in force began, and every session is that
\* of one address, however discovery, handshakes and readings are interleaved
\* with moves, and whatever fails (kasa.rs).
THEOREM PlugLabelsAreRight == Spec => []KasaInv
  <1>1. KasaInv /\ [Next]_vars => KasaInv'
    <2> SUFFICES ASSUME KasaInv, [Next]_vars
                 PROVE  KasaInv'
      OBVIOUS
    <2>1. CASE UNCHANGED vars
      BY <2>1 DEF vars, environment, polled, KasaInv, TypeOK, IsList, ListsAreRight, Right,
                  MislabelledOnlyAfterMove
    <2> QED
      BY <2>1, DiscoveryStep, ReplyStep, HandshakeStep, NameStep, ReadStep, VisitStep,
         RoundStep, MoveStep, ForgetStep
         DEF Next, Thread
  <1> QED
    BY <1>1, Start, PTL DEF Spec

-----------------------------------------------------------------------------
(* Sessions that died.                                                     *)

\* The slot of an address whose session was found dead is empty, until a new
\* session works there.
DeadAreReplaced ==
    \A a \in dead :
        /\ a \in DOMAIN sessions
        /\ sessions[a] = None \/ (pc \in {"info", "energy"} /\ at = a /\ Works)

\* Every step keeps it so.
LEMMA DeadStep ==
    ASSUME KasaInv, DeadAreReplaced, [Next]_vars
    PROVE  DeadAreReplaced'
  <1> USE DEF DeadAreReplaced
  <1>1. CASE dead' = {}
    BY <1>1
  <1>2. CASE /\ UNCHANGED <<dead, sessions>> /\ pc \notin {"info", "energy"}
    BY <1>2
  <1>3. ASSUME NEW a \in Addresses, Handshake(a)
        PROVE  DeadAreReplaced'
    <2>1. a \in DOMAIN sessions /\ dead' = dead /\ pc' \in {"info", "energy"} /\ at' = a
          /\ pc = "poll"
      BY <1>3 DEF Handshake, KasaInv, TypeOK
    <2>2. /\ DOMAIN sessions' = DOMAIN sessions
          /\ sessions'[a] = host[a]
          /\ \A b \in DOMAIN sessions \ {a} : sessions'[b] = sessions[b]
      BY <1>3, <2>1 DEF Handshake
    <2>3. Works'
      BY <1>3, <2>1, <2>2 DEF Handshake, environment, Works
    <2> QED
      BY <2>1, <2>2, <2>3
  <1>4. ASSUME NEW a \in DOMAIN sessions, Abandon(a),
               dead' \subseteq dead \cup {a}, pc = "poll" \/ at = a
        PROVE  DeadAreReplaced'
    BY <1>4 DEF Abandon
  <1>5. CASE EnergyFails
    BY <1>4, <1>5 DEF EnergyFails, KasaInv, TypeOK
  <1>6. ASSUME NEW a \in Addresses, HandshakeFails(a)
        PROVE  DeadAreReplaced'
    BY <1>4, <1>6 DEF HandshakeFails, KasaInv, TypeOK
  <1>7. CASE ReadEnergy
    BY <1>7 DEF ReadEnergy, polled
  <1>8. CASE LearnName \/ NameFails \/ UNCHANGED vars
    BY <1>8 DEF LearnName, NameFails, vars, environment, polled, Works
  <1>9. CASE DiscoverFails \/ CollectEnds \/ \E p \in Plugs : Move(p) \/ Forget(p)
    BY <1>1, <1>9 DEF DiscoverFails, CollectEnds, Publish, Move, Forget
  <1>10. CASE \/ Discover \/ StartRound \/ AppendLines \/ AppendFails
              \/ \E a \in Addresses : Reply(a) \/ Resume(a)
    BY <1>2, <1>10 DEF Discover, Due, StartRound, AppendLines, AppendFails, EndRound, Reply,
                       Resume, polled
  <1> QED
    BY <1>3, <1>5, <1>6, <1>7, <1>8, <1>9, <1>10 DEF Next, Thread

\* With nothing else going wrong, no address is found with a dead session
\* twice in a row: the poll after the failed one opens a new session.
THEOREM DeadSessionsReplaced == Spec => DeadSessionReplaced
  <1>1. KasaInv /\ DeadAreReplaced
            => [EnergyFails /\ ~Works /\ host[at] # None => at \notin dead]_vars
    BY DEF EnergyFails, DeadAreReplaced, KasaInv, TypeOK
  <1>2. Init => DeadAreReplaced
    BY DEF Init, DeadAreReplaced
  <1>3. Spec => []DeadAreReplaced
    BY <1>2, DeadStep, PlugLabelsAreRight, PTL DEF Spec
  <1> QED
    BY <1>1, <1>3, PlugLabelsAreRight, PTL DEF Spec, DeadSessionReplaced

-----------------------------------------------------------------------------
(* What the collector hears.                                               *)

\* The sequence number goes on by one, and wraps to zero.
LEMMA WrapIs ==
    ASSUME NEW seq \in 0..Words - 1
    PROVE  /\ wrapping_add(seq) \in 0..Words - 1
           /\ wrapping_add(seq) = IF seq = Words - 1 THEN 0 ELSE seq + 1
  <1>1. Words \in Nat \ {0}
    BY KlapAssumption
  <1>2. CASE seq = Words - 1
    <2>1. Words % Words = 0
      BY <1>1
    <2> QED
      BY <1>1, <1>2, <2>1 DEF wrapping_add
  <1>3. CASE seq # Words - 1
    <2>1. seq + 1 \in 0..Words - 1
      BY <1>1, <1>3
    <2>2. (seq + 1) % Words = seq + 1
      BY <1>1, <2>1
    <2> QED
      BY <1>1, <1>3, <2>1, <2>2 DEF wrapping_add
  <1> QED
    BY <1>2, <1>3

\* The parts of two sequences put together.
LEMMA Together ==
    ASSUME NEW S, NEW s \in Seq(S), NEW t \in Seq(S), NEW r, r = s \o t
    PROVE  /\ r \in Seq(S) /\ Len(r) = Len(s) + Len(t)
           /\ \A i \in 1..Len(s) : r[i] = s[i]
           /\ \A i \in 1..Len(t) : r[Len(s) + i] = t[i]
  <1>1. /\ s \o t \in Seq(S) /\ Len(s \o t) = Len(s) + Len(t)
        /\ \A i \in 1..Len(s) : (s \o t)[i] = s[i]
        /\ \A i \in 1..Len(t) : (s \o t)[Len(s) + i] = t[i]
    OBVIOUS
  <1> QED
    BY <1>1, Zenon

\* Where the parts of an answer are.
LEMMA AnswerParts ==
    ASSUME NEW S, NEW status, NEW body \in Seq(S), NEW declared \in BOOLEAN, NEW d,
           d = (IF declared THEN 1 ELSE 0), 
           Status(status) \in S, Length(Len(body)) \in S, Blank \in S,
           NEW answer, answer = Answer(status, << >>, body, declared)
    PROVE  /\ answer \in Seq(S) /\ Len(answer) = d + 2 + Len(body)
           /\ answer[1] = Status(status) /\ answer[d + 2] = Blank
           /\ declared => answer[2] = Length(Len(body))
           /\ \A i \in 1..Len(body) : answer[d + 2 + i] = body[i]
  <1>1. PICK first : first = <<Status(status)>>
    OBVIOUS
  <1>2. PICK length : length = IF declared THEN <<Length(Len(body))>> ELSE << >>
    OBVIOUS
  <1>3. PICK blank : blank = <<Blank>>
    OBVIOUS
  <1>4. PICK one : one = first \o << >>
    OBVIOUS
  <1>5. PICK two : two = one \o length
    OBVIOUS
  <1>6. PICK three : three = two \o blank
    OBVIOUS
  <1>0. PICK whole : whole = three \o body
    OBVIOUS
  <1>7. answer = whole
    BY <1>1, <1>2, <1>3, <1>4, <1>5, <1>6, <1>0 DEF Answer
  <1>8. /\ first \in Seq(S) /\ Len(first) = 1 /\ first[1] = Status(status)
        /\ << >> \in Seq(S) /\ Len(<< >>) = 0
        /\ blank \in Seq(S) /\ Len(blank) = 1 /\ blank[1] = Blank
    BY <1>1, <1>3
  <1>9. /\ length \in Seq(S) /\ Len(length) = d
        /\ declared => length[1] = Length(Len(body))
    BY <1>2
  <1>10. d \in 0..1 /\ (declared => d = 1)
    OBVIOUS
  <1>11. one \in Seq(S) /\ Len(one) = 1 /\ one[1] = Status(status)
    <2>1. /\ one \in Seq(S) /\ Len(one) = Len(first) + Len(<< >>)
          /\ \A i \in 1..Len(first) : one[i] = first[i]
      BY <1>4, <1>8, Together
    <2> QED
      BY <1>8, <2>1
  <1>12. /\ two \in Seq(S) /\ Len(two) = 1 + d /\ two[1] = Status(status)
         /\ declared => two[2] = Length(Len(body))
    <2>1. /\ two \in Seq(S) /\ Len(two) = Len(one) + Len(length)
          /\ \A i \in 1..Len(one) : two[i] = one[i]
          /\ \A i \in 1..Len(length) : two[Len(one) + i] = length[i]
      <3>1. one \in Seq(S) /\ length \in Seq(S)
        BY <1>9, <1>11
      <3> QED
        BY <1>5, <3>1, Together
    <2>2. declared => two[1 + 1] = length[1]
      BY <1>9, <1>10, <1>11, <2>1
    <2>3. two[1] = one[1]
      BY <1>11, <2>1
    <2> QED
      BY <1>9, <1>11, <2>1, <2>2, <2>3
  <1>13. /\ three \in Seq(S) /\ Len(three) = d + 2 /\ three[1] = Status(status)
         /\ declared => three[2] = Length(Len(body))
         /\ three[d + 2] = Blank
    <2>1. /\ three \in Seq(S) /\ Len(three) = Len(two) + Len(blank)
          /\ \A i \in 1..Len(two) : three[i] = two[i]
          /\ \A i \in 1..Len(blank) : three[Len(two) + i] = blank[i]
      <3>1. two \in Seq(S) /\ blank \in Seq(S)
        BY <1>8, <1>12
      <3> QED
        BY <1>6, <3>1, Together
    <2>2. three[1] = two[1] /\ (declared => three[2] = two[2])
      BY <1>10, <1>12, <2>1
    <2>3. three[1 + d + 1] = blank[1] /\ 1 + d + 1 = d + 2
      BY <1>8, <1>10, <1>12, <2>1
    <2>4. Len(three) = d + 2
      BY <1>8, <1>10, <1>12, <2>1
    <2> QED
      BY <1>8, <1>12, <2>1, <2>2, <2>3, <2>4
  <1>14. /\ whole \in Seq(S) /\ Len(whole) = d + 2 + Len(body)
         /\ \A i \in 1..d + 2 : whole[i] = three[i]
         /\ \A i \in 1..Len(body) : whole[d + 2 + i] = body[i]
    <2>1. /\ whole \in Seq(S) /\ Len(whole) = Len(three) + Len(body)
          /\ \A i \in 1..Len(three) : whole[i] = three[i]
          /\ \A i \in 1..Len(body) : whole[Len(three) + i] = body[i]
      <3>1. three \in Seq(S) /\ body \in Seq(S)
        BY <1>13
      <3> QED
        BY <1>0, <3>1, Together
    <2> QED
      BY <1>10, <1>13, <2>1
  <1>15. /\ whole[1] = three[1] /\ whole[d + 2] = three[d + 2]
         /\ declared => whole[2] = three[2]
    BY <1>10, <1>14
  <1> QED
    BY <1>7, <1>13, <1>14, <1>15

\* A refusal reads as one, wherever it is cut.
LEMMA RefusalIsHeard ==
    ASSUME NEW received \in {Forbidden} \cup Cuts(Forbidden)
    PROVE  \A r \in request(received) : r.status \in {403, 40}
  <1> DEFINE S == {Status(403), Status(40), Length(0), Length(0 \div 10), <<"other">>, Blank}
  <1>0. << >> \in Seq(S) /\ Len(<< >>) = 0
    OBVIOUS
  <1>1. Forbidden \in Seq(S) /\ Len(Forbidden) = 3 /\ Forbidden[1] = Status(403)
        /\ Forbidden[2] = Length(0) /\ Forbidden[3] = Blank
    <2> HIDE DEF S
    <2>1. Status(403) \in S /\ Length(0) \in S /\ Blank \in S
      BY DEF S
    <2>2. PICK yes \in BOOLEAN : yes = TRUE
      OBVIOUS
    <2>6. PICK d : d = IF yes THEN 1 ELSE 0
      OBVIOUS
    <2>7. PICK empty : empty = << >>
      OBVIOUS
    <2>8. empty \in Seq(S) /\ Len(empty) = 0 /\ Length(Len(empty)) \in S
      BY <2>7, <2>1, <1>0
    <2>3. PICK answer : answer = Answer(403, << >>, empty, yes)
      OBVIOUS
    <2>4. /\ answer \in Seq(S) /\ Len(answer) = d + 2 + Len(empty)
          /\ answer[1] = Status(403) /\ answer[d + 2] = Blank
          /\ yes => answer[2] = Length(Len(empty))
      <3>1. Status(403) \in S /\ Blank \in S /\ empty \in Seq(S) /\ Length(Len(empty)) \in S
        BY <2>1, <2>8
      <3> QED
        BY <2>3, <2>6, <3>1, AnswerParts
    <2>5. Forbidden = answer
      BY <2>2, <2>3, <2>7 DEF Forbidden
    <2>9. d = 1
      BY <2>2, <2>6
    <2> QED
      BY <2>2, <2>4, <2>5, <2>8, <2>9
  <1>2. received = << >> \/ received[1] \in {Status(403), Status(40)}
    <2>1. CASE received = Forbidden
      BY <1>1, <2>1
    <2>2. CASE received \in Cuts(Forbidden)
      <3>0. PICK k \in 1..3 :
               \E last \in {<< >>} \cup {<<p>> : p \in Pieces(Forbidden[k])} :
                  received = SubSeq(Forbidden, 1, k - 1) \o last
        <4>1. DOMAIN Forbidden = 1..3
          BY <1>1
        <4> QED
          BY <2>2, <4>1 DEF Cuts
      <3>1. PICK last \in {<< >>} \cup {<<p>> : p \in Pieces(Forbidden[k])} :
               received = SubSeq(Forbidden, 1, k - 1) \o last
        BY <3>0
      <3>2. Pieces(Forbidden[k]) \subseteq S
        <4>1. Status(403)[1] = "status" /\ Status(403)[2] = 403 /\ 403 \div 10 = 40
              /\ Length(0)[1] = "length" /\ Length(0)[2] = 0 /\ Blank[1] = "blank"
          BY DEF Status, Length, Blank
        <4> QED
          BY <1>1, <4>1 DEF Pieces
      <3>3. last \in Seq(S) /\ (last = << >> \/ \E p \in Pieces(Forbidden[k]) : last = <<p>>)
        <4>1. last = << >> \/ \E p \in Pieces(Forbidden[k]) : last = <<p>>
          BY <3>1
        <4>2. ASSUME NEW p \in Pieces(Forbidden[k]) PROVE <<p>> \in Seq(S)
          <5>1. p \in S
            BY <3>2
          <5> HIDE DEF S
          <5> QED
            BY <5>1
        <4> HIDE DEF S
        <4> QED
          BY <1>0, <4>1, <4>2
      <3>4. CASE k = 1
        <4>1. Status(403)[1] = "status" /\ Status(403)[2] = 403 /\ 403 \div 10 = 40
          BY DEF Status
        <4>2. Pieces(Forbidden[k]) = {Status(40)}
          BY <1>1, <3>4, <4>1 DEF Pieces
        <4>3. SubSeq(Forbidden, 1, 0) = << >>
          BY <1>1
        <4>4. << >> \o last = last
          BY <3>3
        <4> QED
          BY <3>1, <3>3, <3>4, <4>2, <4>3, <4>4
      <3>5. CASE k \in 2..3
        <4>0. PICK before : before = SubSeq(Forbidden, 1, k - 1)
          OBVIOUS
        <4>1. before \in Seq(S) /\ Len(before) = k - 1 /\ before[1] = Status(403)
          BY <1>1, <3>5, <4>0
        <4>3. received = before \o last
          BY <3>1, <4>0
        <4>4. \A i \in 1..Len(before) : received[i] = before[i]
          <5> HIDE DEF S
          <5> QED
            BY <3>3, <4>1, <4>3, Together
        <4>5. received[1] = before[1]
          BY <3>5, <4>1, <4>4
        <4> QED
          BY <4>1, <4>5
      <3> QED
        BY <3>4, <3>5
    <2> QED
      BY <2>1, <2>2
  <1>3. ASSUME NEW r \in request(received)
        PROVE  received # << >> /\ r.status = received[1][2]
    BY <1>3 DEF request
  <1>4. Status(403)[2] = 403 /\ Status(40)[2] = 40
    BY DEF Status
  <1> QED
    BY <1>2, <1>3, <1>4

\* So nothing is made of it.
LEMMA RefusalIsNoText ==
    ASSUME NEW received \in {Forbidden} \cup Cuts(Forbidden), NEW s
    PROVE  execute(received, s) = {}
  <1>1. \A r \in request(received) : r.status # 200
    BY RefusalIsHeard
  <1> QED
    BY <1>1 DEF execute

-----------------------------------------------------------------------------
(* The cipher, and a whole answer.                                         *)

\* A number is so many blocks and a rest.
LEMMA BlocksAndRest ==
    ASSUME NEW size \in Nat \ {0}, NEW n \in Nat
    PROVE  \E q \in Nat, r \in 0..size - 1 :
              q = n \div size /\ r = n % size /\ n = q * size + r
  <1>1. (n % size) = n - size * (n \div size)
    BY SMTT(60)
  <1>2. n \div size \in Nat /\ n % size \in 0..size - 1
    OBVIOUS
  <1>3. PICK q \in Nat : q = n \div size
    BY <1>2
  <1>4. PICK r \in 0..size - 1 : r = n % size
    BY <1>2
  <1>5. r = n - size * q
    BY <1>1, <1>3, <1>4
  <1>6. n = q * size + r
    BY <1>5
  <1> QED
    BY <1>3, <1>4, <1>6

\* Fewer blocks are shorter.
LEMMA FewerBlocks ==
    ASSUME NEW size \in Nat \ {0}, NEW a \in Nat, NEW b \in Nat
    PROVE  /\ a <= b => a * size <= b * size
           /\ a * size + size = (a + 1) * size
           /\ a < b => a * size + size <= b * size
           /\ a * size \in Nat
  <1>1. a * size \in Nat /\ a * size + size = (a + 1) * size
    OBVIOUS
  <1>2. a <= b => a * size <= b * size
    BY SMTT(30)
  <1>3. a < b => a * size + size <= b * size
    BY SMTT(30)
  <1> QED
    BY <1>1, <1>2, <1>3

\* A byte is in one of the blocks.
LEMMA BlockOf ==
    ASSUME NEW size \in Nat \ {0}, NEW n \in Nat, NEW i \in 1..n * size
    PROVE  \E q \in Nat, r \in 0..size - 1 :
              /\ q = (i - 1) \div size /\ r = (i - 1) % size
              /\ q + 1 \in 1..n /\ q * size + (r + 1) = i
  <1>0. i - 1 \in Nat /\ n * size \in Nat
    OBVIOUS
  <1>1. PICK q \in Nat, r \in 0..size - 1 :
           q = (i - 1) \div size /\ r = (i - 1) % size /\ i - 1 = q * size + r
    BY <1>0, BlocksAndRest
  <1>4. q * size \in Nat /\ (n <= q => n * size <= q * size)
    BY FewerBlocks
  <1>5. q < n
    BY <1>0, <1>1, <1>4
  <1>6. q * size + (r + 1) = i
    BY <1>0, <1>1, <1>4
  <1>7. q + 1 \in 1..n /\ r + 1 \in 1..size
    BY <1>5
  <1> QED
    BY <1>1, <1>6, <1>7

\* A padded text is one block longer than the whole blocks of the text.
LEMMA PaddedLength ==
    ASSUME NEW size \in Nat \ {0}, NEW n \in Nat
    PROVE  \E q \in Nat, pad \in 1..size :
              q = n \div size /\ pad = size - (n % size) /\ n + pad = (q + 1) * size
  <1>1. PICK q \in Nat, r \in 0..size - 1 :
           q = n \div size /\ r = n % size /\ n = q * size + r
    BY BlocksAndRest
  <1>4. q * size \in Nat /\ q * size + size = (q + 1) * size
    BY FewerBlocks
  <1>5. n + (size - r) = (q + 1) * size
    BY <1>1, <1>4
  <1>6. PICK pad \in 1..size : pad = size - r
    OBVIOUS
  <1>7. n + pad = (q + 1) * size
    BY <1>5, <1>6
  <1>8. pad = size - (n % size)
    <2>1. r = n % size
      BY <1>1
    <2> QED
      BY <1>6, <2>1, Z3
  <1> QED
    BY <1>1, <1>7, <1>8

\* What a padded text is made of.
PaddedItems(T) == T \cup {PadByte[k] : k \in 1..BlockSize}

\* A padded text has so many blocks and bytes, so many of them padding.
IsPadded(T, text, n, total, pad) ==
    /\ n = Len(text) \div BlockSize + 1 /\ total = n * BlockSize /\ pad <= total
    /\ padded(text) \in Seq(PaddedItems(T))
    /\ Len(padded(text)) = total
    /\ SubSeq(padded(text), 1, total - pad) = text
    /\ \A i \in total - pad + 1..total : padded(text)[i] = PadByte[pad]

\* A text with its padding: whole blocks, the text first.
LEMMA PaddedIs ==
    ASSUME NEW T, NEW text \in Seq(T)
    PROVE  \E n \in Nat, total \in Nat, pad \in 1..BlockSize :
              IsPadded(T, text, n, total, pad)
  <1>1. BlockSize \in Nat \ {0} /\ Len(text) \in Nat
    BY KlapAssumption
  <1>2. PICK q \in Nat, pad \in 1..BlockSize :
           /\ q = Len(text) \div BlockSize /\ pad = BlockSize - (Len(text) % BlockSize)
           /\ Len(text) + pad = (q + 1) * BlockSize
    BY <1>1, PaddedLength
  <1>3. PICK padding : padding = [i \in 1..pad |-> PadByte[pad]]
    OBVIOUS
  <1>4. PICK S : S = PaddedItems(T)
    OBVIOUS
  <1>5. padding \in Seq(S) /\ Len(padding) = pad /\ \A i \in 1..pad : padding[i] = PadByte[pad]
    <2>1. PadByte[pad] \in S
      BY <1>4 DEF PaddedItems
    <2> QED
      BY <1>3, <2>1
  <1>6. text \in Seq(S)
    BY <1>4 DEF PaddedItems
  <1>7. PICK P : P = text \o padding
    OBVIOUS
  <1>8. padded(text) = P
    BY <1>2, <1>3, <1>7 DEF padded
  <1>9. /\ P \in Seq(S) /\ Len(P) = Len(text) + Len(padding)
        /\ \A i \in 1..Len(text) : P[i] = text[i]
        /\ \A i \in 1..Len(padding) : P[Len(text) + i] = padding[i]
    <2>1. padding \in Seq(S)
      BY <1>5
    <2> QED
      BY <1>6, <1>7, <2>1, Together
  <1>10. PICK n \in Nat : n = q + 1
    OBVIOUS
  <1>11. PICK total \in Nat : total = n * BlockSize
    BY <1>1, <1>10
  <1>12. total = Len(text) + pad
    BY <1>2, <1>10, <1>11
  <1>13. Len(P) = total /\ pad <= total /\ total - pad = Len(text)
    BY <1>1, <1>5, <1>9, <1>12
  <1>14. SubSeq(P, 1, Len(text)) = text
    BY <1>1, <1>6, <1>9, <1>13
  <1>15. ASSUME NEW i \in total - pad + 1..total
         PROVE  P[i] = PadByte[pad]
    <2>1. i - Len(text) \in 1..pad /\ Len(text) + (i - Len(text)) = i
      BY <1>1, <1>12
    <2>2. P[Len(text) + (i - Len(text))] = padding[i - Len(text)]
      BY <1>5, <1>9, <2>1
    <2> QED
      BY <1>5, <2>1, <2>2
  <1>16. n = Len(text) \div BlockSize + 1
    BY <1>2, <1>10
  <1>17. SubSeq(P, 1, total - pad) = text
    BY <1>13, <1>14
  <1>18. IsPadded(T, text, n, total, pad)
    BY <1>4, <1>8, <1>9, <1>11, <1>13, <1>15, <1>16, <1>17 DEF IsPadded
  <1> QED
    BY <1>18

\* So many whole blocks.
LEMMA WholeBlocks ==
    ASSUME NEW size \in Nat \ {0}, NEW n \in Nat, NEW total \in Nat, total = n * size
    PROVE  total \div size = n
  <1>1. PICK q \in Nat, r \in 0..size - 1 :
           q = total \div size /\ r = total % size /\ total = q * size + r
    BY BlocksAndRest
  <1>2. q * size \in Nat /\ n * size \in Nat
    BY FewerBlocks
  <1>3. n < q => n * size + size <= q * size
    BY FewerBlocks
  <1>4. q < n => q * size + size <= n * size
    BY FewerBlocks
  <1>5. q = n
    BY <1>1, <1>2, <1>3, <1>4
  <1> QED
    BY <1>1, <1>5

\* The blocks of the encryption of P.
IsCipher(cipher, key, iv, P, n) ==
    /\ Len(P) = n * BlockSize
    /\ cipher = [b \in 1..n |-> encrypt_block(key, iv, SubSeq(P, 1, b * BlockSize))]

\* The blocks of an encrypted text.
LEMMA CipherIs ==
    ASSUME NEW T, NEW text \in Seq(T), NEW key, NEW iv, NEW n \in Nat,
           Len(padded(text)) = n * BlockSize
    PROVE  /\ IsCipher(aes128_cbc_encrypt(key, iv, text), key, iv, padded(text), n)
           /\ Len(aes128_cbc_encrypt(key, iv, text)) = n
           /\ DOMAIN aes128_cbc_encrypt(key, iv, text) = 1..n
  <1>1. BlockSize \in Nat \ {0}
    BY KlapAssumption
  <1>2. PICK total \in Nat : total = n * BlockSize
    BY <1>1
  <1>3. Len(padded(text)) \div BlockSize = n
    BY <1>1, <1>2, WholeBlocks
  <1>4. aes128_cbc_encrypt(key, iv, text)
           = [b \in 1..n |-> encrypt_block(key, iv, SubSeq(padded(text), 1, b * BlockSize))]
    BY <1>3 DEF aes128_cbc_encrypt
  <1>5. ASSUME NEW F(_) PROVE Len([b \in 1..n |-> F(b)]) = n
    OBVIOUS
  <1> QED
    BY <1>4, <1>5 DEF IsCipher

\* A block of an encrypted text, with the block before it, gives its bytes.
LEMMA BlockDecrypts ==
    ASSUME NEW S, NEW P \in Seq(S), NEW key, NEW iv, NEW n \in Nat,
           NEW cipher, IsCipher(cipher, key, iv, P, n),
           NEW b \in 1..n, NEW j \in 1..BlockSize
    PROVE  plain_block(key, iv, cipher, b)[j] = P[(b - 1) * BlockSize + j]
  <1>1. BlockSize \in Nat \ {0}
    BY KlapAssumption
  <1>2. PICK before \in Nat : before = (b - 1) * BlockSize
    BY <1>1
  <1>3. PICK end \in Nat : end = b * BlockSize
    BY <1>1
  <1>4. PICK total \in Nat : total = n * BlockSize
    BY <1>1
  <1>5. end = before + BlockSize /\ end <= total /\ (b = 1 => before = 0) /\ (b # 1 => before # 0)
    <2>1. b - 1 \in Nat /\ (b - 1) + 1 = b
      OBVIOUS
    <2>2. (b - 1) * BlockSize + BlockSize = ((b - 1) + 1) * BlockSize
      BY <1>1, <2>1, FewerBlocks
    <2>3. end = before + BlockSize
      BY <1>2, <1>3, <2>1, <2>2
    <2>4. b * BlockSize <= n * BlockSize
      BY <1>1, FewerBlocks
    <2>5. b = 1 => before = 0
      BY <1>1, <1>2
    <2>6. b # 1 => before # 0
      <3>1. b # 1 => 0 * BlockSize + BlockSize <= (b - 1) * BlockSize
        BY <1>1, <2>1, FewerBlocks
      <3>2. 0 * BlockSize = 0
        BY <1>1
      <3> QED
        BY <1>1, <1>2, <3>1, <3>2
    <2> QED
      BY <1>3, <1>4, <2>3, <2>4, <2>5, <2>6
  <1>6. PICK plain : plain = SubSeq(P, 1, end)
    OBVIOUS
  <1>7. Len(P) = total
    BY <1>4 DEF IsCipher
  <1>8. /\ plain \in Seq(S) /\ Len(plain) = end
        /\ \A k \in 1..end : plain[k] = P[k]
    BY <1>5, <1>6, <1>7
  <1>9. cipher[b] = <<"block", key, iv, plain>>
    BY <1>3, <1>6 DEF encrypt_block, IsCipher
  <1>10. cipher[b][2] = key /\ cipher[b][3] = iv /\ cipher[b][4] = plain
    BY <1>9
  <1>11. Len(cipher[b][4]) - BlockSize = before
    <2>1. end - BlockSize = before
      BY <1>1, <1>5
    <2>2. Len(cipher[b][4]) = end
      BY <1>8, <1>10
    <2> QED
      BY <2>1, <2>2
  <1>12. chained_to(cipher[b]) = IF b = 1 THEN iv ELSE cipher[b - 1]
    <2>1. CASE b = 1
      BY <1>5, <1>10, <1>11, <2>1 DEF chained_to
    <2>2. CASE b # 1
      <3>1. SubSeq(plain, 1, before) = SubSeq(P, 1, before)
        BY <1>1, <1>5, <1>7, <1>8
      <3>2. cipher[b - 1] = encrypt_block(key, iv, SubSeq(P, 1, (b - 1) * BlockSize))
        BY <2>2 DEF IsCipher
      <3>3. chained_to(cipher[b]) = encrypt_block(key, iv, SubSeq(plain, 1, before))
        BY <1>5, <1>10, <1>11, <2>2 DEF chained_to
      <3> QED
        BY <1>2, <2>2, <3>1, <3>2, <3>3
    <2> QED
      BY <2>1, <2>2
  <1>13. plain_block(key, iv, cipher, b) = SubSeq(plain, before + 1, end)
    BY <1>8, <1>10, <1>11, <1>12 DEF plain_block, decrypt_block
  <1>14. SubSeq(plain, before + 1, end)[j] = plain[before + j]
    <2>1. plain \in Seq(S) /\ Len(plain) = end
      BY <1>8
    <2>2. before + 1 \in 1..end /\ j \in 1..end - (before + 1) + 1 /\ (before + 1) + j - 1 = before + j
      BY <1>1, <1>5
    <2>3. SubSeq(plain, before + 1, end)[j] = plain[(before + 1) + j - 1]
      BY <2>1, <2>2
    <2> QED
      BY <2>2, <2>3
  <1>15. before + j \in 1..end /\ (b - 1) * BlockSize + j = before + j
    BY <1>1, <1>2, <1>5
  <1> QED
    BY <1>8, <1>13, <1>14, <1>15

\* An encrypted block is not what is left of one.
LEMMA BlocksAreWhole ==
    ASSUME NEW key, NEW iv, NEW plain
    PROVE  encrypt_block(key, iv, plain) # Piece
  <1>1. encrypt_block(key, iv, plain)[1] = "block" /\ Piece[1] = "piece"
    BY DEF encrypt_block, Piece
  <1> QED
    BY <1>1

\* Decryption gives back what was encrypted: crypto.rs, for every text, key,
\* vector and block size.
THEOREM DecryptsWhatItEncrypted ==
    ASSUME NEW T, NEW text \in Seq(T), NEW key, NEW iv
    PROVE  text \in aes128_cbc_decrypt(key, iv, aes128_cbc_encrypt(key, iv, text))
  <1>1. PICK n \in Nat, total \in Nat, pad \in 1..BlockSize :
           IsPadded(T, text, n, total, pad)
    BY PaddedIs
  <1>2. PICK P : P = padded(text)
    OBVIOUS
  <1>3. PICK S : S = PaddedItems(T)
    OBVIOUS
  <1>4. /\ P \in Seq(S) /\ Len(P) = total /\ Len(P) = n * BlockSize
        /\ SubSeq(P, 1, total - pad) = text
        /\ \A i \in total - pad + 1..total : P[i] = PadByte[pad]
    BY <1>1, <1>2, <1>3 DEF IsPadded
  <1>5. PICK cipher : cipher = aes128_cbc_encrypt(key, iv, text)
    OBVIOUS
  <1>6. /\ IsCipher(cipher, key, iv, P, n)
        /\ Len(cipher) = n /\ DOMAIN cipher = 1..n
    <2>1. Len(padded(text)) = n * BlockSize
      BY <1>1 DEF IsPadded
    <2> QED
      BY <1>2, <1>5, <2>1, CipherIs
  <1>7. cipher # << >>
    <2>1. BlockSize \in Nat \ {0} /\ Len(text) \in Nat
      BY KlapAssumption
    <2>2. PICK q \in Nat : q = Len(text) \div BlockSize
      BY <2>1, BlocksAndRest
    <2>3. n > 0
      BY <1>1, <2>2 DEF IsPadded
    <2>4. Len(<< >>) = 0
      OBVIOUS
    <2> QED
      BY <1>6, <2>3, <2>4
  <1>8. Piece \notin Range(cipher)
    <2>1. \A b \in 1..n : cipher[b] # Piece
      BY <1>6, BlocksAreWhole DEF IsCipher
    <2> QED
      BY <1>6, <2>1 DEF Range
  <1>9. ASSUME NEW i \in 1..total PROVE plain_byte(key, iv, cipher, i) = P[i]
    <2>1. i \in 1..n * BlockSize /\ BlockSize \in Nat \ {0}
      BY <1>1, KlapAssumption DEF IsPadded
    <2>2. PICK q \in Nat, r \in 0..BlockSize - 1 :
             /\ q = (i - 1) \div BlockSize /\ r = (i - 1) % BlockSize
             /\ q + 1 \in 1..n /\ q * BlockSize + (r + 1) = i
      BY <2>1, BlockOf
    <2>3. PICK b \in 1..n : b = q + 1
      BY <2>2
    <2>4. PICK j \in 1..BlockSize : j = r + 1
      BY <2>1, <2>2
    <2>5. i = (b - 1) * BlockSize + j
      <3>1. b - 1 = q
        BY <2>2, <2>3
      <3> QED
        BY <2>2, <2>4, <3>1
    <2>6. plain_block(key, iv, cipher, b)[j] = P[i]
      <3>1. P \in Seq(S) /\ IsCipher(cipher, key, iv, P, n)
        BY <1>4, <1>6
      <3> QED
        <4>1. plain_block(key, iv, cipher, b)[j]
                 = P[(b - 1) * BlockSize + j]
          BY <3>1, BlockDecrypts
        <4> QED
          BY <2>5, <4>1
    <2> QED
      BY <2>2, <2>3, <2>4, <2>6 DEF plain_byte
  <1>10. [i \in 1..total |-> plain_byte(key, iv, cipher, i)] = P
    <2>1. DOMAIN P = 1..total /\ P = [i \in 1..total |-> P[i]]
      BY <1>4
    <2> QED
      BY <1>9, <2>1
  <1>11. aes128_cbc_decrypt(key, iv, cipher) = strip_padding(P)
    <2>1. Len(cipher) * BlockSize = total
      BY <1>1, <1>6 DEF IsPadded
    <2> QED
      BY <1>7, <1>8, <1>10, <2>1 DEF aes128_cbc_decrypt
  <1>12. text \in strip_padding(P)
    <2>1. \A i \in Len(P) - pad + 1..Len(P) : P[i] = PadByte[pad]
      BY <1>4
    <2>2. text = SubSeq(P, 1, Len(P) - pad)
      BY <1>4
    <2> QED
      BY <2>1, <2>2 DEF strip_padding
  <1> QED
    BY <1>5, <1>11, <1>12

\* The blank line is found.
LEMMA HeadersEnd ==
    ASSUME NEW T, NEW a \in Seq(T), NEW d \in 0..1, d + 2 <= Len(a),
           a[d + 2] = Blank, d = 1 => a[2] # Blank
    PROVE  header_end(a) = d + 2
  <1> DEFINE X == {i \in 2..Len(a) : a[i] = Blank} \cup {Len(a) + 1}
  <1>1. Len(a) \in Nat /\ d + 2 \in X
    OBVIOUS
  <1>2. ASSUME NEW y \in X PROVE y \in Int /\ d + 2 <= y
    BY <1>1, <1>2
  <1>3. header_end(a) = Min(X)
    BY DEF header_end
  <1>4. PICK e : e = d + 2
    OBVIOUS
  <1> HIDE DEF X
  <1>5. e \in X /\ \A y \in X : y \in Int /\ e <= y
    BY <1>1, <1>2, <1>4
  <1>6. Min(X) \in X /\ \A y \in X : Min(X) <= y
    BY <1>5 DEF Min
  <1>7. Min(X) = e
    BY <1>5, <1>6
  <1> QED
    BY <1>3, <1>4, <1>7

\* An answer that is heard whole is read whole.
LEMMA WholeAnswerIsRead ==
    ASSUME NEW S, NEW body \in Seq(S), NEW declared \in BOOLEAN, Len(body) <= MaxBody,
           \A i \in 1..Len(body) : body[i] # Piece
    PROVE  \E r \in request(Answer(200, << >>, body, declared)) : r.status = 200 /\ r.body = body
  <1>1. PICK T : T = S \cup {Status(200), Length(Len(body)), Blank}
    OBVIOUS
  <1>2. PICK d \in 0..1 : d = IF declared THEN 1 ELSE 0
    OBVIOUS
  <1>3. PICK a : a = Answer(200, << >>, body, declared)
    OBVIOUS
  <1>4. PICK n \in Nat : n = Len(body)
    OBVIOUS
  <1>5. /\ a \in Seq(T) /\ Len(a) = d + 2 + n
        /\ a[1] = Status(200) /\ a[d + 2] = Blank
        /\ declared => a[2] = Length(n)
        /\ \A i \in 1..n : a[d + 2 + i] = body[i]
    <2>1. body \in Seq(T) /\ Status(200) \in T /\ Length(Len(body)) \in T /\ Blank \in T
      BY <1>1
    <2>2. /\ a \in Seq(T) /\ Len(a) = d + 2 + Len(body)
          /\ a[1] = Status(200) /\ a[d + 2] = Blank
          /\ declared => a[2] = Length(Len(body))
          /\ \A i \in 1..Len(body) : a[d + 2 + i] = body[i]
      BY SMTT(30), <1>2, <1>3, <2>1, AnswerParts
    <2> QED
      BY <1>4, <2>2
  <1>6. /\ Status(200)[1] = "status" /\ Status(200)[2] = 200
        /\ Length(n)[1] = "length" /\ Length(n)[2] = n /\ Blank[1] = "blank"
    BY DEF Status, Length, Blank
  <1>7. header_end(a) = d + 2
    <2>1. d = 1 => a[2] # Blank
      BY <1>2, <1>5, <1>6
    <2>2. d + 2 <= Len(a)
      BY <1>5
    <2> QED
      BY <1>5, <2>1, <2>2, HeadersEnd
  <1>8. headers_of(a) = IF declared THEN {Length(n)} ELSE {}
    <2>1. headers_of(a) = Range(SubSeq(a, 2, d + 1))
      BY <1>7 DEF headers_of
    <2>2. PICK items : items = SubSeq(a, 2, d + 1)
      OBVIOUS
    <2>3. Len(items) = d /\ DOMAIN items = 1..d /\ (declared => items[1] = a[2])
      BY <1>2, <1>5, <2>2
    <2>4. Range(items) = {items[i] : i \in 1..d}
      BY <2>3 DEF Range
    <2>5. CASE declared
      <3>1. 1..d = {1}
        BY <1>2, <2>5
      <3>2. Range(items) = {items[1]}
        BY <2>4, <3>1
      <3>3. items[1] = Length(n)
        BY <1>5, <2>3, <2>5
      <3> QED
        BY <2>1, <2>2, <2>5, <3>2, <3>3
    <2>6. CASE ~declared
      <3>1. 1..d = {}
        BY <1>2, <2>6
      <3> QED
        BY <2>1, <2>2, <2>4, <2>6, <3>1
    <2> QED
      BY <2>5, <2>6
  <1>9. <<"chunked">> \notin headers_of(a)
    <2>1. <<"chunked">>[1] = "chunked"
      OBVIOUS
    <2> QED
      BY <1>6, <1>8, <2>1
  <1>10. declared_length(a) = IF declared THEN {n} ELSE {}
    <2>1. PICK declaring : declaring = {i \in 2..d + 1 : a[i][1] = "length"}
      OBVIOUS
    <2>2. declared_length(a) = {a[i][2] : i \in {i \in declaring : \A j \in declaring : j <= i}}
      BY <1>7, <2>1 DEF declared_length
    <2>3. CASE declared
      <3>1. 2..d + 1 = {2} /\ a[2][1] = "length" /\ a[2][2] = n
        BY <1>2, <1>5, <1>6, <2>3
      <3>2. declaring = {2}
        BY <2>1, <3>1
      <3> QED
        BY <2>2, <2>3, <3>1, <3>2
    <2>4. CASE ~declared
      <3>1. 2..d + 1 = {}
        BY <1>2, <2>4
      <3> QED
        BY <2>1, <2>2, <2>4, <3>1
    <2> QED
      BY <2>3, <2>4
  <1>11. SubSeq(a, d + 2 + 1, Len(a)) = body
    <2>1. PICK rest : rest = SubSeq(a, d + 2 + 1, Len(a))
      OBVIOUS
    <2>2. /\ rest \in Seq(T) /\ Len(rest) = n
          /\ \A i \in 1..n : rest[i] = a[d + 2 + i]
      BY <1>5, <2>1
    <2>3. body \in Seq(T)
      BY <1>1
    <2>4. Len(rest) = Len(body) /\ \A i \in 1..Len(rest) : rest[i] = body[i]
      BY <1>4, <1>5, <2>2
    <2>5. rest = body
      BY <2>2, <2>3, <2>4
    <2> QED
      BY <2>1, <2>5
  <1>12. body \in body_of(body, declared_length(a))
    <2>1. CASE declared
      <3>1. declared_length(a) = {n} /\ {n} # {}
        BY <1>10, <2>1
      <3>2. n <= MaxBody /\ n <= Len(body) /\ \A i \in 1..n : body[i] # Piece
        BY <1>4
      <3>3. SubSeq(body, 1, n) = body
        BY <1>4
      <3> QED
        BY <3>1, <3>2, <3>3 DEF body_of
    <2>2. CASE ~declared
      <3>1. declared_length(a) = {}
        BY <1>10, <2>2
      <3> QED
        BY <3>1 DEF body_of
    <2> QED
      BY <2>1, <2>2
  <1>13. a # << >>
    BY <1>5
  <1> DEFINE r == [status |-> a[1][2], headers |-> headers_of(a), body |-> body]
  <1>14. r \in request(a)
    <2>1. SubSeq(a, header_end(a) + 1, Len(a)) = body
      BY <1>7, <1>11
    <2> QED
      BY <1>9, <1>12, <1>13, <2>1 DEF request
  <1>15. r.status = 200 /\ r.body = body
    BY <1>5, <1>6
  <1> QED
    BY <1>3, <1>14, <1>15

\* What a plug answers is what the collector decrypts.
LEMMA AnswerIsDecrypted ==
    ASSUME NEW T, NEW text \in Seq(T), Len(text) \div BlockSize + 2 <= MaxBody,
           NEW s, NEW declared \in BOOLEAN
    PROVE  text \in execute(Encrypted(s, text, declared), s)
  <1>1. PICK keys : keys = derive_keys(s.seed, Auth)
    OBVIOUS
  <1>2. PICK iv : iv = iv_of(keys, s.seq)
    OBVIOUS
  <1>3. PICK cipher : cipher = aes128_cbc_encrypt(keys.key, iv, text)
    OBVIOUS
  <1>4. PICK sig : sig = sha256(<<keys.sig, s.seq, cipher>>)
    OBVIOUS
  <1>5. PICK first : first = <<sig>>
    OBVIOUS
  <1>6. PICK payload : payload = first \o cipher
    OBVIOUS
  <1>7. encrypt_payload(keys, s.seq, text) = payload
    BY <1>2, <1>3, <1>4, <1>5, <1>6 DEF encrypt_payload
  <1>8. PICK n \in Nat, total \in Nat, pad \in 1..BlockSize : IsPadded(T, text, n, total, pad)
    BY PaddedIs
  <1>9. IsCipher(cipher, keys.key, iv, padded(text), n) /\ Len(cipher) = n
    <2>1. Len(padded(text)) = n * BlockSize
      BY <1>8 DEF IsPadded
    <2> QED
      BY <1>3, <2>1, CipherIs
  <1>10. \A b \in 1..n : cipher[b] # Piece
    BY <1>9, BlocksAreWhole DEF IsCipher
  <1>11. sig # Piece
    <2>1. sig[1] = "sha256" /\ Piece[1] = "piece"
      BY <1>4 DEF sha256, Piece
    <2> QED
      BY <2>1
  <1>12. PICK S : S = {sig} \cup {cipher[b] : b \in 1..n}
    OBVIOUS
  <1>13. cipher \in Seq(S)
    <2>1. cipher = [b \in 1..n |-> cipher[b]]
      BY <1>9 DEF IsCipher
    <2>2. \A b \in 1..n : cipher[b] \in S
      BY <1>12
    <2> QED
      BY <2>1, <2>2
  <1>14. first \in Seq(S) /\ Len(first) = 1 /\ first[1] = sig
    <2>1. sig \in S
      BY <1>12
    <2> QED
      BY <1>5, <2>1
  <1>15. /\ payload \in Seq(S) /\ Len(payload) = Len(first) + Len(cipher)
         /\ \A i \in 1..Len(first) : payload[i] = first[i]
         /\ \A i \in 1..Len(cipher) : payload[Len(first) + i] = cipher[i]
    <2>1. first \in Seq(S)
      BY <1>14
    <2> QED
      BY <1>6, <1>13, <2>1, Together
  <1>16. /\ Len(payload) = 1 + n /\ payload[1] = sig
         /\ \A i \in 1..n : payload[1 + i] = cipher[i]
    BY <1>9, <1>14, <1>15
  <1>17. Len(payload) <= MaxBody
    <2>1. PICK q \in Nat : q = Len(text) \div BlockSize
      BY KlapAssumption, BlocksAndRest
    <2>2. n = q + 1
      BY <1>8, <2>1 DEF IsPadded
    <2>3. q + 2 <= MaxBody
      BY <2>1
    <2> QED
      BY <1>16, <2>2, <2>3
  <1>18. \A i \in 1..Len(payload) : payload[i] # Piece
    <2> SUFFICES ASSUME NEW i \in 1..1 + n PROVE payload[i] # Piece
      BY <1>16
    <2>1. CASE i = 1
      BY <1>11, <1>16, <2>1
    <2>2. CASE i # 1
      <3>1. i - 1 \in 1..n /\ 1 + (i - 1) = i
        BY <2>2
      <3>2. payload[1 + (i - 1)] = cipher[i - 1]
        BY <1>16, <3>1
      <3> QED
        BY <1>10, <3>1, <3>2
    <2> QED
      BY <2>1, <2>2
  <1>19. PICK r \in request(Answer(200, << >>, payload, declared)) :
            r.status = 200 /\ r.body = payload
    <2>1. payload \in Seq(S)
      BY <1>15
    <2> QED
      BY <1>17, <1>18, <2>1, WholeAnswerIsRead
  <1>20. Tail(payload) = cipher
    <2>1. PICK rest : rest = Tail(payload)
      OBVIOUS
    <2>2. /\ rest \in Seq(S) /\ Len(rest) = n
          /\ \A i \in 1..n : rest[i] = payload[1 + i]
      BY <1>15, <1>16, <2>1
    <2>3. Len(rest) = Len(cipher) /\ \A i \in 1..Len(rest) : rest[i] = cipher[i]
      BY <1>9, <1>16, <2>2
    <2>4. rest = cipher
      BY <1>13, <2>2, <2>3
    <2> QED
      BY <2>1, <2>4
  <1>21. text \in decrypt_payload(keys, s.seq, payload)
    <2>1. payload # << >> /\ payload # <<Piece>>
      <3>1. Len(payload) # 0 /\ payload[1] # Piece
        BY <1>11, <1>16
      <3>2. Len(<< >>) = 0 /\ <<Piece>>[1] = Piece
        OBVIOUS
      <3> QED
        BY <3>1, <3>2
    <2>2. text \in aes128_cbc_decrypt(keys.key, iv, cipher)
      BY <1>3, DecryptsWhatItEncrypted
    <2> QED
      BY <1>2, <1>20, <2>1, <2>2 DEF decrypt_payload
  <1>22. r \in {a \in request(Encrypted(s, text, declared)) : a.status = 200}
    BY <1>1, <1>7, <1>19 DEF Encrypted
  <1> QED
    BY <1>1, <1>19, <1>21, <1>22 DEF execute

-----------------------------------------------------------------------------
(* The session.                                                            *)

\* The types of a plug's side of a session.
PlugSide == [begun : [seed : Seeds \cup {0}, seq : 0..Words - 1],
             seed : Seeds \cup {0}, last : 0..Words - 1, served : 0..MaxRequests]

\* The constants of a session are the numbers they are meant to be.
LEMMA SessionConstants ==
    /\ Words \in Nat \ {0} /\ MaxRequests \in 1..Words - 1
    /\ Seeds \subseteq Nat \ {0} /\ 0 \notin Seeds
    /\ MaxLosses \in Nat /\ MaxTakeovers \in Nat
  BY KlapAssumption, SessionAssumption

\* What is typed without a session.
LEMMA UnusedFacts ==
    /\ NoSession \in [seed : Seeds \cup {0}, seq : 0..Words - 1]
    /\ NoSession.seed = 0 /\ NoSession.seq = 0
    /\ Unused \in PlugSide /\ Unused.seed = 0 /\ Unused.begun = NoSession
    /\ Unused.served = 0
  <1>1. NoSession \in [seed : Seeds \cup {0}, seq : 0..Words - 1]
    BY SessionConstants DEF NoSession
  <1> QED
    BY <1>1, SessionConstants DEF NoSession, Unused, PlugSide

\* Nothing is known of a session at first.
LEMMA SessionStarts == SessionInit => SessionInv
  <1> SUFFICES ASSUME SessionInit PROVE SessionInv
    OBVIOUS
  <1>1. /\ strict \in BOOLEAN /\ holder \in Holders /\ plug = [p \in Holders |-> Unused]
        /\ stage = "sleep" /\ session = NoSession /\ name = {} /\ sent = {} /\ lost = FALSE
        /\ line = {} /\ losses = 0 /\ takeovers = 0
    BY DEF SessionInit
  <1>2. plug \in [Holders -> PlugSide]
    BY <1>1, UnusedFacts
  <1>3. SessionTypeOK
    <2>1. losses \in 0..MaxLosses /\ takeovers \in 0..MaxTakeovers
      BY <1>1, SessionConstants
    <2>2. sent \subseteq (0..Words - 1) \X {"name", "energy"} /\ (stage = "append" <=> line # {})
      BY <1>1
    <2>3. session \in [seed : Seeds \cup {0}, seq : 0..Words - 1]
      BY <1>1, UnusedFacts
    <2> QED
      BY <1>1, <1>2, <2>1, <2>2, <2>3 DEF SessionTypeOK, PlugSide
  <1>4. PlugsCount
    BY <1>1 DEF PlugsCount
  <1>5. OneTextPerIv
    BY <1>1 DEF OneTextPerIv
  <1> QED
    BY <1>3, <1>4, <1>5 DEF SessionInv

\* A loss is counted up to the bound.
LEMMA LossIsCounted ==
    ASSUME losses \in 0..MaxLosses, NEW received, NEW answer,
           Lose \/ UNCHANGED losses \/ Receive(received, answer)
    PROVE  losses' \in 0..MaxLosses
  BY SessionConstants DEF Lose, Receive

\* Without a session there is nothing to hold but the types.
LEMMA NothingWithoutSession ==
    ASSUME SessionInv, session' = NoSession, sent' = {}, lost' \in BOOLEAN, line' = {},
           stage' = "sleep", UNCHANGED <<strict, holder, takeovers>>,
           plug' \in [Holders -> PlugSide], losses' \in 0..MaxLosses,
           \A p \in Holders \ {holder} : plug'[p] = plug[p]
    PROVE  SessionInv'
  <1>1. SessionTypeOK'
    BY UnusedFacts DEF SessionInv, SessionTypeOK, PlugSide
  <1>2. PlugsCount'
    BY DEF SessionInv, PlugsCount
  <1>3. OneTextPerIv'
    BY DEF OneTextPerIv
  <1> QED
    BY <1>1, <1>2, <1>3 DEF SessionInv

\* The handshake begins with a seed that no plug has.
LEMMA Handshake1Keeps == SessionInv /\ Handshake1 => SessionInv'
  <1> SUFFICES ASSUME SessionInv, Handshake1 PROVE SessionInv'
    OBVIOUS
  <1>1. PICK seed \in FreshSeeds, seq \in 0..Words - 1, declared \in BOOLEAN :
           /\ plug' = [plug EXCEPT ![holder].begun = [seed |-> seed, seq |-> seq]]
           /\ losses' \in 0..MaxLosses
           /\ \/ session' = [seed |-> seed, seq |-> seq] /\ stage' = "handshake2"
              \/ session' = NoSession /\ stage' = "sleep"
    <2>1. losses \in 0..MaxLosses
      BY DEF SessionInv, SessionTypeOK
    <2> QED
      BY <2>1, LossIsCounted DEF Handshake1
  <1>2. /\ stage = "sleep" /\ session = NoSession /\ sent' = {} /\ lost' = FALSE
        /\ UNCHANGED <<strict, holder, name, line, takeovers>>
    BY DEF Handshake1
  <1>3. /\ holder \in Holders /\ plug \in [Holders -> PlugSide] /\ line = {}
        /\ \A p \in Holders \ {holder} : plug[p] = Unused
    BY <1>2 DEF SessionInv, SessionTypeOK, PlugsCount, PlugSide
  <1>4. seed \in Seeds /\ seed # 0 /\ plug[holder].seed # seed
    BY <1>3, SessionConstants DEF FreshSeeds
  <1>5. [seed |-> seed, seq |-> seq] \in [seed : Seeds \cup {0}, seq : 0..Words - 1]
    BY <1>4
  <1>6. /\ plug' \in [Holders -> PlugSide] /\ plug'[holder].seed = plug[holder].seed
        /\ \A p \in Holders \ {holder} : plug'[p] = plug[p]
    BY <1>1, <1>3, <1>5 DEF PlugSide
  <1>7. CASE session' = NoSession /\ stage' = "sleep"
    BY <1>1, <1>2, <1>3, <1>6, <1>7, NothingWithoutSession
  <1>8. CASE session' = [seed |-> seed, seq |-> seq] /\ stage' = "handshake2"
    <2>1. session'.seed = seed
      BY <1>8
    <2>2. SessionTypeOK'
      BY <1>1, <1>2, <1>3, <1>4, <1>5, <1>6, <1>8, <2>1
      DEF SessionInv, SessionTypeOK, PlugSide
    <2>3. PlugsCount'
      BY <1>2, <1>3, <1>4, <1>6, <2>1 DEF PlugsCount
    <2>4. OneTextPerIv'
      BY <1>2 DEF OneTextPerIv
    <2> QED
      BY <2>2, <2>3, <2>4 DEF SessionInv
  <1> QED
    BY <1>1, <1>7, <1>8

\* The plug at the address opens the session, with nothing counted.
LEMMA Handshake2Keeps == SessionInv /\ Handshake2 => SessionInv'
  <1> SUFFICES ASSUME SessionInv, Handshake2 PROVE SessionInv'
    OBVIOUS
  <1> DEFINE knows == /\ plug[holder].begun = session
                      /\ our_proof(session.seed, Auth)
                           = our_proof(session.seed, auth_hash(Account(holder)))
             answer == IF knows THEN Answer(200, << >>, << >>, TRUE) ELSE Forbidden
             opened == [begun |-> NoSession, seed |-> session.seed,
                        last |-> session.seq, served |-> 0]
  <1>1. PICK received \in {answer} \cup Cuts(answer) :
           /\ plug' = IF ~knows THEN plug ELSE [plug EXCEPT ![holder] = opened]
           /\ Receive(received, answer)
           /\ IF \E r \in request(received) : r.status = 200
              THEN session' = session /\ stage' = IF name = {} THEN "name" ELSE "energy"
              ELSE session' = NoSession /\ stage' = "sleep"
    BY DEF Handshake2
  <1>2. /\ stage = "handshake2" /\ UNCHANGED <<strict, holder, name, sent, lost, line, takeovers>>
    BY DEF Handshake2
  <1>3. /\ holder \in Holders /\ plug \in [Holders -> PlugSide] /\ line = {} /\ sent = {}
        /\ session \in [seed : Seeds \cup {0}, seq : 0..Words - 1] /\ session.seed # 0
        /\ losses \in 0..MaxLosses /\ lost \in BOOLEAN
        /\ \A p \in Holders \ {holder} : plug[p] = Unused
    BY <1>2 DEF SessionInv, SessionTypeOK, PlugsCount, PlugSide
  <1>4. losses' \in 0..MaxLosses
    BY <1>1, <1>3, LossIsCounted
  <1>5. opened \in PlugSide
    BY <1>3, UnusedFacts, SessionConstants DEF PlugSide
  <1> HIDE DEF opened
  <1>6. /\ plug' \in [Holders -> PlugSide]
        /\ \A p \in Holders \ {holder} : plug'[p] = plug[p]
        /\ knows => plug'[holder] = opened
    <2> HIDE DEF knows
    <2> QED
      BY <1>1, <1>3, <1>5
  <1>7. CASE session' = NoSession /\ stage' = "sleep"
    BY <1>2, <1>3, <1>4, <1>6, <1>7, NothingWithoutSession
  <1>8. CASE session' # NoSession \/ stage' # "sleep"
    <2>1. /\ \E r \in request(received) : r.status = 200
          /\ session' = session /\ stage' \in {"name", "energy"}
      BY <1>1, <1>8
    <2>2. knows
      <3> SUFFICES ASSUME ~knows PROVE FALSE
        OBVIOUS
      <3>1. received \in {Forbidden} \cup Cuts(Forbidden)
        OBVIOUS
      <3>2. \A r \in request(received) : r.status \in {403, 40}
        BY <3>1, RefusalIsHeard
      <3> QED
        BY <2>1, <3>2
    <2>3. /\ plug'[holder].seed = session.seed /\ plug'[holder].served = 0
          /\ plug'[holder].last = session.seq
      BY <1>6, <2>2 DEF opened
    <2>4. SessionTypeOK'
      <3>1. session'.seed # 0 /\ session' \in [seed : Seeds \cup {0}, seq : 0..Words - 1]
        BY <1>3, <2>1
      <3> QED
        BY <1>2, <1>3, <1>4, <1>6, <2>1, <3>1 DEF SessionInv, SessionTypeOK, PlugSide
    <2>5. PlugsCount'
      BY <1>2, <1>3, <1>6, <2>1, <2>3 DEF PlugsCount
    <2>6. OneTextPerIv'
      BY <1>2, <1>3 DEF OneTextPerIv
    <2> QED
      BY <2>4, <2>5, <2>6 DEF SessionInv
  <1> QED
    BY <1>7, <1>8

\* The number of the next request, and how the older ones are counted from it.
LEMMA SequencedFacts ==
    ASSUME NEW s \in [seed : Seeds \cup {0}, seq : 0..Words - 1]
    PROVE  /\ sequenced(s) \in [seed : Seeds \cup {0}, seq : 0..Words - 1]
           /\ sequenced(s).seed = s.seed /\ Since(s.seq, sequenced(s).seq) = 1
           /\ Since(sequenced(s).seq, sequenced(s).seq) = 0
           /\ \A n \in 0..Words - 1 :
                 /\ Since(n, s.seq) \in 0..Words - 1
                 /\ Since(n, s.seq) < Words - 1
                       => Since(n, sequenced(s).seq) = Since(n, s.seq) + 1
  <1>1. PICK seq \in 0..Words - 1 : seq = s.seq
    OBVIOUS
  <1>2. PICK next \in 0..Words - 1 :
           next = wrapping_add(seq) /\ next = IF seq = Words - 1 THEN 0 ELSE seq + 1
    BY WrapIs
  <1>3. sequenced(s) = [s EXCEPT !.seq = next]
    BY <1>1, <1>2 DEF sequenced
  <1>4. /\ sequenced(s) \in [seed : Seeds \cup {0}, seq : 0..Words - 1]
        /\ sequenced(s).seed = s.seed /\ sequenced(s).seq = next
    BY <1>3
  <1>5. ASSUME NEW n \in 0..Words - 1
        PROVE  /\ Since(n, seq) \in 0..Words - 1
               /\ Since(n, seq) < Words - 1 => Since(n, next) = Since(n, seq) + 1
    <2>1. CASE n <= seq
      BY <1>2, <2>1, SessionConstants DEF Since
    <2>2. CASE n > seq
      BY <1>2, <2>2, SessionConstants DEF Since
    <2> QED
      BY <2>1, <2>2, SessionConstants
  <1>6. Since(next, next) = 0 /\ Since(seq, seq) = 0
    BY SessionConstants DEF Since
  <1>7. Since(seq, next) = 1
    BY <1>5, <1>6, SessionConstants
  <1> QED
    BY <1>1, <1>4, <1>5, <1>6, <1>7

\* A plug counts a request it accepts.
LEMMA ServedFacts ==
    ASSUME SessionInv, NEW s \in [seed : Seeds \cup {0}, seq : 0..Words - 1],
           s.seed = session.seed, Accepts(holder, s)
    PROVE  /\ Served(holder, s.seq) \in [Holders -> PlugSide]
           /\ \A p \in Holders \ {holder} : Served(holder, s.seq)[p] = plug[p]
           /\ Served(holder, s.seq)[holder].last = s.seq
           /\ Served(holder, s.seq)[holder].served = plug[holder].served + 1
           /\ plug[holder].served \in 0..Words - 2
           /\ plug[holder].seed = session.seed
  <1>1. holder \in Holders /\ plug \in [Holders -> PlugSide]
    BY DEF SessionInv, SessionTypeOK, PlugSide
  <1>2. plug[holder].served \in 0..MaxRequests /\ plug[holder].served < MaxRequests
    BY <1>1 DEF Accepts, PlugSide
  <1>3. plug[holder].served + 1 \in 0..MaxRequests /\ plug[holder].served \in 0..Words - 2
    BY <1>2, SessionConstants
  <1>4. plug[holder] \in PlugSide
    BY <1>1
  <1>5. [plug[holder] EXCEPT !.last = s.seq, !.served = @ + 1] \in PlugSide
    BY <1>3, <1>4 DEF PlugSide
  <1>6. Served(holder, s.seq) = [plug EXCEPT ![holder] = [plug[holder] EXCEPT !.last = s.seq, !.served = @ + 1]]
    BY <1>1, <1>4 DEF Served, PlugSide
  <1> QED
    BY <1>1, <1>3, <1>4, <1>5, <1>6 DEF Accepts, PlugSide

\* A request that was sent and counted, by the plug too if it took it.
LEMMA RequestKeeps ==
    ASSUME SessionInv, stage \in {"name", "energy"},
           session' = sequenced(session),
           sent' = sent \cup {<<session'.seq, stage>>},
           stage' \in {"energy", "append"}, stage' = "append" <=> line' # {},
           UNCHANGED <<strict, holder, takeovers>>, losses' \in 0..MaxLosses,
           lost' \in BOOLEAN, ~lost' => ~lost,
           \/ Accepts(holder, session') /\ plug' = Served(holder, session'.seq)
           \/ plug' = plug /\ stage = "name" /\ (~Accepts(holder, session') \/ lost')
    PROVE  SessionInv'
  <1>1. /\ holder \in Holders /\ plug \in [Holders -> PlugSide]
        /\ session \in [seed : Seeds \cup {0}, seq : 0..Words - 1] /\ session.seed # 0
        /\ sent \subseteq (0..Words - 1) \X {"name", "energy"}
        /\ \A p \in Holders \ {holder} : plug[p] = Unused
        /\ stage = "name" => sent = {}
        /\ OneTextPerIv
    BY DEF SessionInv, SessionTypeOK, PlugsCount, PlugSide
  <1>2. session # NoSession
    BY <1>1, UnusedFacts
  <1>3. /\ session' \in [seed : Seeds \cup {0}, seq : 0..Words - 1]
        /\ session'.seed = session.seed /\ Since(session.seq, session'.seq) = 1
        /\ Since(session'.seq, session'.seq) = 0
        /\ \A n \in 0..Words - 1 :
              /\ Since(n, session.seq) \in 0..Words - 1
              /\ Since(n, session.seq) < Words - 1
                    => Since(n, session'.seq) = Since(n, session.seq) + 1
    BY <1>1, SequencedFacts
  <1>4. /\ plug' \in [Holders -> PlugSide]
        /\ \A p \in Holders \ {holder} : plug'[p] = Unused
    BY <1>1, <1>3, ServedFacts
  <1>5. SessionTypeOK'
    <2>1. <<session'.seq, stage>> \in (0..Words - 1) \X {"name", "energy"}
      BY <1>3
    <2>2. sent' \subseteq (0..Words - 1) \X {"name", "energy"}
      BY <1>1, <2>1
    <2>3. session'.seed # 0
      BY <1>1, <1>3
    <2>4. stage' \in {"sleep", "handshake2", "name", "energy", "append"} /\ stage' # "sleep"
      OBVIOUS
    <2>5. strict' \in BOOLEAN /\ holder' \in Holders /\ takeovers' \in 0..MaxTakeovers
      BY DEF SessionInv, SessionTypeOK
    <2> QED
      BY <1>3, <1>4, <2>2, <2>3, <2>4, <2>5 DEF SessionTypeOK, PlugSide
  <1>6. CASE Accepts(holder, session') /\ plug' = Served(holder, session'.seq)
    <2>1. /\ plug'[holder].last = session'.seq
          /\ plug'[holder].served = plug[holder].served + 1
          /\ plug[holder].served \in 0..Words - 2
          /\ plug[holder].seed = session.seed
      BY <1>3, <1>6, ServedFacts
    <2>2. \A a \in sent :
             Since(a[1], session.seq) <= plug[holder].served /\ a[1] \in 0..Words - 1
      BY <1>1, <1>2, <2>1 DEF SessionInv, PlugsCount
    <2>3. \A a \in sent : Since(a[1], session'.seq) \in 1..plug'[holder].served
      BY <1>3, <2>1, <2>2, SessionConstants
    <2>4. \A a \in sent' : Since(a[1], session'.seq) <= plug'[holder].served
      BY <1>3, <2>1, <2>3
    <2>5. PlugsCount'
      BY <1>4, <2>1, <2>4 DEF PlugsCount
    <2>6. \A a \in sent : a[1] # session'.seq
      BY <1>3, <2>3
    <2>7. OneTextPerIv'
      BY <1>1, <2>6 DEF OneTextPerIv
    <2> QED
      BY <1>5, <2>5, <2>7 DEF SessionInv
  <1>7. CASE plug' = plug /\ stage = "name" /\ (~Accepts(holder, session') \/ lost')
    <2>1. sent' = {<<session'.seq, stage>>}
      BY <1>1, <1>7
    <2>2. OneTextPerIv'
      BY <2>1 DEF OneTextPerIv
    <2>3. ASSUME plug[holder].seed = session.seed
          PROVE  plug[holder].served = 0 /\ lost'
      <3>1. plug[holder].served = 0 /\ (~lost => plug[holder].last = session.seq)
        BY <1>2, <1>7, <2>3 DEF SessionInv, PlugsCount
      <3>2. ~lost => Accepts(holder, session')
        BY <1>3, <2>3, <3>1, SessionConstants DEF Accepts
      <3> QED
        BY <1>7, <3>1, <3>2 DEF SessionInv, SessionTypeOK
    <2>4. PlugsCount'
      BY <1>3, <1>4, <1>7, <2>1, <2>3 DEF PlugsCount
    <2> QED
      BY <1>5, <2>2, <2>4 DEF SessionInv
  <1> QED
    BY <1>6, <1>7

\* What a request does to the plugs is typed, and only the one at the address
\* is concerned.
LEMMA PlugsStayTyped ==
    ASSUME SessionInv,
           plug' = IF Accepts(holder, sequenced(session))
                   THEN Served(holder, sequenced(session).seq) ELSE plug
    PROVE  /\ plug' \in [Holders -> PlugSide]
           /\ \A p \in Holders \ {holder} : plug'[p] = plug[p]
  <1>1. /\ plug \in [Holders -> PlugSide]
        /\ session \in [seed : Seeds \cup {0}, seq : 0..Words - 1]
    BY DEF SessionInv, SessionTypeOK, PlugSide
  <1>2. /\ sequenced(session) \in [seed : Seeds \cup {0}, seq : 0..Words - 1]
        /\ sequenced(session).seed = session.seed
    BY <1>1, SequencedFacts
  <1> QED
    BY <1>1, <1>2, ServedFacts

\* A request that does not arrive.
LEMMA UnheardKeeps == SessionInv /\ Unheard => SessionInv'
  <1> SUFFICES ASSUME SessionInv, Unheard PROVE SessionInv'
    OBVIOUS
  <1>1. /\ stage \in {"handshake2", "name", "energy"} /\ Lose /\ lost' = TRUE
        /\ UNCHANGED <<strict, holder, plug, name, line, takeovers>>
    BY DEF Unheard
  <1>2. losses' \in 0..MaxLosses
    BY <1>1, LossIsCounted DEF SessionInv, SessionTypeOK
  <1>3. line = {} /\ plug \in [Holders -> PlugSide]
    BY <1>1 DEF SessionInv, SessionTypeOK, PlugSide
  <1>4. CASE stage = "name"
    <2>1. /\ session' = sequenced(session) /\ stage' = "energy"
          /\ sent' = sent \cup {<<session'.seq, stage>>}
      BY <1>4 DEF Unheard
    <2> QED
      BY <1>1, <1>2, <1>3, <1>4, <2>1, RequestKeeps
  <1>5. CASE stage # "name"
    <2>1. session' = NoSession /\ stage' = "sleep" /\ sent' = {}
      BY <1>5 DEF Unheard
    <2> QED
      BY <1>1, <1>2, <1>3, <2>1, NothingWithoutSession
  <1> QED
    BY <1>4, <1>5

\* The name is asked for.
LEMMA AskNameKeeps == SessionInv /\ AskName => SessionInv'
  <1> SUFFICES ASSUME SessionInv, AskName PROVE SessionInv'
    OBVIOUS
  <1> DEFINE s == sequenced(session)
  <1>1. /\ stage = "name" /\ stage' = "energy"
        /\ session' = s /\ sent' = sent \cup {<<s.seq, stage>>}
        /\ plug' = IF Accepts(holder, s) THEN Served(holder, s.seq) ELSE plug
        /\ \E received, answer : Receive(received, answer)
        /\ UNCHANGED <<strict, holder, lost, line, takeovers>>
    BY DEF AskName
  <1>2. losses' \in 0..MaxLosses
    BY <1>1, LossIsCounted DEF SessionInv, SessionTypeOK
  <1>3. line = {} /\ lost \in BOOLEAN
    BY <1>1 DEF SessionInv, SessionTypeOK
  <1> HIDE DEF s
  <1>4. session' = sequenced(session) /\ sent' = sent \cup {<<session'.seq, stage>>}
    BY <1>1 DEF s
  <1>5. \/ Accepts(holder, session') /\ plug' = Served(holder, session'.seq)
        \/ plug' = plug /\ stage = "name" /\ ~Accepts(holder, session')
    BY <1>1
  <1> QED
    BY <1>1, <1>2, <1>3, <1>4, <1>5, RequestKeeps

\* The energy is asked for: only an accepted request leaves the session alone.
LEMMA AskEnergyKeeps == SessionInv /\ AskEnergy => SessionInv'
  <1> SUFFICES ASSUME SessionInv, AskEnergy PROVE SessionInv'
    OBVIOUS
  <1> DEFINE s == sequenced(session)
  <1>1. PICK doc \in EnergyDocs, declared \in BOOLEAN :
           \E received \in {Answered(s, doc.text, declared)} \cup Cuts(Answered(s, doc.text, declared)) :
              /\ plug' = IF Accepts(holder, s) THEN Served(holder, s.seq) ELSE plug
              /\ IF doc.good THEN Receive(received, Answered(s, doc.text, declared)) ELSE Lose
              /\ line' = {[values |-> v, name |-> name, meant |-> doc.values] :
                             v \in UNION {measured(t) : t \in execute(received, s)}}
              /\ session' = IF line' = {} THEN after_failure ELSE s
              /\ sent' = IF line' = {} THEN {} ELSE sent \cup {<<s.seq, stage>>}
    BY DEF AskEnergy
  <1>2. PICK received \in {Answered(s, doc.text, declared)} \cup Cuts(Answered(s, doc.text, declared)) :
              /\ plug' = IF Accepts(holder, s) THEN Served(holder, s.seq) ELSE plug
              /\ IF doc.good THEN Receive(received, Answered(s, doc.text, declared)) ELSE Lose
              /\ line' = {[values |-> v, name |-> name, meant |-> doc.values] :
                             v \in UNION {measured(t) : t \in execute(received, s)}}
              /\ session' = IF line' = {} THEN after_failure ELSE s
              /\ sent' = IF line' = {} THEN {} ELSE sent \cup {<<s.seq, stage>>}
    BY <1>1
  <1>3. /\ stage = "energy"
        /\ stage' = IF line' # {} THEN "append" ELSE IF session' = NoSession THEN "sleep" ELSE "energy"
        /\ UNCHANGED <<strict, holder, name, lost, takeovers>>
    BY DEF AskEnergy
  <1>4. losses' \in 0..MaxLosses
    <2>1. losses \in 0..MaxLosses
      BY DEF SessionInv, SessionTypeOK
    <2> QED
      BY <1>2, <2>1, LossIsCounted
  <1>5. lost \in BOOLEAN
    BY DEF SessionInv, SessionTypeOK
  <1>6. CASE line' = {}
    <2>1. session' = NoSession /\ sent' = {} /\ stage' = "sleep"
      BY <1>2, <1>3, <1>6 DEF after_failure
    <2>2. /\ plug' \in [Holders -> PlugSide]
          /\ \A p \in Holders \ {holder} : plug'[p] = plug[p]
      BY <1>2, PlugsStayTyped
    <2> QED
      BY <1>3, <1>4, <1>5, <1>6, <2>1, <2>2, NothingWithoutSession
  <1>7. CASE line' # {}
    <2>1. Accepts(holder, s)
      <3> SUFFICES ASSUME ~Accepts(holder, s) PROVE FALSE
        OBVIOUS
      <3>1. Answered(s, doc.text, declared) = Forbidden
        BY DEF Answered
      <3>2. received \in {Forbidden} \cup Cuts(Forbidden)
        BY <1>2, <3>1
      <3>3. execute(received, s) = {}
        BY <3>2, RefusalIsNoText
      <3> QED
        BY <1>2, <1>7, <3>3
    <2> HIDE DEF s
    <2>2. session' = s /\ sent' = sent \cup {<<s.seq, stage>>} /\ stage' = "append"
      BY <1>2, <1>3, <1>7
    <2>3. session' = sequenced(session) /\ sent' = sent \cup {<<session'.seq, stage>>}
      BY <2>2 DEF s
    <2>4. Accepts(holder, session') /\ plug' = Served(holder, session'.seq)
      BY <1>2, <2>1, <2>2
    <2> QED
      BY <1>3, <1>4, <1>5, <1>7, <2>2, <2>3, <2>4, RequestKeeps
  <1> QED
    BY <1>6, <1>7

\* The line is appended.
LEMMA AppendLineKeeps == SessionInv /\ AppendLine => SessionInv'
  <1> SUFFICES ASSUME SessionInv, AppendLine PROVE SessionInv'
    OBVIOUS
  <1>1. /\ stage = "append" /\ line' = {} /\ stage' = "energy"
        /\ UNCHANGED <<strict, holder, plug, session, name, sent, lost, losses, takeovers>>
    BY DEF AppendLine
  <1>2. SessionTypeOK'
    BY <1>1 DEF SessionInv, SessionTypeOK
  <1>3. PlugsCount'
    BY <1>1 DEF SessionInv, PlugsCount
  <1>4. OneTextPerIv'
    BY <1>1 DEF SessionInv, OneTextPerIv
  <1> QED
    BY <1>2, <1>3, <1>4 DEF SessionInv

\* The address changes hands: nobody there knows the session.
LEMMA TakeoverKeeps == SessionInv /\ Takeover => SessionInv'
  <1> SUFFICES ASSUME SessionInv, Takeover PROVE SessionInv'
    OBVIOUS
  <1>1. /\ takeovers < MaxTakeovers /\ takeovers' = takeovers + 1
        /\ holder' \in Holders /\ plug' = [plug EXCEPT ![holder] = Unused]
        /\ UNCHANGED <<strict, stage, session, name, sent, lost, line, losses>>
    BY DEF Takeover
  <1>2. /\ holder \in Holders /\ plug \in [Holders -> PlugSide]
        /\ \A p \in Holders \ {holder} : plug[p] = Unused
        /\ takeovers \in 0..MaxTakeovers
        /\ IF stage = "sleep" THEN session = NoSession ELSE session.seed # 0
    BY DEF SessionInv, SessionTypeOK, PlugsCount, PlugSide
  <1>3. \A p \in Holders : plug'[p] = Unused
    BY <1>1, <1>2
  <1>4. plug' \in [Holders -> PlugSide] /\ takeovers' \in 0..MaxTakeovers
    BY <1>1, <1>2, UnusedFacts, SessionConstants
  <1>5. SessionTypeOK'
    BY <1>1, <1>4 DEF SessionInv, SessionTypeOK, PlugSide
  <1>6. session # NoSession => session.seed # 0
    BY <1>2
  <1>7. plug'[holder'].seed = 0
    BY <1>1, <1>3, UnusedFacts
  <1>8. stage \in {"handshake2", "name"} => sent = {}
    BY DEF SessionInv, PlugsCount
  <1>9. PlugsCount'
    BY <1>1, <1>3, <1>6, <1>7, <1>8 DEF PlugsCount
  <1>10. OneTextPerIv'
    BY <1>1 DEF SessionInv, OneTextPerIv
  <1> QED
    BY <1>5, <1>9, <1>10 DEF SessionInv

\* Every step keeps what holds of a session.
LEMMA SessionGoesOn == SessionInv /\ [SessionNext]_sessionVars => SessionInv'
  <1> SUFFICES ASSUME SessionInv, [SessionNext]_sessionVars PROVE SessionInv'
    OBVIOUS
  <1>1. CASE UNCHANGED sessionVars
    BY <1>1 DEF sessionVars, SessionInv, SessionTypeOK, PlugsCount, OneTextPerIv
  <1>2. CASE Tick
    BY <1>2, Handshake1Keeps, Handshake2Keeps, AskNameKeeps, AskEnergyKeeps, UnheardKeeps,
       AppendLineKeeps DEF Tick
  <1>3. CASE Takeover
    BY <1>3, TakeoverKeeps
  <1> QED
    BY <1>1, <1>2, <1>3 DEF SessionNext

\* The session of service/src/kasa.rs never encrypts two texts with one
\* initialisation vector, for any plugs, losses and takeovers, and any number
\* of words that is larger than the requests a plug lets a session have.
THEOREM SessionSafe == SessionSpec => []SessionInv /\ []OneTextPerIv
  <1>1. SessionInv => OneTextPerIv
    BY DEF SessionInv
  <1> QED
    BY <1>1, SessionStarts, SessionGoesOn, PTL DEF SessionSpec

\* A good answer that arrives from a plug that has the session gives a line.
LEMMA GoodAnswerGivesLine ==
    ASSUME NEW doc \in EnergyDocs, doc.good, NEW s, NEW declared \in BOOLEAN, Accepts(holder, s)
    PROVE  \E t \in execute(Answered(s, doc.text, declared), s) : measured(t) # {}
  <1>1. PICK T : T = Range(doc.text)
    OBVIOUS
  <1>2. /\ doc.text \in Seq(T) /\ Len(doc.text) \div BlockSize + 2 <= MaxBody
        /\ measured(doc.text) # {}
    BY <1>1, SessionAssumption
  <1>3. PICK text : text = doc.text
    OBVIOUS
  <1>4. text \in execute(Encrypted(s, text, declared), s)
    BY <1>2, <1>3, AnswerIsDecrypted
  <1>5. Answered(s, doc.text, declared) = Encrypted(s, text, declared)
    BY <1>3 DEF Answered
  <1> QED
    BY <1>2, <1>3, <1>4, <1>5

\* An energy request fails only for a reason.
LEMMA EnergyFailsForAReason ==
    ASSUME SessionInv, AskEnergy, stage' # "append"
    PROVE  \/ losses' > losses
           \/ plug[holder].seed # session.seed \/ plug[holder].served = MaxRequests
           \/ strict /\ lost
  <1> DEFINE s == sequenced(session)
  <1>1. PICK doc \in EnergyDocs, declared \in BOOLEAN :
           \E received :
              /\ IF doc.good THEN Receive(received, Answered(s, doc.text, declared)) ELSE Lose
              /\ line' = {[values |-> v, name |-> name, meant |-> doc.values] :
                             v \in UNION {measured(t) : t \in execute(received, s)}}
    BY DEF AskEnergy
  <1>2. PICK received :
              /\ IF doc.good THEN Receive(received, Answered(s, doc.text, declared)) ELSE Lose
              /\ line' = {[values |-> v, name |-> name, meant |-> doc.values] :
                             v \in UNION {measured(t) : t \in execute(received, s)}}
    BY <1>1
  <1>3. line' = {} /\ stage = "energy"
    BY DEF AskEnergy
  <1>4. losses \in 0..MaxLosses
    BY DEF SessionInv, SessionTypeOK
  <1>5. CASE Lose
    BY <1>4, <1>5, SessionConstants DEF Lose
  <1>6. CASE ~Lose
    <2>1. doc.good /\ received = Answered(s, doc.text, declared)
      BY <1>2, <1>6 DEF Receive
    <2>2. ~Accepts(holder, s)
      <3> SUFFICES ASSUME Accepts(holder, s) PROVE FALSE
        OBVIOUS
      <3>1. PICK t \in execute(received, s) : measured(t) # {}
        BY <2>1, GoodAnswerGivesLine
      <3>2. PICK v : v \in measured(t)
        BY <3>1
      <3>3. v \in UNION {measured(u) : u \in execute(received, s)}
        BY <3>1, <3>2
      <3> QED
        BY <1>2, <1>3, <3>3
    <2>3. /\ session \in [seed : Seeds \cup {0}, seq : 0..Words - 1]
          /\ plug[holder].served \in 0..MaxRequests
          /\ session.seed # 0
      BY <1>3 DEF SessionInv, SessionTypeOK
    <2>4. s.seed = session.seed /\ Since(session.seq, s.seq) = 1
      BY <2>3, SequencedFacts
    <2>5. CASE plug[holder].seed = session.seed /\ plug[holder].served < MaxRequests
      <3>1. strict /\ Since(plug[holder].last, s.seq) # 1
        BY <2>2, <2>4, <2>5 DEF Accepts
      <3>2. session # NoSession
        BY <2>3 DEF NoSession
      <3>3. ~lost => plug[holder].last = session.seq
        BY <2>5, <3>2 DEF SessionInv, PlugsCount
      <3>4. lost
        BY <2>4, <3>1, <3>3
      <3> QED
        BY <3>1, <3>4
    <2>6. CASE plug[holder].seed = session.seed /\ ~(plug[holder].served < MaxRequests)
      <3>1. plug[holder].served = MaxRequests
        BY <2>3, <2>6, SessionConstants
      <3> QED
        BY <3>1
    <2> QED
      BY <2>5, <2>6
  <1> QED
    BY <1>5, <1>6

\* A session that the plug still has does not fail by itself, whatever the
\* answers look like, and across the wrap of the sequence number: crypto.rs and
\* http.rs lose nothing of an answer that arrives, and the numbers stay in step.
THEOREM SessionAnswers == SessionSpec => GoodSessionAnswers
  <1> DEFINE fails == stage = "energy" /\ takeovers' = takeovers /\ stage' # "append"
             reason == \/ losses' > losses
                       \/ plug[holder].seed # session.seed \/ plug[holder].served = MaxRequests
                       \/ strict /\ lost
  <1>1. SessionInv /\ [SessionNext]_sessionVars => [fails => reason]_sessionVars
    <2> SUFFICES ASSUME SessionInv, SessionNext, fails PROVE reason
      BY DEF sessionVars
    <2>1. takeovers \in 0..MaxTakeovers /\ losses \in 0..MaxLosses
      BY DEF SessionInv, SessionTypeOK
    <2>2. ~Takeover
      BY <2>1, SessionConstants DEF Takeover
    <2>3. ~(Handshake1 \/ Handshake2 \/ AskName \/ AppendLine)
      BY DEF Handshake1, Handshake2, AskName, AppendLine
    <2>4. CASE Unheard
      BY <2>1, <2>4, SessionConstants DEF Unheard, Lose
    <2>5. CASE AskEnergy
      BY <2>5, EnergyFailsForAReason
    <2> QED
      BY <2>2, <2>3, <2>4, <2>5 DEF SessionNext, Tick
  <1>2. GoodSessionAnswers <=> [][fails => reason]_sessionVars
    BY DEF GoodSessionAnswers
  <1> QED
    BY <1>1, SessionStarts, SessionGoesOn, PTL DEF SessionSpec, GoodSessionAnswers

-----------------------------------------------------------------------------
(* base64.  FlattenSeq is a recursive function: a text is not built step   *)
(* by step here, but given outright, character by character, and cut into  *)
(* the pieces that the program puts together.                              *)

\* The characters of base64 but for the padding, as a set.
Letters ==
    {"A", "B", "C", "D", "E", "F", "G", "H", "I", "J", "K", "L", "M", "N", "O", "P",
     "Q", "R", "S", "T", "U", "V", "W", "X", "Y", "Z", "a", "b", "c", "d", "e", "f",
     "g", "h", "i", "j", "k", "l", "m", "n", "o", "p", "q", "r", "s", "t", "u", "v",
     "w", "x", "y", "z", "0", "1", "2", "3", "4", "5", "6", "7", "8", "9", "+", "/"}

\* Every character stands for one number, none is padding or a blank.
LEMMA Alphabet ==
    ASSUME NEW i \in 1..64
    PROVE  /\ B64[i] \in DOMAIN Sextet /\ Sextet[B64[i]] = i - 1
           /\ B64[i] # "=" /\ B64[i] \notin Blanks
  <1>1. B64[i] \in Letters
    BY DEF B64, Letters
  <1>2. \A c \in Blanks : c \notin Letters
    <2>1. " " \notin Letters
      BY Zenon DEF Letters
    <2>2. "\t" \notin Letters
      BY Zenon DEF Letters
    <2>3. "\n" \notin Letters
      BY Zenon DEF Letters
    <2>4. "\r" \notin Letters
      BY Zenon DEF Letters
    <2>5. "\f" \notin Letters
      BY Zenon DEF Letters
    <2> QED
      BY Zenon, <2>1, <2>2, <2>3, <2>4, <2>5 DEF Space, Blanks
  <1>3. B64[i] # "="
    BY DEF B64
  <1>4. \A j \in 1..64 : B64[j] = B64[i] => j = i
    BY DEF B64
  <1>5. DOMAIN B64 = 1..64
    BY DEF B64
  <1>6. B64[i] \in Range(B64)
    BY <1>5 DEF Range
  <1>7. (CHOOSE j \in 1..64 : B64[j] = B64[i]) = i
    BY <1>4
  <1> QED
    BY <1>1, <1>2, <1>3, <1>6, <1>7 DEF Sextet

\* A padding stands for nothing.
LEMMA Padding == "=" \in DOMAIN Sextet /\ Sextet["="] = 0 /\ "=" \notin Blanks
  <1>1. "=" \notin Blanks
    BY Zenon DEF Space, Blanks
  <1> QED
    BY <1>1 DEF Sextet

\* A set of numbers has a smallest.
LEMMA Smallest ==
    ASSUME NEW S, S \subseteq Nat, S # {}
    PROVE  \E m \in S : \A n \in S : m <= n
  <1> DEFINE below == {p \in Nat \X Nat : p[1] < p[2]}
  <1>1. IsWellFoundedOn(OpToRel(<, Nat), Nat)
    BY NatLessThanWellFounded
  <1>2. OpToRel(<, Nat) = {p \in Nat \X Nat : p[1] < p[2]}
    BY Zenon DEF OpToRel
  <1>3. IsWellFoundedOn(below, Nat)
    BY <1>1, <1>2, Zenon
  <1> HIDE DEF below
  <1>4. PICK m \in S : \A n \in S : <<n, m>> \notin below
    BY <1>3, WFMin
  <1>5. \A n \in S : m <= n
    <2> TAKE n \in S
    <2>1. n \in Nat /\ m \in Nat /\ <<n, m>> \in Nat \X Nat
      OBVIOUS
    <2>2. ~(<<n, m>>[1] < <<n, m>>[2])
      BY <1>4, <2>1 DEF below
    <2> QED
      BY <2>1, <2>2
  <1> QED
    BY <1>5

\* Two pieces of a sequence that meet.
LEMMA Joined ==
    ASSUME NEW T, NEW whole \in Seq(T), NEW a \in Nat, NEW b \in Nat, a <= b, b <= Len(whole)
    PROVE  SubSeq(whole, 1, a) \o SubSeq(whole, a + 1, b) = SubSeq(whole, 1, b)
  OBVIOUS

\* The n pieces of a sequence that end at the places of a list.
IsCut(parts, whole, n, ends) ==
    /\ \A i \in 0..n : ends[i] \in 0..Len(whole)
    /\ \A i \in 1..n : ends[i - 1] <= ends[i]
    /\ ends[0] = 0 /\ ends[n] = Len(whole)
    /\ parts = [i \in 1..n |-> SubSeq(whole, ends[i - 1] + 1, ends[i])]

\* Put together, the pieces of a sequence are the sequence.
LEMMA PiecesOfOne ==
    ASSUME NEW T, NEW whole \in Seq(T), NEW n \in Nat, NEW ends, NEW parts,
           IsCut(parts, whole, n, ends)
    PROVE  FlattenSeq(parts) = whole
  <1>1. Len(parts) = n /\ DOMAIN parts = 1..n
    BY DEF IsCut
  <1>2. CASE n = 0
    <2>1. whole = << >>
      BY <1>2 DEF IsCut
    <2>2. parts = << >>
      BY <1>1, <1>2 DEF IsCut
    <2> QED
      BY <1>1, <1>2, <2>1, <2>2 DEF FlattenSeq
  <1>3. CASE n # 0
    <2> DEFINE Round(f) == [i \in 1..n |-> IF i = 1 THEN parts[i] ELSE f[i - 1] \o parts[i]]
               prefixes == [i \in 1..n |-> SubSeq(whole, 1, ends[i])]
               flat == CHOOSE f : f = Round(f)
    <2>1. FlattenSeq(parts) = flat[n]
      BY <1>1, <1>3 DEF FlattenSeq
    <2>2. ASSUME NEW i \in 1..n
          PROVE  /\ i = 1 => parts[i] = prefixes[i]
                 /\ i # 1 => i - 1 \in 1..n /\ prefixes[i - 1] \o parts[i] = prefixes[i]
      <3> HIDE DEF Round, prefixes, flat
      <3>1. i - 1 \in 0..n /\ i \in 0..n /\ Len(whole) \in Nat
        OBVIOUS
      <3>2. PICK a \in 0..Len(whole) : a = ends[i - 1]
        BY <3>1 DEF IsCut
      <3>3. PICK b \in 0..Len(whole) : b = ends[i]
        BY <3>1 DEF IsCut
      <3>4. a <= b /\ (i = 1 => a = 0)
        BY <3>2, <3>3 DEF IsCut
      <3>5. parts[i] = SubSeq(whole, a + 1, b)
        BY <3>2, <3>3 DEF IsCut
      <3>6. SubSeq(whole, 1, a) \o SubSeq(whole, a + 1, b) = SubSeq(whole, 1, b)
        BY <3>1, <3>4, Joined
      <3>7. prefixes[i] = SubSeq(whole, 1, b) /\ (i # 1 => prefixes[i - 1] = SubSeq(whole, 1, a))
        BY <3>2, <3>3 DEF prefixes
      <3>8. i # 1 => i - 1 \in 1..n
        OBVIOUS
      <3>9. i = 1 => parts[i] = prefixes[i]
        BY <3>4, <3>5, <3>7
      <3>10. i # 1 => prefixes[i - 1] \o parts[i] = prefixes[i]
        BY <3>5, <3>6, <3>7
      <3> QED
        BY <3>8, <3>9, <3>10
    <2>3. prefixes = Round(prefixes)
      <3>1. \A i \in 1..n : prefixes[i] = IF i = 1 THEN parts[i] ELSE prefixes[i - 1] \o parts[i]
        BY <2>2
      <3> HIDE DEF prefixes
      <3>2. prefixes = [i \in 1..n |-> prefixes[i]]
        BY DEF prefixes
      <3> QED
        BY <3>1, <3>2
    <2> HIDE DEF prefixes
    <2>4. flat = Round(flat)
      BY <2>3
    <2> HIDE DEF flat
    <2>5. \A i \in 1..n : flat[i] = IF i = 1 THEN parts[i] ELSE flat[i - 1] \o parts[i]
      BY <2>4
    <2> DEFINE Wrong == {i \in 1..n : flat[i] # prefixes[i]}
    <2>6. Wrong = {}
      <3> SUFFICES ASSUME Wrong # {} PROVE FALSE
        OBVIOUS
      <3>1. PICK m \in Wrong : \A i \in Wrong : m <= i
        <4>1. Wrong \subseteq Nat
          OBVIOUS
        <4> HIDE DEF Wrong
        <4> QED
          BY <4>1, Smallest
      <3>2. m # 1
        BY <2>2, <2>5
      <3>3. m - 1 \in 1..n /\ m - 1 \notin Wrong
        BY <3>1, <3>2
      <3>4. flat[m - 1] = prefixes[m - 1]
        BY <3>3
      <3> QED
        BY <2>2, <2>5, <3>2, <3>4
    <2>7. flat[n] = SubSeq(whole, 1, Len(whole))
      <3>1. n \in 1..n /\ ends[n] = Len(whole)
        BY <1>3 DEF IsCut
      <3>2. flat[n] = prefixes[n]
        BY <2>6, <3>1
      <3> QED
        BY <3>1, <3>2 DEF prefixes
    <2> QED
      BY <2>1, <2>7
  <1> QED
    BY <1>2, <1>3

\* A piece of one item.
LEMMA OneItem ==
    ASSUME NEW T, NEW whole \in Seq(T), NEW i \in 1..Len(whole)
    PROVE  SubSeq(whole, i, i) = <<whole[i]>>
  <1>1. Len(SubSeq(whole, i, i)) = 1 /\ SubSeq(whole, i, i)[1] = whole[i]
    OBVIOUS
  <1>2. SubSeq(whole, i, i) \in Seq(T) /\ <<whole[i]>> \in Seq(T)
    OBVIOUS
  <1>3. ASSUME NEW s \in Seq(T), NEW t \in Seq(T), Len(s) = 1, Len(t) = 1, s[1] = t[1]
        PROVE  s = t
    BY <1>3
  <1>4. Len(<<whole[i]>>) = 1 /\ <<whole[i]>>[1] = whole[i]
    OBVIOUS
  <1> QED
    BY <1>1, <1>2, <1>3, <1>4

\* A text without blanks is left alone.
LEMMA NoBlanks ==
    ASSUME NEW T, NEW text \in Seq(T), \A i \in DOMAIN text : text[i] \notin Blanks
    PROVE  without_blanks(text) = text
  <1> DEFINE ends == [i \in 0..Len(text) |-> i]
             parts == [i \in 1..Len(text) |-> SubSeq(text, ends[i - 1] + 1, ends[i])]
  <1>1. IsCut(parts, text, Len(text), ends)
    BY DEF IsCut
  <1>2. parts = [i \in DOMAIN text |-> IF text[i] \in Blanks THEN << >> ELSE <<text[i]>>]
    <2>1. ASSUME NEW i \in 1..Len(text)
          PROVE  SubSeq(text, ends[i - 1] + 1, ends[i]) = <<text[i]>>
      <3>1. ends[i - 1] + 1 = i /\ ends[i] = i
        OBVIOUS
      <3> HIDE DEF ends, parts
      <3>2. SubSeq(text, i, i) = <<text[i]>>
        BY OneItem
      <3> QED
        BY <3>1, <3>2
    <2>2. DOMAIN text = 1..Len(text)
      OBVIOUS
    <2>3. parts = [i \in DOMAIN text |-> <<text[i]>>]
      BY <2>1, <2>2
    <2> HIDE DEF parts
    <2>4. [i \in DOMAIN text |-> <<text[i]>>]
             = [i \in DOMAIN text |-> IF text[i] \in Blanks THEN << >> ELSE <<text[i]>>]
      BY Zenon
    <2> QED
      BY <2>3, <2>4, Zenon
  <1> HIDE DEF parts, ends
  <1> QED
    BY <1>1, <1>2, PiecesOfOne DEF without_blanks

\* A byte, the digit of a character, and the word of three bytes.
Byte == 0..255
Digit == {n \in Nat : n < 64}
Word == {n \in Nat : n < 16777216}

\* The bytes of a word, and its digits.
MadeOf(w, x, y, z) == w = x * 65536 + y * 256 + z
BytesAre(w, x, y, z) == w \div 65536 = x /\ (w \div 256) % 256 = y /\ w % 256 = z
DigitsAre(w, a, b, c, d) ==
    /\ a = (w \div 262144) % 64 /\ b = (w \div 4096) % 64
    /\ c = (w \div 64) % 64 /\ d = (w \div 1) % 64
PutTogether(w, a, b, c, d) == w = ((a * 64 + b) * 64 + c) * 64 + d

\* What is left of a division by a number that is given.
LEMMA Divided ==
    ASSUME NEW n \in Nat, NEW size \in {64, 256, 65536}
    PROVE  /\ n \div size \in Nat /\ n % size \in Nat /\ n % size < size
           /\ n = (n \div size) * size + (n % size)
  <1>1. size \in Nat \ {0}
    BY SMT
  <1>2. PICK q \in Nat, r \in 0..size - 1 : q = n \div size /\ r = n % size /\ n = q * size + r
    BY <1>1, BlocksAndRest
  <1> QED
    BY SMT, <1>1, <1>2

\* What is left when a byte is one, without naming each.
LEMMA ByteIs ==
    ASSUME NEW x \in Byte
    PROVE  x \in Nat /\ x < 256
  BY SMT DEF Byte

\* Three bytes make a word, and come back from it.
LEMMA WordOfBytes ==
    ASSUME NEW x \in Byte, NEW y \in Byte, NEW z \in Byte, NEW w, MadeOf(w, x, y, z)
    PROVE  w \in Word /\ BytesAre(w, x, y, z)
  <1>1. x \in Nat /\ y \in Nat /\ z \in Nat /\ x < 256 /\ y < 256 /\ z < 256
    BY ByteIs
  <1>2. w \in Nat /\ w = x * 65536 + y * 256 + z
    BY SMT, <1>1 DEF MadeOf
  <1>3. w < 16777216
    BY SMT, <1>1, <1>2
  <1>4. w \div 65536 = x
    BY SMT, <1>1, <1>2
  <1>5. PICK v \in Nat : v = w \div 256 /\ v = 256 * x + y
    BY SMT, <1>1, <1>2
  <1>6. v % 256 = y
    BY SMT, <1>1, <1>5, Divided
  <1>7. w % 256 = z
    BY SMT, <1>1, <1>2, <1>5, Divided
  <1> QED
    BY SMT, <1>2, <1>3, <1>4, <1>5, <1>6, <1>7 DEF Word, BytesAre

\* A word is put together from its digits.
LEMMA WordOfDigits ==
    ASSUME NEW w \in Word, NEW a, NEW b, NEW c, NEW d, DigitsAre(w, a, b, c, d)
    PROVE  {a, b, c, d} \subseteq Digit /\ PutTogether(w, a, b, c, d)
  <1>1. w \in Nat /\ w < 16777216
    BY SMT DEF Word
  <1>2. PICK q \in Nat, s \in Nat : s < 64 /\ q = w \div 64 /\ s = w % 64 /\ w = q * 64 + s
    BY SMT, <1>1, Divided
  <1>3. PICK r \in Nat, t \in Nat : t < 64 /\ r = q \div 64 /\ t = q % 64 /\ q = r * 64 + t
    BY SMT, Divided
  <1>4. PICK p \in Nat, u \in Nat : u < 64 /\ p = r \div 64 /\ u = r % 64 /\ r = p * 64 + u
    BY SMT, Divided
  <1>5. w \div 1 = w /\ w \div 4096 = r /\ w \div 262144 = p /\ p < 64
    BY SMT, <1>1, <1>2, <1>3, <1>4
  <1>6. p % 64 = p
    BY SMT, <1>5
  <1>7. a = p /\ b = u /\ c = t /\ d = s
    BY SMT, <1>2, <1>3, <1>4, <1>5, <1>6 DEF DigitsAre
  <1> QED
    BY SMT, <1>2, <1>3, <1>4, <1>5, <1>7 DEF PutTogether, Digit

\* The last digits of a word without its last bytes.
LEMMA MissingDigits ==
    ASSUME NEW x \in Byte, NEW y \in Byte, NEW z \in Byte, NEW w, MadeOf(w, x, y, z),
           NEW a, NEW b, NEW c, NEW d, DigitsAre(w, a, b, c, d)
    PROVE  /\ z = 0 => d = 0
           /\ y = 0 /\ z = 0 => c = 0
  <1>1. x \in Nat /\ y \in Nat /\ z \in Nat
    BY ByteIs
  <1>2. w = x * 65536 + y * 256 + z /\ d = (w \div 1) % 64 /\ c = (w \div 64) % 64
    BY SMT DEF MadeOf, DigitsAre
  <1>3. ASSUME z = 0
        PROVE  d = 0
    <2>1. PICK n \in Nat : n = x * 1024 + y * 4
      BY SMT, <1>1
    <2>2. w \div 1 = n * 64 + 0
      BY SMT, <1>1, <1>2, <1>3, <2>1
    <2> QED
      BY SMT, <1>2, <2>1, <2>2, Divided
  <1>4. ASSUME y = 0, z = 0
        PROVE  c = 0
    <2>1. PICK n \in Nat : n = x * 16
      BY SMT, <1>1
    <2>2. w \div 64 = n * 64 + 0
      BY SMT, <1>1, <1>2, <1>4, <2>1
    <2> QED
      BY SMT, <1>2, <2>1, <2>2, Divided
  <1> QED
    BY <1>3, <1>4

\* The bytes of a group, its word, and the digits of that.
ByteAt(b, i) == IF i <= Len(b) THEN b[i] ELSE 0
WordOf(b) == ByteAt(b, 1) * 65536 + ByteAt(b, 2) * 256 + ByteAt(b, 3)
DigitOf(b, i) == WordOf(b) \div <<262144, 4096, 64, 1>>[i] % 64

\* The bytes and the digits of the word of a group.
LEMMA WordIs ==
    ASSUME NEW b \in Seq(Byte), Len(b) \in 1..3
    PROVE  /\ BytesAre(WordOf(b), ByteAt(b, 1), ByteAt(b, 2), ByteAt(b, 3))
           /\ \A i \in 1..4 : DigitOf(b, i) \in Digit
           /\ PutTogether(WordOf(b), DigitOf(b, 1), DigitOf(b, 2), DigitOf(b, 3), DigitOf(b, 4))
           /\ Len(b) < 3 => DigitOf(b, 4) = 0
           /\ Len(b) < 2 => DigitOf(b, 3) = 0
  <1> DEFINE x == ByteAt(b, 1)  y == ByteAt(b, 2)  z == ByteAt(b, 3)  w == WordOf(b)
             a == DigitOf(b, 1)  c == DigitOf(b, 2)  d == DigitOf(b, 3)  e == DigitOf(b, 4)
  <1>1. 0 \in Byte
    BY SMT DEF Byte
  <1>2. x \in Byte /\ y \in Byte /\ z \in Byte
    BY SMT, <1>1 DEF ByteAt
  <1>3. MadeOf(w, x, y, z)
    BY SMT DEF WordOf, MadeOf
  <1>4. DigitsAre(w, a, c, d, e)
    BY SMT DEF DigitOf, DigitsAre
  <1>5. (Len(b) < 3 => z = 0) /\ (Len(b) < 2 => y = 0)
    BY SMT DEF ByteAt
  <1>6. Len(b) < 2 => Len(b) < 3
    BY SMT
  <1> HIDE DEF x, y, z, w, a, c, d, e
  <1>7. w \in Word /\ BytesAre(w, x, y, z)
    BY Zenon, <1>2, <1>3, WordOfBytes
  <1>8. {a, c, d, e} \subseteq Digit /\ PutTogether(w, a, c, d, e)
    BY Zenon, <1>4, <1>7, WordOfDigits
  <1>9. (z = 0 => e = 0) /\ (y = 0 /\ z = 0 => d = 0)
    BY <1>2, <1>3, <1>4, MissingDigits
  <1>10. \A i \in 1..4 : DigitOf(b, i) \in Digit
    BY SMT, <1>8 DEF a, c, d, e
  <1> QED
    BY Zenon, <1>5, <1>6, <1>7, <1>8, <1>9, <1>10 DEF x, y, z, w, a, c, d, e

\* The four characters of a group.
LEMMA GroupIsText ==
    ASSUME NEW b \in Seq(Byte), Len(b) \in 1..3, NEW i \in 1..4
    PROVE  /\ encode_three(b)[i] \in DOMAIN Sextet
           /\ Sextet[encode_three(b)[i]] = DigitOf(b, i)
           /\ encode_three(b)[i] \notin Blanks
           /\ encode_three(b)[i] = "=" <=> i > Len(b) + 1
  <1>1. encode_three(b)[i] = IF i > Len(b) + 1 THEN "=" ELSE B64[DigitOf(b, i) + 1]
    BY SMT DEF encode_three, DigitOf, WordOf, ByteAt
  <1>2. DigitOf(b, i) \in Digit /\ (i > Len(b) + 1 => DigitOf(b, i) = 0)
    <2>1. i > Len(b) + 1 => (i = 4 /\ Len(b) < 3) \/ (i = 3 /\ Len(b) < 2)
      <3>1. \A k \in 1..3 : i > k + 1 => (i = 4 /\ k < 3) \/ (i = 3 /\ k < 2)
        BY SMT
      <3> QED
        BY Zenon, <3>1
    <2> QED
      BY Zenon, <2>1, WordIs
  <1>3. PICK n \in Nat : n = DigitOf(b, i) /\ n + 1 \in 1..64 /\ (n + 1) - 1 = n
    BY SMT, <1>2 DEF Digit
  <1>4. CASE i > Len(b) + 1
    BY Zenon, <1>1, <1>2, <1>4, Padding
  <1>5. CASE ~(i > Len(b) + 1)
    <2>1. encode_three(b)[i] = B64[n + 1]
      BY Zenon, <1>1, <1>3, <1>5
    <2> QED
      BY <1>3, <1>5, <2>1, Alphabet
  <1> QED
    BY <1>4, <1>5

\* So many characters of a group are padding.
LEMMA PaddingOfGroup ==
    ASSUME NEW b \in Seq(Byte), Len(b) \in 1..3
    PROVE  Cardinality({i \in 3..4 : encode_three(b)[i] = "="}) = 3 - Len(b)
  <1>1. {i \in 3..4 : encode_three(b)[i] = "="} = {i \in 3..4 : i > Len(b) + 1}
    <2>1. \A i \in 3..4 : i \in 1..4
      BY SMT
    <2> QED
      BY Zenon, <2>1, GroupIsText
  <1>2. Cardinality({}) = 0 /\ Cardinality({4}) = 1 /\ IsFiniteSet({4})
    BY FS_EmptySet, FS_Singleton
  <1>3. Cardinality({4} \cup {3}) = 2
    <2>1. 3 \notin {4}
      BY SMT
    <2>2. Cardinality({4} \cup {3}) = Cardinality({4}) + 1
      BY <1>2, <2>1, FS_AddElement
    <2>3. \A k : k = 1 + 1 => k = 2
      BY SMT
    <2> QED
      BY Zenon, <1>2, <2>2, <2>3
  <1>4. \A n \in 1..3 : n = 1 \/ n = 2 \/ n = 3
    BY SMT
  <1>5. ASSUME Len(b) = 1
        PROVE  {i \in 3..4 : i > Len(b) + 1} = {4} \cup {3} /\ 3 - Len(b) = 2
    BY SMT, <1>5
  <1>6. ASSUME Len(b) = 2
        PROVE  {i \in 3..4 : i > Len(b) + 1} = {4} /\ 3 - Len(b) = 1
    BY SMT, <1>6
  <1>7. ASSUME Len(b) = 3
        PROVE  {i \in 3..4 : i > Len(b) + 1} = {} /\ 3 - Len(b) = 0
    BY SMT, <1>7
  <1> QED
    BY Zenon, <1>1, <1>2, <1>3, <1>4, <1>5, <1>6, <1>7

\* The beginning of three bytes.
LEMMA FirstBytes ==
    ASSUME NEW b \in Seq(Byte), Len(b) \in 1..3
    PROVE  SubSeq(<<ByteAt(b, 1), ByteAt(b, 2), ByteAt(b, 3)>>, 1, Len(b)) = b
  <1> DEFINE three == <<ByteAt(b, 1), ByteAt(b, 2), ByteAt(b, 3)>>
  <1>1. 0 \in Byte
    BY SMT DEF Byte
  <1>2. three \in Seq(Byte) /\ Len(three) = 3
    BY SMT, <1>1 DEF ByteAt
  <1>3. \A i \in 1..Len(b) : three[i] = b[i]
    BY SMT DEF ByteAt
  <1> HIDE DEF three
  <1>4. PICK n \in Nat : n = Len(b) /\ n <= 3
    BY SMT
  <1>5. PICK s \in Seq(Byte) :
           s = SubSeq(three, 1, n) /\ Len(s) = n /\ \A i \in 1..n : s[i] = b[i]
    <2>1. /\ SubSeq(three, 1, n) \in Seq(Byte) /\ Len(SubSeq(three, 1, n)) = n
          /\ \A i \in 1..n : SubSeq(three, 1, n)[i] = three[i]
      BY SMT, <1>2, <1>4
    <2> QED
      BY <1>3, <1>4, <2>1
  <1>6. s = b
    BY SMT, <1>4, <1>5
  <1> QED
    BY <1>4, <1>5, <1>6 DEF three

\* A group comes back from its four characters.
LEMMA GroupComesBack ==
    ASSUME NEW b \in Seq(Byte), Len(b) \in 1..3, NEW c, \A i \in 1..4 : c[i] = encode_three(b)[i]
    PROVE  decode_four(c) = b
  <1>1. \A i \in 1..4 : Sextet[c[i]] = DigitOf(b, i)
    BY Zenon, GroupIsText
  <1>2. \A i \in 3..4 : i \in 1..4
    BY SMT
  <1>3. {i \in 3..4 : c[i] = "="} = {i \in 3..4 : encode_three(b)[i] = "="}
    BY Zenon, <1>2
  <1>4. Cardinality({i \in 3..4 : c[i] = "="}) = 3 - Len(b)
    BY Zenon, <1>3, PaddingOfGroup
  <1>5. word_of(c) = WordOf(b)
    BY SMT, <1>1, WordIs DEF word_of, PutTogether
  <1>6. 3 - pad_of(c) = Len(b)
    BY SMT, <1>4 DEF pad_of
  <1>7. PICK w, x, y, z : /\ w = WordOf(b)
                          /\ x = ByteAt(b, 1) /\ y = ByteAt(b, 2) /\ z = ByteAt(b, 3)
    OBVIOUS
  <1>8. w \div 65536 = x /\ (w \div 256) % 256 = y /\ w % 256 = z
    BY SMT, <1>7, WordIs DEF BytesAre
  <1>9. decode_four(c) = SubSeq(<<x, y, z>>, 1, Len(b))
    <2> DEFINE three(n) == <<n \div 65536, (n \div 256) % 256, n % 256>>
    <2>1. three(w) = <<x, y, z>>
      BY SMT, <1>8
    <2>2. decode_four(c) = SubSeq(three(word_of(c)), 1, 3 - pad_of(c))
      BY SMT DEF decode_four
    <2> HIDE DEF three
    <2> QED
      BY Zenon, <1>5, <1>6, <1>7, <2>1, <2>2
  <1> QED
    BY Zenon, <1>7, <1>9, FirstBytes

\* Where a group of three ends, and the group.
EndOf(bytes, g) == Min({3 * g, Len(bytes)})
GroupOf(bytes, g) == SubSeq(bytes, 3 * g - 2, EndOf(bytes, g))
Groups(bytes) == (Len(bytes) + 2) \div 3

\* All groups but the last have three bytes, and that has one at least.
LEMMA GroupSizes ==
    ASSUME NEW bytes \in Seq(Byte), NEW n, n = Groups(bytes)
    PROVE  /\ n \in Nat
           /\ EndOf(bytes, 0) = 0 /\ EndOf(bytes, n) = Len(bytes)
           /\ \A g \in 1..n : /\ 3 * g - 2 \in 1..Len(bytes) /\ EndOf(bytes, g) \in 3 * g - 2..Len(bytes)
                              /\ EndOf(bytes, g - 1) = 3 * g - 3 /\ EndOf(bytes, g) <= 3 * g
  <1>1. PICK len \in Nat : len = Len(bytes)
    OBVIOUS
  <1>2. \A g \in Nat : EndOf(bytes, g) = IF 3 * g <= len THEN 3 * g ELSE len
    BY <1>1 DEF EndOf, Min
  <1>3. n \in Nat /\ len <= 3 * n /\ 3 * n <= len + 2
    BY SMT, <1>1 DEF Groups
  <1>4. ASSUME NEW g \in 1..n
        PROVE  /\ 3 * g - 2 \in 1..len /\ EndOf(bytes, g) \in 3 * g - 2..len
               /\ EndOf(bytes, g - 1) = 3 * g - 3 /\ EndOf(bytes, g) <= 3 * g
    <2>1. g \in Nat /\ g - 1 \in Nat /\ 1 <= g /\ g <= n
      BY <1>3
    <2>2. EndOf(bytes, g) = IF 3 * g <= len THEN 3 * g ELSE len
      BY <1>2, <2>1
    <2>3. EndOf(bytes, g - 1) = IF 3 * (g - 1) <= len THEN 3 * (g - 1) ELSE len
      BY <1>2, <2>1
    <2> QED
      BY <1>1, <1>3, <2>1, <2>2, <2>3
  <1>5. EndOf(bytes, 0) = 0
    BY <1>1, <1>2
  <1>6. EndOf(bytes, n) = len
    <2>1. EndOf(bytes, n) = IF 3 * n <= len THEN 3 * n ELSE len
      BY <1>2, <1>3
    <2> QED
      BY <1>3, <2>1
  <1> QED
    BY <1>1, <1>3, <1>4, <1>5, <1>6

\* Each group is one to three bytes.
LEMMA GroupIs ==
    ASSUME NEW bytes \in Seq(Byte), NEW g \in 1..Groups(bytes)
    PROVE  GroupOf(bytes, g) \in Seq(Byte) /\ Len(GroupOf(bytes, g)) \in 1..3
  <1>1. PICK first \in Nat, last \in Nat :
           /\ first = 3 * g - 2 /\ last = EndOf(bytes, g)
           /\ 1 <= first /\ first <= last /\ last <= Len(bytes) /\ last <= first + 2
    <2>1. g \in Nat /\ Len(bytes) \in Nat
      BY GroupSizes
    <2>2. /\ 3 * g - 2 \in 1..Len(bytes) /\ EndOf(bytes, g) \in 3 * g - 2..Len(bytes)
          /\ EndOf(bytes, g) <= 3 * g
      BY GroupSizes
    <2> QED
      BY <2>1, <2>2
  <1>2. SubSeq(bytes, first, last) \in Seq(Byte) /\ Len(SubSeq(bytes, first, last)) = last - first + 1
    BY <1>1
  <1> QED
    BY <1>1, <1>2 DEF GroupOf

\* The groups are the bytes.
LEMMA GroupsTogether ==
    ASSUME NEW bytes \in Seq(Byte)
    PROVE  FlattenSeq([g \in 1..Groups(bytes) |-> GroupOf(bytes, g)]) = bytes
  <1> DEFINE n == Groups(bytes)
             ends == [g \in 0..n |-> EndOf(bytes, g)]
             parts == [g \in 1..n |-> GroupOf(bytes, g)]
  <1>1. n \in Nat /\ EndOf(bytes, 0) = 0 /\ EndOf(bytes, n) = Len(bytes)
    BY GroupSizes
  <1>2. ASSUME NEW g \in 1..n
        PROVE  /\ EndOf(bytes, g - 1) + 1 = 3 * g - 2 /\ EndOf(bytes, g) \in 0..Len(bytes)
               /\ EndOf(bytes, g - 1) <= EndOf(bytes, g)
    <2>1. /\ 3 * g - 2 \in 1..Len(bytes) /\ EndOf(bytes, g) \in 3 * g - 2..Len(bytes)
          /\ EndOf(bytes, g - 1) = 3 * g - 3
      BY GroupSizes
    <2> QED
      BY <1>1, <2>1
  <1> HIDE DEF n
  <1>3. \A g \in 0..n : ends[g] \in 0..Len(bytes)
    <2>1. \A g \in 0..n : g = 0 \/ g \in 1..n
      BY <1>1
    <2>2. 0 \in 0..Len(bytes)
      OBVIOUS
    <2> QED
      BY <1>1, <1>2, <2>1, <2>2
  <1>4. ends[0] = 0 /\ ends[n] = Len(bytes)
    BY <1>1
  <1>5. \A g \in 1..n : /\ ends[g - 1] <= ends[g]
                        /\ parts[g] = SubSeq(bytes, ends[g - 1] + 1, ends[g])
    <2> TAKE g \in 1..n
    <2>1. g - 1 \in 0..n /\ g \in 0..n
      BY <1>1
    <2>2. ends[g - 1] = EndOf(bytes, g - 1) /\ ends[g] = EndOf(bytes, g)
      BY <2>1
    <2> QED
      BY <1>2, <2>2 DEF GroupOf
  <1> HIDE DEF ends
  <1>6. parts = [g \in 1..n |-> SubSeq(bytes, ends[g - 1] + 1, ends[g])]
    BY <1>5
  <1> HIDE DEF parts
  <1>7. IsCut(parts, bytes, n, ends)
    BY <1>3, <1>4, <1>5, <1>6 DEF IsCut
  <1>8. FlattenSeq(parts) = bytes
    BY <1>1, <1>7, PiecesOfOne
  <1> QED
    BY <1>8 DEF parts, n

\* The encoded text, character by character.
Encoded(bytes) ==
    [j \in 1..4 * Groups(bytes) |->
        encode_three(GroupOf(bytes, ((j - 1) \div 4) + 1))[((j - 1) % 4) + 1]]

\* Its characters, and its group of four.
LEMMA EncodedIs ==
    ASSUME NEW bytes \in Seq(Byte), NEW n, n = Groups(bytes)
    PROVE  /\ n \in Nat /\ Encoded(bytes) \in Seq(DOMAIN Sextet) /\ Len(Encoded(bytes)) = 4 * n
           /\ \A j \in 1..4 * n :
                 /\ Encoded(bytes)[j] \in DOMAIN Sextet /\ Encoded(bytes)[j] \notin Blanks
                 /\ Encoded(bytes)[j] = "=" => (j - 1) % 4 >= 2
           /\ \A g \in 1..n : \A i \in 1..4 :
                 Encoded(bytes)[4 * g - 4 + i] = encode_three(GroupOf(bytes, g))[i]
  <1>1. n \in Nat
    BY GroupSizes
  <1>2. ASSUME NEW j \in 1..4 * n
        PROVE  /\ Encoded(bytes)[j] \in DOMAIN Sextet /\ Encoded(bytes)[j] \notin Blanks
               /\ Encoded(bytes)[j] = "=" => (j - 1) % 4 >= 2
    <2>1. PICK g \in 1..n : g = ((j - 1) \div 4) + 1
      BY <1>1
    <2>2. PICK i \in 1..4 : i = ((j - 1) % 4) + 1
      BY <1>1
    <2>3. Encoded(bytes)[j] = encode_three(GroupOf(bytes, g))[i]
      BY <2>1, <2>2 DEF Encoded
    <2>4. GroupOf(bytes, g) \in Seq(Byte) /\ Len(GroupOf(bytes, g)) \in 1..3
      BY GroupIs
    <2>5. /\ Encoded(bytes)[j] \in DOMAIN Sextet /\ Encoded(bytes)[j] \notin Blanks
          /\ Encoded(bytes)[j] = "=" => i > Len(GroupOf(bytes, g)) + 1
      BY <2>3, <2>4, GroupIsText
    <2>6. i > Len(GroupOf(bytes, g)) + 1 => (j - 1) % 4 >= 2
      <3>1. PICK size \in 1..3 : size = Len(GroupOf(bytes, g))
        BY <2>4
      <3>2. (j - 1) % 4 = i - 1
        BY <1>1, <2>2
      <3>3. i > size + 1 => i - 1 >= 2
        BY SMT
      <3> QED
        BY Zenon, <3>1, <3>2, <3>3
    <2> QED
      BY <2>5, <2>6
  <1>3. ASSUME NEW g \in 1..n, NEW i \in 1..4
        PROVE  Encoded(bytes)[4 * g - 4 + i] = encode_three(GroupOf(bytes, g))[i]
    <2>1. PICK j \in 1..4 * n : j = 4 * g - 4 + i
      BY <1>1
    <2>2. ((j - 1) \div 4) + 1 = g /\ ((j - 1) % 4) + 1 = i
      BY <1>1, <2>1
    <2> QED
      BY <2>1, <2>2 DEF Encoded
  <1>4. Encoded(bytes) \in Seq(DOMAIN Sextet) /\ Len(Encoded(bytes)) = 4 * n
    <2>1. PICK len \in Nat : len = 4 * n
      BY <1>1
    <2>2. \A j \in 1..len : Encoded(bytes)[j] \in DOMAIN Sextet
      BY <1>2, <2>1
    <2>3. Encoded(bytes) = [j \in 1..len |-> Encoded(bytes)[j]]
      BY <2>1 DEF Encoded
    <2> QED
      BY <2>1, <2>2, <2>3
  <1> QED
    BY <1>1, <1>2, <1>3, <1>4

\* Four items of a sequence.
LEMMA FourItems ==
    ASSUME NEW T, NEW whole \in Seq(T), NEW k \in Nat, k + 4 <= Len(whole)
    PROVE  SubSeq(whole, k + 1, k + 4) = [i \in 1..4 |-> whole[k + i]]
  OBVIOUS

\* What is encoded is the text of the groups.
LEMMA EncodedText ==
    ASSUME NEW bytes \in Seq(Byte)
    PROVE  base64_encode(bytes) = Encoded(bytes)
  <1> DEFINE n == Groups(bytes)
             text == Encoded(bytes)
             ends == [g \in 0..n |-> 4 * g]
             parts == [g \in 1..n |-> encode_three(GroupOf(bytes, g))]
  <1>1. /\ n \in Nat /\ text \in Seq(DOMAIN Sextet) /\ Len(text) = 4 * n
        /\ \A g \in 1..n : \A i \in 1..4 : text[4 * g - 4 + i] = encode_three(GroupOf(bytes, g))[i]
    BY Zenon, EncodedIs
  <1>2. base64_encode(bytes) = FlattenSeq(parts)
    BY Zenon DEF base64_encode, Groups, GroupOf, EndOf
  <1> HIDE DEF n, text
  <1>3. ASSUME NEW g \in 1..n
        PROVE  SubSeq(text, ends[g - 1] + 1, ends[g]) = parts[g]
    <2> DEFINE four == encode_three(GroupOf(bytes, g))
    <2>1. PICK k \in Nat : k = 4 * g - 4 /\ k + 4 <= Len(text) /\ ends[g - 1] = k /\ ends[g] = k + 4
      <3>1. g - 1 \in 0..n /\ g \in 0..n /\ 4 * g - 4 \in Nat /\ 4 * g <= Len(text)
        BY <1>1
      <3>2. ends[g - 1] = 4 * (g - 1) /\ ends[g] = 4 * g
        BY Zenon, <3>1
      <3>3. g \in Nat
        BY <1>1
      <3> HIDE DEF ends
      <3> QED
        BY <3>1, <3>2, <3>3
    <2>2. \A i \in 1..4 : text[k + i] = four[i]
      <3>1. \A i \in 1..4 : text[4 * g - 4 + i] = four[i]
        BY Zenon, <1>1
      <3> QED
        BY Zenon, <2>1, <3>1
    <2>3. four = [i \in 1..4 |-> four[i]]
      BY SMT DEF encode_three
    <2> HIDE DEF four, ends
    <2>4. SubSeq(text, k + 1, k + 4) = [i \in 1..4 |-> text[k + i]]
      BY Zenon, <1>1, <2>1, FourItems
    <2>5. parts[g] = four
      BY DEF four
    <2> QED
      BY <2>1, <2>2, <2>3, <2>4, <2>5
  <1>4. \A g \in 0..n : ends[g] \in 0..Len(text)
    BY <1>1
  <1>5. \A g \in 1..n : ends[g - 1] <= ends[g]
    BY <1>1
  <1>6. ends[0] = 0 /\ ends[n] = Len(text)
    BY <1>1
  <1> HIDE DEF ends
  <1>7. parts = [g \in 1..n |-> SubSeq(text, ends[g - 1] + 1, ends[g])]
    BY <1>3
  <1> HIDE DEF parts
  <1>8. IsCut(parts, text, n, ends)
    BY Zenon, <1>4, <1>5, <1>6, <1>7 DEF IsCut
  <1>9. FlattenSeq(parts) = text
    BY Zenon, <1>1, <1>8, PiecesOfOne
  <1> QED
    BY Zenon, <1>2, <1>9 DEF text

\* base64: what is encoded comes back, from the text itself and from the text with blanks in it, and
\* it is the only answer.
THEOREM Base64ComesBack ==
    ASSUME NEW bytes \in Seq(Byte), NEW text, without_blanks(text) = base64_encode(bytes)
    PROVE  base64_decode(text) = {bytes}
  <1> DEFINE n == Groups(bytes)
             cleaned == Encoded(bytes)
             allowed(i) == cleaned[i] \in DOMAIN Sextet /\ (cleaned[i] = "=" => (i - 1) % 4 >= 2)
             group(g) == SubSeq(cleaned, 4 * g - 3, 4 * g)
  <1>1. without_blanks(text) = cleaned
    BY Zenon, EncodedText
  <1>2. /\ n \in Nat /\ cleaned \in Seq(DOMAIN Sextet) /\ Len(cleaned) = 4 * n
        /\ \A i \in 1..4 * n : allowed(i)
        /\ \A g \in 1..n : \A i \in 1..4 : cleaned[4 * g - 4 + i] = encode_three(GroupOf(bytes, g))[i]
    BY Zenon, EncodedIs
  <1> HIDE DEF n, cleaned, allowed, group
  <1>3. Len(cleaned) % 4 = 0 /\ Len(cleaned) \div 4 = n /\ DOMAIN cleaned = 1..4 * n
    BY <1>2
  <1>4. ASSUME NEW g \in 1..n
        PROVE  decode_four(group(g)) = GroupOf(bytes, g)
    <2>1. PICK k \in Nat : k = 4 * g - 4 /\ k + 4 <= Len(cleaned) /\ 4 * g - 3 = k + 1 /\ 4 * g = k + 4
      BY <1>2
    <2>2. \A i \in 1..4 : SubSeq(cleaned, k + 1, k + 4)[i] = cleaned[k + i]
      <3>1. SubSeq(cleaned, k + 1, k + 4) = [i \in 1..4 |-> cleaned[k + i]]
        BY Zenon, <1>2, <2>1, FourItems
      <3> QED
        BY Zenon, <3>1
    <2>3. \A i \in 1..4 : group(g)[i] = encode_three(GroupOf(bytes, g))[i]
      BY <1>2, <2>1, <2>2 DEF group
    <2>4. GroupOf(bytes, g) \in Seq(Byte) /\ Len(GroupOf(bytes, g)) \in 1..3
      BY Zenon, GroupIs DEF n
    <2> QED
      BY Zenon, <2>3, <2>4, GroupComesBack
  <1>5. [g \in 1..n |-> decode_four(group(g))] = [g \in 1..n |-> GroupOf(bytes, g)]
    BY Zenon, <1>4
  <1>6. FlattenSeq([g \in 1..n |-> decode_four(group(g))]) = bytes
    BY Zenon, <1>5, GroupsTogether DEF n
  <1>7. base64_decode(text) =
           IF Len(cleaned) % 4 # 0 \/ \E i \in DOMAIN cleaned : ~allowed(i) THEN {}
           ELSE {FlattenSeq([g \in 1..Len(cleaned) \div 4 |-> decode_four(group(g))])}
    BY Zenon, <1>1 DEF base64_decode, allowed, group
  <1> QED
    BY Zenon, <1>2, <1>3, <1>6, <1>7

\* base64: the text itself has no blanks.
THEOREM Base64RoundTrip ==
    ASSUME NEW bytes \in Seq(Byte)
    PROVE  base64_decode(base64_encode(bytes)) = {bytes}
  <1>1. /\ Encoded(bytes) \in Seq(DOMAIN Sextet) /\ Len(Encoded(bytes)) = 4 * Groups(bytes)
        /\ \A i \in 1..4 * Groups(bytes) : Encoded(bytes)[i] \notin Blanks
    BY Zenon, EncodedIs
  <1>2. DOMAIN Encoded(bytes) = 1..4 * Groups(bytes)
    BY Zenon DEF Encoded
  <1>3. without_blanks(Encoded(bytes)) = Encoded(bytes)
    BY Zenon, <1>1, <1>2, NoBlanks
  <1> QED
    BY Zenon, <1>3, EncodedText, Base64ComesBack

-----------------------------------------------------------------------------
(* The strings of JSON.  What is written of a text is cut into what is     *)
(* written of each character; the loop of the parser is determined from    *)
(* the end of the line, place by place, by an induction over the places    *)
(* (a set of numbers that has 0, and n with n - 1, has them all).          *)

\* Induction up to a number, over the set of those it holds for.
LEMMA Upwards ==
    ASSUME NEW n \in Nat, NEW Good, 0 \in Good, \A k \in 1..n : k - 1 \in Good => k \in Good
    PROVE  \A k \in 0..n : k \in Good
  <1> DEFINE Bad == {k \in 0..n : k \notin Good}
  <1>1. Bad \subseteq Nat
    OBVIOUS
  <1>2. ASSUME NEW k \in Bad
        PROVE  k \in 1..n /\ k - 1 \in 0..n /\ ~(k <= k - 1) /\ k - 1 \notin Good
    OBVIOUS
  <1> HIDE DEF Bad
  <1>3. ASSUME NEW k \in Bad, \A l \in Bad : k <= l
        PROVE  FALSE
    BY Zenon, <1>2, <1>3 DEF Bad
  <1>4. Bad = {}
    BY Zenon, <1>1, <1>3, Smallest
  <1> QED
    BY Zenon, <1>4 DEF Bad

\* Induction downwards.
LEMMA Downwards ==
    ASSUME NEW n \in Nat, NEW Good, n \in Good, \A k \in 1..n : k \in Good => k - 1 \in Good
    PROVE  \A k \in 0..n : k \in Good
  <1> DEFINE Up == {m \in 0..n : n - m \in Good}
  <1>1. 0 \in Up
    BY SMT
  <1>2. ASSUME NEW m \in 1..n, m - 1 \in Up
        PROVE  m \in Up
    <2>1. n - (m - 1) \in 1..n /\ (n - (m - 1)) - 1 = n - m /\ m \in 0..n
      BY SMT
    <2>2. n - (m - 1) \in Good
      BY Zenon, <1>2
    <2>3. n - m \in Good
      BY Zenon, <2>1, <2>2
    <2> QED
      BY Zenon, <2>1, <2>3
  <1> HIDE DEF Up
  <1>3. \A m \in 0..n : m \in Up
    BY Zenon, <1>1, <1>2, Upwards
  <1>4. \A k \in 0..n : n - k \in 0..n /\ n - (n - k) = k
    BY SMT
  <1> QED
    BY Zenon, <1>3, <1>4 DEF Up

\* Sequences in a row can be cut apart again.
LEMMA Cut ==
    ASSUME NEW T, NEW n \in Nat, NEW parts \in [1..n -> Seq(T)]
    PROVE  \E whole \in Seq(T) : \E ends : IsCut(parts, whole, n, ends)
  <1> DEFINE first(k) == [i \in 1..k |-> parts[i]]
             Good == {k \in 0..n : \E whole \in Seq(T) : \E ends : IsCut(first(k), whole, k, ends)}
  <1>1. 0 \in Good
    <2> DEFINE ends == [i \in 0..0 |-> 0]
    <2>1. << >> \in Seq(T) /\ Len(<< >>) = 0
      OBVIOUS
    <2>2. IsCut(first(0), << >>, 0, ends)
      BY DEF IsCut
    <2>3. 0 \in 0..n
      OBVIOUS
    <2> QED
      BY Zenon, <2>1, <2>2, <2>3
  <1>2. ASSUME NEW k \in 1..n, k - 1 \in Good
        PROVE  k \in Good
    <2>1. k - 1 \in 0..n /\ k \in 0..n /\ k \in Nat /\ k - 1 \in Nat
      OBVIOUS
    <2>0. PICK whole \in Seq(T) : \E ends : IsCut(first(k - 1), whole, k - 1, ends)
      BY Zenon, <1>2 DEF Good
    <2>2. PICK ends : IsCut(first(k - 1), whole, k - 1, ends)
      BY Zenon, <2>0
    <2> HIDE DEF first, Good
    <2>3. PICK p \in Seq(T) : p = parts[k]
      OBVIOUS
    <2> DEFINE more == whole \o p
               last == [i \in 0..k |-> IF i = k THEN Len(more) ELSE ends[i]]
    <2>4. more \in Seq(T) /\ Len(more) = Len(whole) + Len(p) /\ Len(whole) \in Nat /\ Len(p) \in Nat
      OBVIOUS
    <2>5. \A i \in 0..k - 1 : last[i] = ends[i] /\ ends[i] \in 0..Len(whole)
      BY <2>1, <2>2 DEF IsCut
    <2>6. last[k] = Len(more)
      BY <2>1
    <2>7. ends[0] = 0 /\ ends[k - 1] = Len(whole) /\ \A i \in 1..k - 1 : ends[i - 1] <= ends[i]
      BY Zenon, <2>2 DEF IsCut
    <2> HIDE DEF last
    <2>8. \A i \in 0..k : last[i] \in 0..Len(more)
      <3> HIDE DEF more
      <3> TAKE i \in 0..k
      <3>1. i = k \/ i \in 0..k - 1
        BY <2>1
      <3>2. Len(more) \in 0..Len(more) /\ \A v \in 0..Len(whole) : v \in 0..Len(more)
        BY <2>4
      <3> QED
        BY Zenon, <2>5, <2>6, <3>1, <3>2
    <2>9. last[0] = 0
      BY <2>1, <2>5, <2>7
    <2>10. ASSUME NEW i \in 1..k
           PROVE  last[i - 1] <= last[i] /\ SubSeq(more, last[i - 1] + 1, last[i]) = parts[i]
      <3>1. i - 1 \in 0..k - 1
        BY <2>1
      <3>2. CASE i = k
        <4>1. last[i - 1] = Len(whole) /\ last[i] = Len(more)
          BY <2>5, <2>6, <2>7, <3>1, <3>2
        <4>2. SubSeq(more, Len(whole) + 1, Len(more)) = p
          BY <2>4
        <4> HIDE DEF more
        <4> QED
          BY <2>3, <2>4, <3>2, <4>1, <4>2
      <3>3. CASE i # k
        <4>1. i \in 1..k - 1 /\ i \in 0..k - 1
          BY <2>1, <3>3
        <4>2. PICK a \in 0..Len(whole), b \in 0..Len(whole) :
                 a = ends[i - 1] /\ b = ends[i] /\ a = last[i - 1] /\ b = last[i] /\ a <= b
          BY Zenon, <2>5, <2>7, <3>1, <4>1
        <4>3. SubSeq(more, a + 1, b) = SubSeq(whole, a + 1, b)
          BY <2>4
        <4>4. SubSeq(whole, a + 1, b) = first(k - 1)[i]
          BY <2>2, <4>1, <4>2 DEF IsCut
        <4>5. first(k - 1)[i] = parts[i]
          BY <4>1 DEF first
        <4> QED
          BY Zenon, <4>2, <4>3, <4>4, <4>5
      <3> QED
        BY <3>2, <3>3
    <2> HIDE DEF more
    <2>11. first(k) = [i \in 1..k |-> SubSeq(more, last[i - 1] + 1, last[i])]
      BY Zenon, <2>10 DEF first
    <2>12. IsCut(first(k), more, k, last)
      BY Zenon, <2>6, <2>8, <2>9, <2>10, <2>11 DEF IsCut
    <2> QED
      BY Zenon, <2>1, <2>4, <2>12 DEF Good
  <1>3. n \in Good
    <2>1. n \in 0..n
      OBVIOUS
    <2> HIDE DEF Good
    <2> QED
      BY Zenon, <1>1, <1>2, <2>1, Upwards
  <1>4. first(n) = parts
    OBVIOUS
  <1> HIDE DEF first
  <1> QED
    BY Zenon, <1>3, <1>4

\* Put together, sequences are one that can be cut apart again.
LEMMA CutApart ==
    ASSUME NEW T, NEW n \in Nat, NEW parts \in [1..n -> Seq(T)]
    PROVE  FlattenSeq(parts) \in Seq(T) /\ \E ends : IsCut(parts, FlattenSeq(parts), n, ends)
  <1>1. PICK whole \in Seq(T) : \E ends : IsCut(parts, whole, n, ends)
    BY Zenon, Cut
  <1>2. FlattenSeq(parts) = whole
    BY Zenon, <1>1, PiecesOfOne
  <1> QED
    BY Zenon, <1>1, <1>2

\* The symbols of a written string but for those of the text.
Marks == {Quote, Slash, "n", "r", "t", "u", "0008", "000c"}

\* Characters that are never written as they are.
Controls == {"\n", "\r", "\t"}

\* Marks are no controls.
LEMMA MarksAreNone == \A c \in Marks : c \notin Controls
  <1>1. "\n" \notin Marks
    BY Zenon DEF Marks, Quote, Slash
  <1>2. "\r" \notin Marks
    BY Zenon DEF Marks, Quote, Slash
  <1>3. "\t" \notin Marks
    BY Zenon DEF Marks, Quote, Slash
  <1> QED
    BY Zenon, <1>1, <1>2, <1>3 DEF Controls

\* What a character is written as.
LEMMA EscapedIs ==
    ASSUME NEW c
    PROVE  \/ c \in {Quote, Slash} /\ escaped(c) = <<Slash, c>>
           \/ c = "\n" /\ escaped(c) = <<Slash, "n">>
           \/ c = "\r" /\ escaped(c) = <<Slash, "r">>
           \/ c = "\t" /\ escaped(c) = <<Slash, "t">>
           \/ c = "bs" /\ escaped(c) = <<Slash, "u", "0008">>
           \/ c = "ff" /\ escaped(c) = <<Slash, "u", "000c">>
           \/ c \notin {Quote, Slash} \cup Controls /\ escaped(c) = <<c>>
  <1>1. "\n" \notin {Quote, Slash} /\ "\r" \notin {Quote, Slash} /\ "\t" \notin {Quote, Slash}
    BY Zenon DEF Quote, Slash
  <1>2. "bs" \notin {Quote, Slash} \cup Controls /\ "ff" \notin {Quote, Slash} \cup Controls
    BY Zenon DEF Quote, Slash, Controls
  <1>3. DOMAIN Control = {"bs", "ff"} /\ Control["bs"] = "0008" /\ Control["ff"] = "000c"
    BY Zenon DEF Control
  <1>4. "\n" # "\r" /\ "\n" # "\t" /\ "\r" # "\t"
    BY Zenon
  <1> QED
    BY Zenon, <1>1, <1>2, <1>3, <1>4 DEF escaped, Controls

\* ... is a sequence without controls.
LEMMA EscapedHasNone ==
    ASSUME NEW T, NEW c \in T
    PROVE  escaped(c) \in Seq((T \cup Marks) \ Controls) /\ escaped(c) # << >>
  <1> DEFINE S == (T \cup Marks) \ Controls
  <1>1. \A m \in Marks : m \in S
    BY Zenon, MarksAreNone
  <1>2. Slash \in S /\ "n" \in S /\ "r" \in S /\ "t" \in S /\ "u" \in S /\ "0008" \in S /\ "000c" \in S
    BY Zenon, <1>1 DEF Marks
  <1>3. c \in {Quote, Slash} => c \in S
    BY Zenon, <1>1 DEF Marks
  <1>4. c \notin {Quote, Slash} \cup Controls => c \in S
    BY Zenon
  <1> HIDE DEF S
  <1>5. SUFFICES escaped(c) \in Seq(S) /\ escaped(c) # << >>
    BY Zenon DEF S
  <1>6. ASSUME NEW x \in S, escaped(c) = <<x>>
        PROVE  escaped(c) \in Seq(S) /\ escaped(c) # << >>
    BY SMT, <1>6
  <1>7. ASSUME NEW x \in S, NEW y \in S, escaped(c) = <<x, y>>
        PROVE  escaped(c) \in Seq(S) /\ escaped(c) # << >>
    BY SMT, <1>7
  <1>8. ASSUME NEW x \in S, NEW y \in S, NEW z \in S, escaped(c) = <<x, y, z>>
        PROVE  escaped(c) \in Seq(S) /\ escaped(c) # << >>
    BY SMT, <1>8
  <1>9. CASE c \in {Quote, Slash} /\ escaped(c) = <<Slash, c>>
    BY Zenon, <1>2, <1>3, <1>7, <1>9
  <1>10. CASE c \notin {Quote, Slash} \cup Controls /\ escaped(c) = <<c>>
    BY Zenon, <1>4, <1>6, <1>10
  <1>11. CASE escaped(c) \in {<<Slash, "n">>, <<Slash, "r">>, <<Slash, "t">>}
    BY Zenon, <1>2, <1>7, <1>11
  <1>12. CASE escaped(c) \in {<<Slash, "u", "0008">>, <<Slash, "u", "000c">>}
    BY Zenon, <1>2, <1>8, <1>12
  <1> QED
    BY Zenon, <1>9, <1>10, <1>11, <1>12, EscapedIs

\* Where a sequence stands in another.
StandsAt(s, i, piece) == \A j \in 1..Len(piece) : i + j - 1 \in DOMAIN s /\ s[i + j - 1] = piece[j]

\* ... and is read as that character.
LEMMA EscapedReads ==
    ASSUME NEW s, NEW i \in Nat \ {0}, NEW c, c # "end", StandsAt(s, i, escaped(c))
    PROVE  At(s, i) # Quote /\ character(s, i) = Ok(c, i + Len(escaped(c)))
  <1>0. PICK next : next = i + Len(escaped(c))
    OBVIOUS
  <1> SUFFICES At(s, i) # Quote /\ character(s, i) = Ok(c, next)
    BY Zenon, <1>0
  <1>1. \A x, y, z : /\ Len(<<x>>) = 1 /\ <<x>>[1] = x
                     /\ Len(<<x, y>>) = 2 /\ <<x, y>>[1] = x /\ <<x, y>>[2] = y
                     /\ Len(<<x, y, z>>) = 3
                     /\ <<x, y, z>>[1] = x /\ <<x, y, z>>[2] = y /\ <<x, y, z>>[3] = z
    BY SMT
  <1>2. /\ 1 \in 1..1 /\ 1 \in 1..2 /\ 2 \in 1..2 /\ 1 \in 1..3 /\ 2 \in 1..3 /\ 3 \in 1..3
        /\ i + 1 - 1 = i /\ i + 2 - 1 = i + 1 /\ i + 3 - 1 = i + 2 /\ (i + 1) + 1 = i + 2 /\ (i + 1) + 2 = i + 3
    BY SMT
  <1>3. \A j \in 1..Len(escaped(c)) : /\ At(s, i + j - 1) = escaped(c)[j]
                                      /\ s[i + j - 1] = escaped(c)[j]
    BY Zenon DEF StandsAt, At
  <1>4. ASSUME NEW x, NEW y, escaped(c) = <<x, y>>
        PROVE  At(s, i) = x /\ At(s, i + 1) = y /\ Len(escaped(c)) = 2
    <2>1. Len(<<x, y>>) = 2 /\ <<x, y>>[1] = x /\ <<x, y>>[2] = y
      BY Zenon, <1>1
    <2>2. \A j \in 1..2 : At(s, i + j - 1) = <<x, y>>[j]
      BY Zenon, <1>3, <1>4, <2>1
    <2>3. At(s, i + 1 - 1) = <<x, y>>[1] /\ At(s, i + 2 - 1) = <<x, y>>[2]
      BY Zenon, <1>2, <2>2
    <2> QED
      BY Zenon, <1>2, <1>4, <2>1, <2>3
  <1>5. ASSUME NEW x, NEW y, NEW z, escaped(c) = <<x, y, z>>
        PROVE  At(s, i) = x /\ At(s, i + 1) = y /\ At(s, i + 2) = z /\ Len(escaped(c)) = 3
    <2>1. Len(<<x, y, z>>) = 3 /\ <<x, y, z>>[1] = x /\ <<x, y, z>>[2] = y /\ <<x, y, z>>[3] = z
      BY Zenon, <1>1
    <2>2. \A j \in 1..3 : At(s, i + j - 1) = <<x, y, z>>[j]
      BY Zenon, <1>3, <1>5, <2>1
    <2>3. At(s, i + 1 - 1) = <<x, y, z>>[1] /\ At(s, i + 2 - 1) = <<x, y, z>>[2] /\ At(s, i + 3 - 1) = <<x, y, z>>[3]
      BY Zenon, <1>2, <2>2
    <2> QED
      BY Zenon, <1>2, <1>5, <2>1, <2>3
  <1>6. Slash # "end" /\ Slash # Quote
    BY Zenon DEF Slash, Quote
  <1>7. ASSUME NEW x \in DOMAIN Escape, Escape[x] = c, escaped(c) = <<Slash, x>>
        PROVE  At(s, i) # Quote /\ character(s, i) = Ok(c, next)
    BY Zenon, <1>0, <1>2, <1>4, <1>6, <1>7 DEF character, escape
  <1>8. ASSUME NEW u \in DOMAIN Unit \ {High}, Unit[u] = c, escaped(c) = <<Slash, "u", u>>
        PROVE  At(s, i) # Quote /\ character(s, i) = Ok(c, next)
    <2>1. "u" \notin DOMAIN Escape
      BY Zenon DEF Escape, Quote, Slash
    <2>2. At(s, i) = Slash /\ At(s, i + 1) = "u" /\ At(s, (i + 1) + 1) = u /\ Len(escaped(c)) = 3
      BY Zenon, <1>2, <1>5, <1>8
    <2>3. escape(s, i + 1) = Ok(Unit[u], (i + 1) + 2)
      BY Zenon, <1>8, <2>1, <2>2 DEF escape
    <2> QED
      BY Zenon, <1>0, <1>2, <1>6, <1>8, <2>2, <2>3 DEF character
  <1>9. /\ DOMAIN Escape = {Quote, Slash, "/", "b", "f", "n", "r", "t"}
        /\ Escape["n"] = "\n" /\ Escape["r"] = "\r" /\ Escape["t"] = "\t"
    BY Zenon DEF Escape
  <1>10. Escape[Quote] = Quote /\ Escape[Slash] = Slash
    BY Zenon DEF Escape, Quote, Slash
  <1>11. "0008" \in DOMAIN Unit \ {High} /\ "000c" \in DOMAIN Unit \ {High}
    BY Zenon DEF Unit, High
  <1>12. Unit["0008"] = "bs" /\ Unit["000c"] = "ff"
    BY Zenon DEF Unit
  <1>13. CASE c \notin {Quote, Slash} \cup Controls /\ escaped(c) = <<c>>
    <2>1. Len(<<c>>) = 1 /\ <<c>>[1] = c
      BY Zenon, <1>1
    <2>2. At(s, i + 1 - 1) = <<c>>[1] /\ s[i + 1 - 1] = <<c>>[1]
      BY Zenon, <1>2, <1>3, <1>13, <2>1
    <2>3. At(s, i) = c /\ s[i] = c /\ Len(escaped(c)) = 1
      BY Zenon, <1>2, <1>13, <2>1, <2>2
    <2> QED
      BY Zenon, <1>0, <1>13, <2>3 DEF character
  <1>14. CASE c \in {Quote, Slash} /\ escaped(c) = <<Slash, c>>
    BY Zenon, <1>7, <1>9, <1>10, <1>14
  <1>15. CASE c = "\n" /\ escaped(c) = <<Slash, "n">>
    BY Zenon, <1>7, <1>9, <1>15
  <1>16. CASE c = "\r" /\ escaped(c) = <<Slash, "r">>
    BY Zenon, <1>7, <1>9, <1>16
  <1>17. CASE c = "\t" /\ escaped(c) = <<Slash, "t">>
    BY Zenon, <1>7, <1>9, <1>17
  <1>18. CASE c = "bs" /\ escaped(c) = <<Slash, "u", "0008">>
    BY Zenon, <1>8, <1>11, <1>12, <1>18
  <1>19. CASE c = "ff" /\ escaped(c) = <<Slash, "u", "000c">>
    BY Zenon, <1>8, <1>11, <1>12, <1>19
  <1> QED
    BY Zenon, <1>13, <1>14, <1>15, <1>16, <1>17, <1>18, <1>19, EscapedIs

\* A symbol there is has a place.
LEMMA Place ==
    ASSUME NEW T, NEW s \in Seq(T), NEW i \in Nat \ {0}, At(s, i) # "end"
    PROVE  i <= Len(s)
  <1>1. i \in DOMAIN s
    BY Zenon DEF At
  <1> QED
    BY <1>1

\* Reading a character takes one symbol at least, and none that is not there.
LEMMA Advances ==
    ASSUME NEW T, NEW s \in Seq(T), NEW i \in Nat \ {0}, character(s, i).ok
    PROVE  character(s, i).next \in Nat /\ i < character(s, i).next /\ character(s, i).next <= Len(s) + 1
  <1>1. /\ \A v, n : Ok(v, n).ok /\ Ok(v, n).next = n
        /\ ~Err.ok
    BY Zenon DEF Ok, Err
  <1>2. PICK len \in Nat : len = Len(s)
    OBVIOUS
  <1>3. \A k \in Nat \ {0} : At(s, k) # "end" => k <= len
    BY Zenon, <1>2, Place
  <1>4. "end" \notin DOMAIN Escape /\ "end" \notin DOMAIN Unit /\ "end" # "u" /\ Slash # "end"
    BY Zenon DEF Escape, Unit, Quote, Slash, High, Low
  <1>5. {i + 1, (i + 1) + 1, (i + 1) + 2, (i + 1) + 3, (i + 1) + 4} \subseteq Nat \ {0}
    BY SMT
  <1>6. At(s, i) # "end"
    BY Zenon, <1>1 DEF character
  <1>7. CASE At(s, i) # Slash
    <2>1. character(s, i).next = i + 1
      BY Zenon, <1>1, <1>6, <1>7 DEF character
    <2>2. i <= len
      BY Zenon, <1>3, <1>6
    <2> QED
      BY SMT, <1>2, <2>1, <2>2
  <1>8. CASE At(s, i) = Slash
    <2>1. character(s, i) = escape(s, i + 1)
      BY Zenon, <1>6, <1>8 DEF character
    <2>2. CASE At(s, i + 1) \in DOMAIN Escape
      <3>1. character(s, i).next = (i + 1) + 1
        BY Zenon, <1>1, <2>1, <2>2 DEF escape
      <3>2. i + 1 <= len
        BY Zenon, <1>3, <1>4, <1>5, <2>2
      <3> QED
        BY SMT, <1>2, <3>1, <3>2
    <2>3. CASE At(s, i + 1) \notin DOMAIN Escape
      <3>1. At(s, (i + 1) + 1) \in DOMAIN Unit
        BY Zenon, <1>1, <2>1, <2>3 DEF escape
      <3>2. (i + 1) + 1 <= len
        BY Zenon, <1>3, <1>4, <1>5, <3>1
      <3>3. \/ character(s, i).next = (i + 1) + 2
            \/ character(s, i).next = (i + 1) + 5 /\ At(s, (i + 1) + 4) \in DOMAIN Unit
        <4>1. \/ escape(s, i + 1) = Err
              \/ escape(s, i + 1) = Ok(Unit[At(s, (i + 1) + 1)], (i + 1) + 2)
              \/ escape(s, i + 1) = Ok(Replacement, (i + 1) + 2)
              \/ escape(s, i + 1) = Ok(Pair, (i + 1) + 5) /\ At(s, (i + 1) + 4) \in DOMAIN Unit
          BY Zenon, <2>3 DEF escape
        <4>2. PICK e : e = escape(s, i + 1) /\ e.ok /\ character(s, i).next = e.next
          BY Zenon, <2>1
        <4>3. CASE e = Err
          BY Zenon, <1>1, <4>2, <4>3
        <4>4. ASSUME NEW v, NEW n, e = Ok(v, n)
              PROVE  character(s, i).next = n
          BY Zenon, <1>1, <4>2, <4>4
        <4> QED
          BY Zenon, <4>1, <4>2, <4>3, <4>4
      <3>4. At(s, (i + 1) + 4) \in DOMAIN Unit => (i + 1) + 4 <= len
        BY Zenon, <1>3, <1>4, <1>5
      <3> QED
        BY SMT, <1>2, <3>2, <3>3, <3>4
    <2> QED
      BY <2>2, <2>3
  <1> QED
    BY <1>7, <1>8

\* What is read from a place on, by what is read from later ones on.
ReadsOn(s, f, i) ==
    LET c == character(s, i)
    IN  IF At(s, i) = Quote THEN Ok(<< >>, i + 1)
        ELSE IF ~c.ok \/ ~f[c.next].ok THEN Err
        ELSE Ok(<<c.value>> \o f[c.next].value, f[c.next].next)

\* There is a function like that: from the end of the text, place by place.
LEMMA RestExists ==
    ASSUME NEW T, NEW s \in Seq(T)
    PROVE  \E f : f = [i \in 1..Len(s) + 1 |-> ReadsOn(s, f, i)]
  <1> DEFINE From(k, f) == f = [i \in k..Len(s) + 1 |-> ReadsOn(s, f, i)]
             Known == {n \in 0..Len(s) + 1 : \E f : From(Len(s) + 2 - n, f)}
  <1>1. PICK len \in Nat : len = Len(s)
    OBVIOUS
  <1> HIDE DEF Known, From
  <1>2. 0 \in Known
    <2>1. PICK f : f = [i \in {} |-> i]
      OBVIOUS
    <2>2. (Len(s) + 2 - 0)..Len(s) + 1 = {}
      BY SMT, <1>1
    <2>3. f = [i \in {} |-> ReadsOn(s, f, i)]
      BY SMT, <2>1
    <2>4. From(Len(s) + 2 - 0, f)
      BY Zenon, <2>2, <2>3 DEF From
    <2>5. 0 \in 0..Len(s) + 1
      BY SMT, <1>1
    <2> QED
      BY Zenon, <2>4, <2>5 DEF Known
  <1>3. ASSUME NEW n \in 1..Len(s) + 1, n - 1 \in Known
        PROVE  n \in Known
    <2>0. n \in 0..Len(s) + 1
      BY SMT, <1>1
    <2>1. PICK k \in 1..Len(s) + 1 : k = Len(s) + 2 - n /\ k + 1 = Len(s) + 2 - (n - 1) /\ n - 1 \in 0..Len(s) + 1
      <3>1. n \in Nat /\ n >= 1 /\ n <= len + 1 /\ Len(s) = len
        BY SMT, <1>1
      <3>2. Len(s) + 2 - n \in 1..Len(s) + 1
        BY SMT, <3>1
      <3>3. (Len(s) + 2 - n) + 1 = Len(s) + 2 - (n - 1) /\ n - 1 \in 0..Len(s) + 1
        BY SMT, <3>1
      <3> QED
        BY Zenon, <3>2, <3>3
    <2>2. PICK f : f = [i \in k + 1..Len(s) + 1 |-> ReadsOn(s, f, i)]
      BY Zenon, <1>3, <2>1 DEF Known, From
    <2> DEFINE g == [i \in k..Len(s) + 1 |-> IF i = k THEN ReadsOn(s, f, k) ELSE f[i]]
    <2>3. \A i \in k..Len(s) + 1 : i = k \/ i \in k + 1..Len(s) + 1
      BY SMT, <1>1
    <2>4. \A i \in k + 1..Len(s) + 1 : i \in k..Len(s) + 1 /\ i # k
      BY SMT, <1>1
    <2>5. \A i \in k + 1..Len(s) + 1 : g[i] = f[i] /\ f[i] = ReadsOn(s, f, i)
      BY Zenon, <2>2, <2>4
    <2>6. k \in k..Len(s) + 1
      BY SMT, <1>1
    <2>7. g[k] = ReadsOn(s, f, k)
      BY Zenon, <2>6
    <2> HIDE DEF g
    <2>8. ASSUME NEW i \in k..Len(s) + 1
          PROVE  ReadsOn(s, g, i) = ReadsOn(s, f, i)
      <3>1. CASE character(s, i).ok
        <4>1. i \in Nat \ {0}
          BY SMT, <1>1
        <4>2. character(s, i).next \in Nat /\ i < character(s, i).next /\ character(s, i).next <= Len(s) + 1
          BY Zenon, <3>1, <4>1, Advances
        <4>3. character(s, i).next \in k + 1..Len(s) + 1
          BY SMT, <1>1, <4>1, <4>2
        <4> QED
          BY Zenon, <2>5, <4>3 DEF ReadsOn
      <3>2. CASE ~character(s, i).ok
        BY Zenon, <3>2 DEF ReadsOn
      <3> QED
        BY <3>1, <3>2
    <2>9. \A i \in k..Len(s) + 1 : g[i] = ReadsOn(s, g, i)
      BY Zenon, <2>3, <2>5, <2>7, <2>8
    <2>10. g = [i \in k..Len(s) + 1 |-> ReadsOn(s, g, i)]
      <3>1. g = [i \in k..Len(s) + 1 |-> g[i]]
        BY Zenon DEF g
      <3> QED
        BY Zenon, <2>9, <3>1
    <2> QED
      BY Zenon, <2>0, <2>1, <2>10 DEF Known, From
  <1>4. Len(s) + 1 \in Known
    <2>1. Len(s) + 1 \in Nat /\ Len(s) + 1 \in 0..Len(s) + 1
      BY SMT, <1>1
    <2> QED
      BY Zenon, <1>2, <1>3, <2>1, Upwards
  <1>5. Len(s) + 2 - (Len(s) + 1) = 1
    BY SMT, <1>1
  <1>6. PICK f : From(Len(s) + 2 - (Len(s) + 1), f)
    BY Zenon, <1>4 DEF Known
  <1> QED
    BY Zenon, <1>5, <1>6 DEF From

\* So the parser's loop does what a round of it says.
LEMMA RestIs ==
    ASSUME NEW T, NEW s \in Seq(T), NEW i \in 1..Len(s) + 1
    PROVE  string_rest(s)[i] = ReadsOn(s, string_rest(s), i)
  <1> DEFINE rest == CHOOSE f : f = [j \in 1..Len(s) + 1 |-> ReadsOn(s, f, j)]
  <1>1. string_rest(s) = rest
    BY Zenon DEF string_rest, ReadsOn
  <1>2. rest = [j \in 1..Len(s) + 1 |-> ReadsOn(s, rest, j)]
    BY Zenon, RestExists
  <1> HIDE DEF rest
  <1> QED
    BY Zenon, <1>1, <1>2

\* A piece of a sequence.
LEMMA PieceIs ==
    ASSUME NEW T, NEW whole \in Seq(T), NEW a \in Nat, NEW b \in Nat, a <= b, b <= Len(whole)
    PROVE  /\ SubSeq(whole, a + 1, b) \in Seq(T) /\ Len(SubSeq(whole, a + 1, b)) = b - a
           /\ \A j \in 1..b - a : SubSeq(whole, a + 1, b)[j] = whole[a + j]
  <1>1. SubSeq(whole, a + 1, b) \in Seq(T)
    OBVIOUS
  <1>2. Len(SubSeq(whole, a + 1, b)) = b - a
    OBVIOUS
  <1>3. \A j \in 1..b - a : SubSeq(whole, a + 1, b)[j] = whole[a + j]
    OBVIOUS
  <1> QED
    BY Zenon, <1>1, <1>2, <1>3

\* An item and what comes after it.
LEMMA FromPlace ==
    ASSUME NEW T, NEW whole \in Seq(T), NEW k \in 1..Len(whole)
    PROVE  <<whole[k]>> \o SubSeq(whole, k + 1, Len(whole)) = SubSeq(whole, k, Len(whole))
  <1>1. SubSeq(whole, k, k) \o SubSeq(whole, k + 1, Len(whole)) = SubSeq(whole, k, Len(whole))
    OBVIOUS
  <1> QED
    BY Zenon, <1>1, OneItem

\* A sequence between two items.
LEMMA Between ==
    ASSUME NEW T, NEW whole \in Seq(T), NEW q \in T
    PROVE  /\ <<q>> \o whole \o <<q>> \in Seq(T) /\ Len(<<q>> \o whole \o <<q>>) = Len(whole) + 2
           /\ (<<q>> \o whole \o <<q>>)[1] = q /\ (<<q>> \o whole \o <<q>>)[Len(whole) + 2] = q
           /\ \A j \in 1..Len(whole) : (<<q>> \o whole \o <<q>>)[j + 1] = whole[j]
  <1>1. PICK one \in Seq(T) : one = <<q>> /\ Len(one) = 1 /\ one[1] = q
    <2>1. <<q>> \in Seq(T) /\ Len(<<q>>) = 1 /\ <<q>>[1] = q
      OBVIOUS
    <2> QED
      BY Zenon, <2>1
  <1>2. PICK most \in Seq(T) : /\ most = one \o whole /\ Len(most) = Len(whole) + 1 /\ most[1] = q
                               /\ \A j \in 1..Len(whole) : most[j + 1] = whole[j]
    <2>1. one \o whole \in Seq(T)
      OBVIOUS
    <2>2. Len(one \o whole) = Len(whole) + 1
      BY <1>1
    <2>3. (one \o whole)[1] = q
      BY <1>1
    <2>4. \A j \in 1..Len(whole) : (one \o whole)[j + 1] = whole[j]
      BY <1>1
    <2> QED
      BY Zenon, <2>1, <2>2, <2>3, <2>4
  <1>3. most \o one \in Seq(T)
    OBVIOUS
  <1>4. Len(most \o one) = Len(whole) + 2
    BY <1>1, <1>2
  <1>5. (most \o one)[1] = q /\ \A j \in 1..Len(whole) : (most \o one)[j + 1] = whole[j]
    BY <1>2
  <1>6. (most \o one)[Len(whole) + 2] = q
    BY <1>1, <1>2
  <1> QED
    BY Zenon, <1>1, <1>2, <1>3, <1>4, <1>5, <1>6

\* A written string: quotes, and between them the characters one after the other.
LEMMA WrittenIs ==
    ASSUME NEW T, NEW text \in Seq(T)
    PROVE  \E whole \in Seq((T \cup Marks) \ Controls) :
              /\ write_escaped(text) = <<Quote>> \o whole \o <<Quote>>
              /\ \E ends : IsCut([k \in 1..Len(text) |-> escaped(text[k])], whole, Len(text), ends)
  <1> DEFINE S == (T \cup Marks) \ Controls
             n == Len(text)
             parts == [k \in 1..n |-> escaped(text[k])]
  <1>1. n \in Nat /\ DOMAIN text = 1..n
    OBVIOUS
  <1>2. \A k \in 1..n : text[k] \in T
    OBVIOUS
  <1> HIDE DEF n
  <1>3. \A k \in 1..n : escaped(text[k]) \in Seq(S)
    BY Zenon, <1>2, EscapedHasNone
  <1> HIDE DEF S
  <1>4. parts \in [1..n -> Seq(S)]
    BY Zenon, <1>3
  <1>5. write_escaped(text) = <<Quote>> \o FlattenSeq(parts) \o <<Quote>>
    BY Zenon, <1>1 DEF write_escaped
  <1> HIDE DEF parts
  <1>6. FlattenSeq(parts) \in Seq(S) /\ \E ends : IsCut(parts, FlattenSeq(parts), n, ends)
    BY Zenon, <1>1, <1>4, CutApart
  <1> QED
    BY Zenon, <1>5, <1>6 DEF S, n, parts

\* "One JSON object per line" (envelope.rs): whatever a device says, no string
\* that is printed, key or value, has a newline in it (write_escaped).
THEOREM StringIsOneLine ==
    ASSUME NEW T, NEW text \in Seq(T)
    PROVE  Newline \notin Range(write_escaped(text))
  <1> DEFINE S == (T \cup Marks) \ Controls
  <1>1. PICK whole \in Seq(S) : write_escaped(text) = <<Quote>> \o whole \o <<Quote>>
    BY Zenon, WrittenIs
  <1>2. Quote \in S
    BY Zenon, MarksAreNone DEF Marks
  <1>3. Newline \notin S
    BY Zenon DEF Newline, Controls
  <1> HIDE DEF S
  <1>4. <<Quote>> \o whole \o <<Quote>> \in Seq(S)
    BY <1>2
  <1>5. \A w \in Seq(S) : \A j \in DOMAIN w : w[j] \in S
    OBVIOUS
  <1> QED
    BY Zenon, <1>1, <1>3, <1>4, <1>5 DEF Range

\* A number up to another.
LEMMA Within ==
    ASSUME NEW n \in Nat, NEW a \in 0..n
    PROVE  a \in Nat /\ a <= n
  OBVIOUS

\* The last round of the loop.
LEMMA ReadsLast ==
    ASSUME NEW s, NEW f, NEW p, At(s, p) = Quote
    PROVE  ReadsOn(s, f, p) = Ok(<< >>, p + 1)
  BY Zenon DEF ReadsOn

\* Where a piece of a sequence stands that stands at a place itself.
LEMMA PieceStands ==
    ASSUME NEW T, NEW whole \in Seq(T), NEW s, NEW i \in Nat \ {0}, StandsAt(s, i, whole),
           NEW a \in Nat, NEW b \in Nat, a <= b, b <= Len(whole)
    PROVE  StandsAt(s, i + a, SubSeq(whole, a + 1, b))
  <1>1. PICK piece : piece = SubSeq(whole, a + 1, b)
    OBVIOUS
  <1>2. Len(piece) = b - a /\ \A j \in 1..b - a : piece[j] = whole[a + j]
    <2>1. /\ Len(SubSeq(whole, a + 1, b)) = b - a
          /\ \A j \in 1..b - a : SubSeq(whole, a + 1, b)[j] = whole[a + j]
      BY PieceIs
    <2> QED
      BY Zenon, <1>1, <2>1
  <1>3. \A j \in 1..b - a : a + j \in 1..Len(whole) /\ (i + a) + j - 1 = i + (a + j) - 1
    <2>1. PICK len \in Nat : len = Len(whole)
      OBVIOUS
    <2>2. b <= len
      BY <2>1
    <2>3. \A j \in 1..b - a : a + j \in 1..len /\ (i + a) + j - 1 = i + (a + j) - 1
      BY SMT, <2>2
    <2> QED
      BY Zenon, <2>1, <2>3
  <1>4. ASSUME NEW j \in 1..b - a
        PROVE  (i + a) + j - 1 \in DOMAIN s /\ s[(i + a) + j - 1] = piece[j]
    BY Zenon, <1>2, <1>3 DEF StandsAt
  <1> QED
    BY Zenon, <1>1, <1>2, <1>3, <1>4 DEF StandsAt

\* What is written between the quotes, cut into what is written of each character.
Written(text, whole, ends) == IsCut([k \in 1..Len(text) |-> escaped(text[k])], whole, Len(text), ends)

\* What is between the quotes is read character by character.
LEMMA CharactersComeBack ==
    ASSUME NEW T, "end" \notin T, NEW text \in Seq(T), NEW S, NEW whole \in Seq(S),
           NEW ends, Written(text, whole, ends), NEW U, NEW s \in Seq(U), NEW i \in Nat \ {0},
           StandsAt(s, i, whole), At(s, i + Len(whole)) = Quote
    PROVE  string_rest(s)[i] = Ok(text, i + Len(whole) + 1)
  <1>0. PICK n, len, e, parts : /\ n = Len(text) /\ len = Len(whole) /\ e = i + len
                                /\ parts = [k \in 1..Len(text) |-> escaped(text[k])]
    OBVIOUS
  <1> DEFINE rest == string_rest(s)
             Good == {k \in 0..n : rest[i + ends[k]] = Ok(SubSeq(text, k + 1, n), e + 1)}
  <1> HIDE DEF rest, Good
  <1>1. n \in Nat /\ len \in Nat /\ Len(s) \in Nat /\ n \in 0..n /\ 0 \in 0..n
    BY <1>0
  <1>9. At(s, e) = Quote
    BY Zenon, <1>0
  <1>10. e <= Len(s)
    <2>1. e \in Nat \ {0}
      BY SMT, <1>0, <1>1
    <2>2. Quote # "end"
      BY Zenon DEF Quote
    <2> QED
      BY Zenon, <1>9, <2>1, <2>2, Place
  <1>2. /\ \A k \in 0..n : ends[k] \in 0..len
        /\ \A k \in 1..n : ends[k - 1] <= ends[k]
        /\ ends[0] = 0 /\ ends[n] = len
        /\ \A k \in 1..n : escaped(text[k]) = SubSeq(whole, ends[k - 1] + 1, ends[k])
    <2>1. IsCut(parts, whole, n, ends)
      BY Zenon, <1>0 DEF Written
    <2>2. \A k \in 1..n : parts[k] = escaped(text[k])
      BY Zenon, <1>0
    <2> QED
      BY Zenon, <1>0, <2>1, <2>2 DEF IsCut
  <1>3. \A p \in 1..Len(s) + 1 : rest[p] = ReadsOn(s, rest, p)
    BY Zenon, RestIs DEF rest
  <1>4. \A a \in 0..len : a \in Nat /\ a <= len
    BY Zenon, <1>1, Within
  <1>5. n \in Good
    <2>1. e \in 1..Len(s) + 1
      BY SMT, <1>0, <1>1, <1>10
    <2>2. rest[e] = Ok(<< >>, e + 1)
      BY Zenon, <1>9, <1>3, <2>1, ReadsLast
    <2>3. SubSeq(text, n + 1, n) = << >>
      BY <1>0
    <2> QED
      BY Zenon, <1>0, <1>1, <1>2, <2>2, <2>3 DEF Good
  <1>6. ASSUME NEW k \in 1..n, k \in Good
        PROVE  k - 1 \in Good
    <2>1. k - 1 \in 0..n /\ k \in 0..n /\ (k - 1) + 1 = k /\ k \in DOMAIN text
      BY <1>0, <1>1
    <2>2. PICK a, b : a = ends[k - 1] /\ b = ends[k]
      OBVIOUS
    <2>3. a \in Nat /\ b \in Nat /\ a <= b /\ b <= len
      BY Zenon, <1>2, <1>4, <2>1, <2>2
    <2>4. PICK c \in T : c = text[k]
      BY <2>1
    <2>5. PICK piece : piece = escaped(c) /\ piece = SubSeq(whole, a + 1, b)
      BY Zenon, <1>2, <2>2, <2>4
    <2>6. PICK p, q, tail, last : /\ p = i + a /\ q = i + b
                                  /\ tail = SubSeq(text, k + 1, n) /\ last = e + 1
      OBVIOUS
    <2>7. p \in Nat \ {0} /\ p \in 1..Len(s) + 1
      BY SMT, <1>0, <1>1, <1>10, <2>3, <2>6
    <2>8. StandsAt(s, p, escaped(c)) /\ p + Len(escaped(c)) = q
      <3>1. b <= Len(whole)
        BY Zenon, <1>0, <2>3
      <3>2. whole \in Seq(S) /\ StandsAt(s, i, whole) /\ i \in Nat \ {0}
        OBVIOUS
      <3>3. StandsAt(s, i + a, SubSeq(whole, a + 1, b))
        BY Zenon, <2>3, <3>1, <3>2, PieceStands
      <3>4. Len(SubSeq(whole, a + 1, b)) = b - a
        BY <2>3, <3>1, PieceIs
      <3>5. (i + a) + (b - a) = i + b
        BY SMT, <2>3
      <3> QED
        BY Zenon, <2>5, <2>6, <3>3, <3>4, <3>5
    <2>9. At(s, p) # Quote /\ character(s, p) = Ok(c, q)
      <3>1. c # "end"
        BY Zenon
      <3>2. At(s, p) # Quote /\ character(s, p) = Ok(c, p + Len(escaped(c)))
        BY Zenon, <2>7, <2>8, <3>1, EscapedReads
      <3> QED
        BY Zenon, <2>8, <3>2
    <2>10. rest[q] = Ok(tail, last)
      BY Zenon, <1>6, <2>2, <2>6 DEF Good
    <2>11. ReadsOn(s, rest, p) = Ok(<<c>> \o tail, last)
      <3>1. character(s, p).ok /\ character(s, p).value = c /\ character(s, p).next = q
        BY SMT, <2>9 DEF Ok
      <3>2. rest[q].ok /\ rest[q].value = tail /\ rest[q].next = last
        BY SMT, <2>10 DEF Ok
      <3> QED
        BY Zenon, <2>9, <3>1, <3>2 DEF ReadsOn
    <2>12. <<c>> \o tail = SubSeq(text, (k - 1) + 1, n)
      BY Zenon, <1>0, <2>1, <2>4, <2>6, FromPlace
    <2> QED
      BY Zenon, <1>3, <2>1, <2>2, <2>6, <2>7, <2>11, <2>12 DEF Good
  <1>7. 0 \in Good
    BY Zenon, <1>1, <1>5, <1>6, Downwards
  <1>8. i + 0 = i /\ SubSeq(text, 0 + 1, n) = text
    BY <1>0
  <1> QED
    BY Zenon, <1>0, <1>2, <1>7, <1>8 DEF Good, rest

\* The printer and the parser of json.rs agree: wherever a written string stands
\* in a line, the parser reads it back whole, whatever is in it, and goes on behind
\* it.
THEOREM StringComesBack ==
    ASSUME NEW T, "end" \notin T, NEW text \in Seq(T),
           NEW U, NEW s \in Seq(U), NEW i \in Nat \ {0}, StandsAt(s, i, write_escaped(text))
    PROVE  parse_string(s, i) = Ok(text, i + Len(write_escaped(text)))
  <1> DEFINE S == (T \cup Marks) \ Controls
  <1>1. PICK whole \in Seq(S) : /\ write_escaped(text) = <<Quote>> \o whole \o <<Quote>>
                                /\ \E ends : Written(text, whole, ends)
    BY Zenon, WrittenIs DEF Written
  <1>2. Quote \in S
    BY Zenon, MarksAreNone DEF Marks
  <1> HIDE DEF S
  <1>3. PICK len \in Nat : len = Len(whole)
    OBVIOUS
  <1>4. PICK w \in Seq(S) : w = <<Quote>> \o whole \o <<Quote>>
    BY Zenon, <1>2, Between
  <1>5. Len(w) = len + 2 /\ w[1] = Quote /\ w[len + 2] = Quote /\ \A j \in 1..len : w[j + 1] = whole[j]
    BY <1>2, <1>3, <1>4, Between
  <1>6. \A j \in 1..len + 2 : i + j - 1 \in DOMAIN s /\ s[i + j - 1] = w[j]
    BY Zenon, <1>1, <1>4, <1>5 DEF StandsAt
  <1>7. /\ 1 \in 1..len + 2 /\ len + 2 \in 1..len + 2 /\ i + 1 - 1 = i /\ i + (len + 2) - 1 = (i + 1) + len
        /\ i + 1 \in Nat \ {0} /\ ((i + 1) + len) + 1 = i + (len + 2)
        /\ \A j \in 1..len : j + 1 \in 1..len + 2 /\ i + (j + 1) - 1 = (i + 1) + j - 1
    BY SMT
  <1>8. At(s, i) = Quote /\ At(s, (i + 1) + len) = Quote /\ (i + 1) + len \in DOMAIN s
    BY Zenon, <1>5, <1>6, <1>7 DEF At
  <1>9. StandsAt(s, i + 1, whole)
    BY <1>3, <1>5, <1>6, <1>7 DEF StandsAt
  <1>10. string_rest(s)[i + 1] = Ok(text, ((i + 1) + len) + 1)
    <2>0. PICK h \in Nat \ {0} : h = i + 1
      BY Zenon, <1>7
    <2>1. At(s, h + Len(whole)) = Quote /\ StandsAt(s, h, whole)
      BY Zenon, <1>3, <1>8, <1>9, <2>0
    <2>2. PICK ends : Written(text, whole, ends)
      BY Zenon, <1>1
    <2>3. string_rest(s)[h] = Ok(text, h + Len(whole) + 1)
      BY Zenon, <2>1, <2>2, CharactersComeBack
    <2> QED
      BY Zenon, <1>3, <2>0, <2>3
  <1> QED
    BY Zenon, <1>1, <1>4, <1>5, <1>7, <1>8, <1>10 DEF parse_string

=============================================================================
