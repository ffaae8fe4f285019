----------------------------- MODULE KasaPoller -----------------------------
(***************************************************************************)
(* The Kasa module (service/src/kasa.rs): one thread that discovers plugs  *)
(* from time to time, holds a KLAP session with each, and polls them for   *)
(* their energy readings.  A plug's name is not part of the discovery; it  *)
(* is asked for when a session is opened.                                  *)
(*                                                                         *)
(* The list of devices and the list of sessions beside it are functions    *)
(* from addresses.  A session is the plug it was opened with; it works     *)
(* while that plug still knows it and holds the address.                   *)
(***************************************************************************)
EXTENDS Integers, FiniteSets, TLC

CONSTANTS
    Plugs,       \* the plugs
    Addresses,   \* the addresses of the LAN they may hold
    Static,      \* cfg.static_devices
    None,        \* no plug at an address, no identity, name or session
    Interval,    \* the discovery interval, in rounds of polling
    MaxMoves,    \* bound: plugs that come, go, or change their address
    MaxForgets,  \* bound: plugs that forget their sessions
    MaxFaults    \* bound: lost replies, failed requests, binds and appends

ASSUME KasaAssumption ==
    /\ Static \subseteq Addresses
    /\ None \notin Plugs
    /\ Interval \in Nat \ {0}
    /\ {MaxMoves, MaxForgets, MaxFaults} \subseteq Nat

VARIABLES
    host,       \* who holds an address
    known,      \* addresses whose session the plug still knows
    found,      \* the discovery's list in the making
    devices,    \* the devices polled: identity and name
    sessions,   \* their sessions
    registry,   \* what /devices shows
    rounds,     \* rounds of polling since the last discovery
    pc,
    at,         \* the address being visited
    todo,       \* addresses of the round still to visit
    lines,      \* readings of the round: address, identity, name, true origin
    moves, forgets, faults,
    moved,      \* history: addresses that changed hands since discovery began
    dead        \* history: addresses whose session was dead at the last visit

environment == <<host, moves, moved, forgets>>
polled == <<devices, sessions, registry, known>>
vars == <<environment, found, polled, rounds, pc, at, todo, lines, faults, dead>>

\* A device as discovery finds it: no name.
Unnamed(id) == [id |-> id, name |-> None]

StaticDevices == [a \in Static |-> Unnamed(None)]

Init ==
    /\ host \in {h \in [Addresses -> Plugs \cup {None}] :
                    \A p \in Plugs : Cardinality({a \in Addresses : h[a] = p}) <= 1}
    /\ known = {}
    /\ found = << >> /\ devices = << >> /\ sessions = << >> /\ registry = << >>
    /\ rounds = Interval
    /\ pc = "loop"
    /\ at = None /\ todo = {} /\ lines = {}
    /\ moves = 0 /\ forgets = 0 /\ faults = 0
    /\ moved = {} /\ dead = {}

\* Something fails that worked the last time.
Fault == faults < MaxFaults /\ faults' = faults + 1

-----------------------------------------------------------------------------
(* Discovery.                                                              *)

Due == pc = "loop" /\ rounds >= Interval

\* Mutant: sessions survive a discovery that finds the same address.
PublishKeeping(list) ==
    /\ devices' = list
    /\ sessions' = [a \in DOMAIN list |->
                        IF a \in DOMAIN sessions THEN sessions[a] ELSE None]
    /\ registry' = list
    /\ known' = known \cap DOMAIN list
    /\ rounds' = 0
    /\ todo' = DOMAIN list
    /\ pc' = "poll"
    /\ dead' = {}

\* The new list replaces the old one, all sessions are dropped, and the round
\* of polling starts.
Publish(list) ==
    /\ devices' = list
    /\ sessions' = [a \in DOMAIN list |-> None]
    /\ registry' = list
    /\ known' = {}
    /\ rounds' = 0
    /\ todo' = DOMAIN list
    /\ pc' = "poll"
    /\ dead' = {}

\* Mutant: what is known is not asked again.
DiscoverMore ==
    /\ Due
    /\ found' = StaticDevices @@ devices
    /\ moved' = {}
    /\ pc' = "collect"
    /\ UNCHANGED <<host, moves, forgets, polled, rounds, at, todo, lines, faults, dead>>

\* The probe is broadcast.
Discover ==
    /\ Due
    /\ found' = StaticDevices
    /\ moved' = {}
    /\ pc' = "collect"
    /\ UNCHANGED <<host, moves, forgets, polled, rounds, at, todo, lines, faults, dead>>

\* Binding the socket or sending the probe fails: only the static devices.
DiscoverFails ==
    /\ Due
    /\ Fault
    /\ Publish(StaticDevices)
    /\ moved' = {}
    /\ UNCHANGED <<host, moves, forgets, found, at, lines>>

\* The first reply from an address counts, and static devices come first.
Reply(a) ==
    /\ pc = "collect"
    /\ host[a] # None
    /\ a \notin DOMAIN found
    /\ found' = [b \in DOMAIN found \cup {a} |->
                    IF b = a THEN Unnamed(host[a]) ELSE found[b]]
    /\ UNCHANGED <<environment, polled, rounds, pc, at, todo, lines, faults, dead>>

\* The ten seconds are over; whoever is there has answered, or a reply was lost.
CollectEnds ==
    /\ pc = "collect"
    /\ \/ {a \in Addresses : host[a] # None} \subseteq DOMAIN found /\ UNCHANGED faults
       \/ Fault
    /\ Publish(found)
    /\ UNCHANGED <<environment, found, at, lines>>

-----------------------------------------------------------------------------
(* A round of polling.                                                     *)

\* Discovery is not due: the round starts.
StartRound ==
    /\ pc = "loop"
    /\ rounds < Interval
    /\ todo' = DOMAIN devices
    /\ pc' = "poll"
    /\ UNCHANGED <<environment, found, polled, rounds, at, lines, faults, dead>>

\* Mutant: the session is kept.
AbandonKeeping(a) ==
    /\ UNCHANGED <<sessions, known>>
    /\ pc' = "poll"
    /\ at' = None

\* The poll of a device failed: its slot is emptied.  What the plug knows of a
\* session nobody has any more is not recorded.
Abandon(a) ==
    /\ sessions' = [sessions EXCEPT ![a] = None]
    /\ known' = known \ {a}
    /\ pc' = "poll"
    /\ at' = None

\* The next device: with a session it is asked for a reading.
Resume(a) ==
    /\ pc = "poll"
    /\ a \in todo
    /\ sessions[a] # None
    /\ pc' = "energy"
    /\ at' = a
    /\ todo' = todo \ {a}
    /\ UNCHANGED <<environment, found, polled, rounds, lines, faults, dead>>

\* Without one, two handshakes open it.  A plug knows its newest session only.
Handshake(a) ==
    /\ pc = "poll"
    /\ a \in todo
    /\ sessions[a] = None
    /\ host[a] # None
    /\ sessions' = [sessions EXCEPT ![a] = host[a]]
    /\ known' = {b \in known : sessions[b] # host[a]} \cup {a}
    /\ pc' = IF devices[a].name = None THEN "info" ELSE "energy"
    /\ at' = a
    /\ todo' = todo \ {a}
    /\ UNCHANGED <<environment, found, devices, registry, rounds, lines, faults, dead>>

\* A request fails because it must, or it is one more fault.
Broken(works) ==
    /\ works => faults < MaxFaults
    /\ faults' = IF works THEN faults + 1 ELSE faults

HandshakeFails(a) ==
    /\ pc = "poll"
    /\ a \in todo
    /\ sessions[a] = None
    /\ Broken(host[a] # None)
    /\ Abandon(a)
    /\ todo' = todo \ {a}
    /\ UNCHANGED <<environment, found, devices, registry, rounds, lines, dead>>

\* A request in the session of the address in hand is answered.
Works == at \in known /\ host[at] = sessions[at]

\* get_device_info: only the list of the thread learns the name.
LearnName ==
    /\ pc = "info"
    /\ Works
    /\ devices' = [devices EXCEPT ![at].name = host[at]]
    /\ pc' = "energy"
    /\ UNCHANGED <<environment, found, sessions, registry, known, rounds, at, todo,
                    lines, faults, dead>>

\* Its failure is ignored, and the session kept.
NameFails ==
    /\ pc = "info"
    /\ Broken(Works)
    /\ pc' = "energy"
    /\ UNCHANGED <<environment, found, polled, rounds, at, todo, lines, dead>>

\* get_energy_usage: the reading carries what the list says of the address.
ReadEnergy ==
    /\ pc = "energy"
    /\ Works
    /\ lines' = lines \cup {[ip |-> at, id |-> devices[at].id, name |-> devices[at].name,
                              from |-> host[at]]}
    /\ pc' = "poll"
    /\ at' = None
    /\ dead' = dead \ {at}
    /\ UNCHANGED <<environment, found, polled, rounds, todo, faults>>

EnergyFails ==
    /\ pc = "energy"
    /\ Broken(Works)
    /\ dead' = IF Works \/ host[at] = None THEN dead \ {at} ELSE dead \cup {at}
    /\ Abandon(at)
    /\ UNCHANGED <<environment, found, devices, registry, rounds, todo, lines>>

\* Mutant: the time of the last discovery is set every round.
EndRoundUncounted ==
    /\ pc = "poll"
    /\ todo = {}
    /\ lines' = {}
    /\ rounds' = rounds
    /\ pc' = "loop"
    /\ UNCHANGED <<environment, found, polled, at, todo, dead>>

EndRound ==
    /\ pc = "poll"
    /\ todo = {}
    /\ lines' = {}
    /\ rounds' = rounds + 1
    /\ pc' = "loop"
    /\ UNCHANGED <<environment, found, polled, at, todo, dead>>

\* Nothing to append is appended; the thread sleeps.
AppendLines == EndRound /\ UNCHANGED faults

\* The append fails: the readings of the round are gone.
AppendFails == lines # {} /\ EndRound /\ Fault

-----------------------------------------------------------------------------

\* A plug takes an address, that of another one included, or goes away.
Move(p) ==
    /\ moves < MaxMoves
    /\ moves' = moves + 1
    /\ \E a \in Addresses \cup {None} :
        /\ host' = [b \in Addresses |->
                        IF b = a THEN p ELSE IF host[b] = p THEN None ELSE host[b]]
        /\ host' # host
    /\ moved' = moved \cup {a \in Addresses : host'[a] # host[a]}
    /\ dead' = {}
    /\ UNCHANGED <<forgets, found, polled, rounds, pc, at, todo, lines, faults>>

\* A plug is without power for a moment, or its session expires.
Forget(p) ==
    /\ forgets < MaxForgets
    /\ forgets' = forgets + 1
    /\ \E a \in known : sessions[a] = p
    /\ known' = {a \in known : sessions[a] # p}
    /\ dead' = {}
    /\ UNCHANGED <<host, moves, moved, found, devices, sessions, registry, rounds, pc,
                    at, todo, lines, faults>>

Thread ==
    \/ Discover \/ CollectEnds \/ StartRound \/ AppendLines
    \/ LearnName \/ NameFails \/ ReadEnergy \/ EnergyFails
    \/ \E a \in Addresses : Reply(a) \/ Resume(a) \/ Handshake(a) \/ HandshakeFails(a)

Next ==
    \/ Thread
    \/ DiscoverFails \/ AppendFails
    \/ \E p \in Plugs : Move(p) \/ Forget(p)

Spec == Init /\ [][Next]_vars

\* The thread goes on: its requests and waits have timeouts.
FairSpec == Spec /\ WF_vars(Thread)

-----------------------------------------------------------------------------
(* Properties.                                                             *)

\* Identity and name, as far as they are known.
Device == [id : Plugs \cup {None}, name : Plugs \cup {None}]

\* A list of devices is a function from addresses.
IsList(list) ==
    /\ DOMAIN list \subseteq Addresses
    /\ list \in [DOMAIN list -> Device]

\* Every variable keeps its type; a device has one slot for a session, and a
\* session a plug knows is in the slot of only one address.
TypeOK ==
    /\ host \in [Addresses -> Plugs \cup {None}]
    /\ IsList(found) /\ IsList(devices)
    /\ DOMAIN registry = DOMAIN devices
    /\ sessions \in [DOMAIN devices -> Plugs \cup {None}]
    /\ known \subseteq {a \in DOMAIN sessions : sessions[a] # None}
    /\ \A a, b \in known : sessions[a] = sessions[b] => a = b
    /\ rounds \in 0..Interval
    /\ pc \in {"loop", "collect", "poll", "info", "energy"}
    /\ pc \in {"info", "energy"} => at \in DOMAIN sessions \ todo /\ sessions[at] # None
    /\ todo \subseteq DOMAIN devices
    /\ \A l \in lines : l.ip \in DOMAIN devices /\ l.from \in Plugs
    /\ {moved, dead} \subseteq SUBSET Addresses
    /\ moves \in 0..MaxMoves /\ forgets \in 0..MaxForgets /\ faults \in 0..MaxFaults

\* "identity as discovered" (integration.md): a reading carries another plug's
\* identity or name only if its address changed hands since the discovery in
\* force began; a session never gives one plug's reading to another's address.
MislabelledOnlyAfterMove ==
    \A l \in lines : {l.id, l.name} \subseteq {None, l.from} \/ l.ip \in moved

\* A list of devices is right where no address changed hands.
Right(list) ==
    \A a \in DOMAIN list \ moved : {list[a].id, list[a].name} \subseteq {None, host[a]}

\* Which list is right: while one is in the making, that one, and else the
\* one in force; and no reading is kept from one discovery to the next.
ListsAreRight ==
    /\ pc = "collect" => Right(found)
    /\ pc # "collect" => Right(devices)
    /\ pc \in {"loop", "collect"} => lines = {}
    /\ pc \in {"poll", "info", "energy"} => rounds < Interval

\* What holds in every state of discovery and polling: the inductive
\* invariant of KasaProofs.
KasaInv == TypeOK /\ ListsAreRight /\ MislabelledOnlyAfterMove

\* "A dead session re-handshakes next tick" (kasa.rs): with nothing else going
\* wrong, an address is not found to have a dead session twice in a row.
DeadSessionReplaced ==
    [][EnergyFails /\ ~Works /\ host[at] # None => at \notin dead]_vars

\* A plug that stays reachable is heard from again and again, although a lost
\* reply or a moved address takes it off the list until the next discovery.
KeepsReading ==
    \A p \in Plugs :
        <>[](\E a \in Addresses : host[a] = p)
            => []<><<AppendLines /\ \E l \in lines : l.from = p>>_vars

\* A name that could not be learned, or that belongs to the plug that held the
\* address before, does not stick: in the end every reading has the right one.
NamesSettle == <>[](\A l \in lines : l.name = l.from /\ l.id \in {None, l.from})

=============================================================================
