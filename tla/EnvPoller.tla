----------------------------- MODULE EnvPoller -----------------------------
(***************************************************************************)
(* The environment-sensor module (service/src/sensors.rs): one thread that *)
(* from time to time broadcasts a probe, keeps the addresses that answer   *)
(* and prove to serve sensor data, and in between polls each of them and   *)
(* appends what it got to the spool.                                       *)
(*                                                                         *)
(* The sensors hold addresses they may lose to one another.  A discovered  *)
(* device is its address, and the identity it gave: the list of devices    *)
(* is a function from addresses to identities.                             *)
(***************************************************************************)
EXTENDS Integers, FiniteSets, Functions, TLC

CONSTANTS
    Devices,     \* the sensors
    Addresses,   \* the addresses of the LAN they may hold
    Static,      \* cfg.static_devices
    Nobody,      \* no sensor at an address; no identity
    Interval,    \* the discovery interval, in rounds of polling
    MaxMoves,    \* bound: sensors that come, go, or change their address
    MaxFaults    \* bound: lost replies, failed requests, binds and appends

ASSUME EnvAssumption ==
    /\ Static \subseteq Addresses
    /\ Nobody \notin Devices
    /\ Interval \in Nat \ {0}
    /\ MaxMoves \in Nat /\ MaxFaults \in Nat

VARIABLES
    host,       \* who holds an address
    found,      \* the discovery's list in the making
    devices,    \* the devices polled, and published in the registry
    rounds,     \* rounds of polling since the last discovery
    pc,
    todo,       \* addresses the thread has still to visit
    lines,      \* readings of the round: address, identity, and true origin
    moves, faults,
    moved       \* history: addresses that changed hands since discovery began

environment == <<host, moves, moved>>
vars == <<environment, found, devices, rounds, pc, todo, lines, faults>>

Empty == [a \in {} |-> Nobody]

\* cfg.static_devices, each with its address for a name.
StaticDevices == [a \in Static |-> Nobody]

Init ==
    /\ host \in {h \in [Addresses -> Devices \cup {Nobody}] :
                    \A d \in Devices : Cardinality({a \in Addresses : h[a] = d}) <= 1}
    /\ found = Empty /\ devices = Empty
    /\ rounds = Interval
    /\ pc = "loop"
    /\ todo = {} /\ lines = {}
    /\ moves = 0 /\ faults = 0
    /\ moved = {}

\* Something fails that worked the last time.
Fault == faults < MaxFaults /\ faults' = faults + 1

-----------------------------------------------------------------------------
(* Discovery.                                                              *)

Due == pc = "loop" /\ rounds >= Interval

\* Mutant: what is known is not asked again.
DiscoverMore ==
    /\ Due
    /\ found' = StaticDevices @@ devices
    /\ pc' = "collect"
    /\ moved' = {}
    /\ UNCHANGED <<host, moves, devices, rounds, todo, lines, faults>>

\* The probe is broadcast.
Discover ==
    /\ Due
    /\ found' = StaticDevices
    /\ pc' = "collect"
    /\ moved' = {}
    /\ UNCHANGED <<host, moves, devices, rounds, todo, lines, faults>>

\* Binding the socket or sending the probe fails: the static devices, as
\* they are.
DiscoverFails ==
    /\ Due
    /\ Fault
    /\ devices' = StaticDevices
    /\ rounds' = 0
    /\ todo' = Static
    /\ pc' = "poll"
    /\ moved' = {}
    /\ UNCHANGED <<host, moves, found, lines>>

\* The first reply from an address counts.
Reply(a) ==
    /\ pc = "collect"
    /\ host[a] # Nobody
    /\ a \notin DOMAIN found
    /\ found' = [b \in DOMAIN found \cup {a} |-> IF b = a THEN host[a] ELSE found[b]]
    /\ UNCHANGED <<environment, devices, rounds, pc, todo, lines, faults>>

\* The ten seconds are over; whoever is there has answered, or a reply was lost.
CollectEnds ==
    /\ pc = "collect"
    /\ \/ {a \in Addresses : host[a] # Nobody} \subseteq DOMAIN found /\ UNCHANGED faults
       \/ Fault
    /\ todo' = DOMAIN found
    /\ pc' = "validate"
    /\ UNCHANGED <<environment, found, devices, rounds, lines>>

\* found.retain: a device stays that serves sensor data now, whoever it is.
Validate(a) ==
    /\ pc = "validate"
    /\ a \in todo
    /\ \/ /\ host[a] # Nobody
          /\ UNCHANGED <<found, faults>>
       \/ /\ host[a] = Nobody \/ faults < MaxFaults
          /\ faults' = IF host[a] = Nobody THEN faults ELSE faults + 1
          /\ found' = Restrict(found, DOMAIN found \ {a})
    /\ todo' = todo \ {a}
    /\ UNCHANGED <<environment, devices, rounds, pc, lines>>

Publish ==
    /\ pc = "validate"
    /\ todo = {}
    /\ devices' = found
    /\ rounds' = 0
    /\ todo' = DOMAIN found
    /\ pc' = "poll"
    /\ UNCHANGED <<environment, found, lines, faults>>

-----------------------------------------------------------------------------
(* A round of polling.                                                     *)

\* Discovery is not due: the round starts.
StartRound ==
    /\ pc = "loop"
    /\ rounds < Interval
    /\ todo' = DOMAIN devices
    /\ pc' = "poll"
    /\ UNCHANGED <<environment, found, devices, rounds, lines, faults>>

\* The reading is labelled with the identity of the discovery.
Poll(a) ==
    /\ pc = "poll"
    /\ a \in todo
    /\ \/ /\ host[a] # Nobody
          /\ lines' = lines \cup {[ip |-> a, id |-> devices[a], from |-> host[a]]}
          /\ UNCHANGED faults
       \/ /\ host[a] = Nobody \/ faults < MaxFaults
          /\ faults' = IF host[a] = Nobody THEN faults ELSE faults + 1
          /\ UNCHANGED lines
    /\ todo' = todo \ {a}
    /\ UNCHANGED <<environment, found, devices, rounds, pc>>

\* Mutant: the time of the last discovery is set every round.
EndRoundUncounted ==
    /\ pc = "poll"
    /\ todo = {}
    /\ lines' = {}
    /\ rounds' = rounds
    /\ pc' = "loop"
    /\ UNCHANGED <<environment, found, devices, todo>>

EndRound ==
    /\ pc = "poll"
    /\ todo = {}
    /\ lines' = {}
    /\ rounds' = rounds + 1
    /\ pc' = "loop"
    /\ UNCHANGED <<environment, found, devices, todo>>

\* Nothing to append is appended; the thread sleeps.
Append == EndRound /\ UNCHANGED faults

\* The append fails: the readings of the round are gone.
AppendFails == lines # {} /\ EndRound /\ Fault

-----------------------------------------------------------------------------

\* A sensor takes an address, that of another one included, or goes away.
Move(d) ==
    /\ moves < MaxMoves
    /\ moves' = moves + 1
    /\ \E a \in Addresses \cup {Nobody} :
        /\ host' = [b \in Addresses |->
                        IF b = a THEN d ELSE IF host[b] = d THEN Nobody ELSE host[b]]
        /\ host' # host
    /\ moved' = moved \cup {a \in Addresses : host'[a] # host[a]}
    /\ UNCHANGED <<found, devices, rounds, pc, todo, lines, faults>>

Thread ==
    \/ Discover \/ CollectEnds \/ Publish \/ StartRound \/ Append
    \/ \E a \in Addresses : Reply(a) \/ Validate(a) \/ Poll(a)

Next ==
    \/ Thread
    \/ DiscoverFails \/ AppendFails
    \/ \E d \in Devices : Move(d)

Spec == Init /\ [][Next]_vars

\* The thread goes on: its requests and waits have timeouts.
FairSpec == Spec /\ WF_vars(Thread)

-----------------------------------------------------------------------------
(* Properties.                                                             *)

\* Every variable keeps its type; only devices of the list are visited.
TypeOK ==
    /\ host \in [Addresses -> Devices \cup {Nobody}]
    /\ \A f \in {found, devices} :
        /\ DOMAIN f \subseteq Addresses
        /\ \A a \in DOMAIN f : f[a] \in Devices \cup {Nobody}
    /\ rounds \in 0..Interval
    /\ pc \in {"loop", "collect", "validate", "poll"}
    /\ todo \subseteq CASE pc = "validate" -> DOMAIN found
                        [] pc = "poll" -> DOMAIN devices
                        [] OTHER -> {}
    /\ \A l \in lines :
        l.ip \in DOMAIN devices \ todo /\ l.id = devices[l.ip] /\ l.from \in Devices
    /\ moves \in 0..MaxMoves /\ faults \in 0..MaxFaults
    /\ moved \subseteq Addresses

\* "identity as discovered" (integration.md): a reading carries another
\* sensor's identity only if its address changed hands since the discovery in
\* force began, however moves fall between probe, reply, validation and poll.
MislabelledOnlyAfterMove ==
    \A l \in lines : l.id \notin {Nobody, l.from} => l.ip \in moved

\* A list of devices is right where no address changed hands.
Right(list) == \A a \in DOMAIN list \ moved : list[a] \in {Nobody, host[a]}

\* Which list is right: while one is in the making, that one, and else the
\* one in force; and no reading is kept from one discovery to the next.
ListsAreRight ==
    /\ pc \in {"collect", "validate"} => Right(found) /\ lines = {}
    /\ pc \in {"loop", "poll"} => Right(devices)
    /\ pc = "loop" => lines = {}
    /\ pc = "poll" => rounds < Interval

\* What holds in every state of discovery and polling: the inductive
\* invariant of EnvProofs.
EnvInv == TypeOK /\ ListsAreRight /\ MislabelledOnlyAfterMove

\* A sensor that stays reachable is heard from again and again, although one
\* failed validation takes it off the list until the next discovery.
KeepsReading ==
    \A d \in Devices :
        <>[](\E a \in Addresses : host[a] = d)
            => []<><<Append /\ \E l \in lines : l.from = d>>_vars

=============================================================================
