------------------------------ MODULE Delivery ------------------------------
(***************************************************************************)
(* The spool of one module together with the consumer that drains it over  *)
(* HTTP: the handlers of GET /readings/next and POST /readings/ack         *)
(* (service/src/api.rs), one thread per connection, and the consumer loop  *)
(* of docs/integration.md.  Requests are handled in any order, answers get *)
(* lost, the consumer times out while its request is still in flight, and  *)
(* a crash of the collector breaks every connection.                       *)
(*                                                                         *)
(* The consumer is not in this repository; the constants say how it        *)
(* behaves where the documentation leaves it open.                         *)
(***************************************************************************)
EXTENDS Spool

CONSTANTS
    QuickRestart, \* may a restarted collector number segments from below the batch
                  \* the consumer still holds, before the consumer gives up on it?
    MaxLosses     \* bound: timeouts and failed writes of the consumer, lost answers

ASSUME DeliveryAssumption ==
    /\ QuickRestart \in BOOLEAN
    /\ MaxLosses \in Nat

VARIABLES
    puller,   \* what the consumer is doing
    held,     \* the batch it was given: segment number and lines
    gets,     \* is a GET /readings/next in flight?
    acks,     \* segment numbers of the acknowledgements in flight
    consumed, \* lines the consumer has written to its database
    losses

net == <<gets, acks>>
consumer == <<puller, held, consumed>>
dvars == <<vars, net, consumer, losses>>

\* What the consumer holds between two rounds.
NoBatch == [id |-> 0, lines |-> {}]

DInit ==
    /\ Init
    /\ puller = "idle"
    /\ held = NoBatch
    /\ gets = FALSE
    /\ acks = {}
    /\ consumed = {}
    /\ losses = 0

-----------------------------------------------------------------------------
(* The consumer.                                                           *)

\* A request that finds no process to connect to is refused.
Listening == pc # "down"

PullerGet ==
    /\ puller = "idle"
    /\ gets' = Listening
    /\ puller' = "asking"
    /\ UNCHANGED <<vars, acks, held, consumed, losses>>

\* Every write succeeded: acknowledge.
PullerStore ==
    /\ puller = "holding"
    /\ consumed' = consumed \cup held.lines
    /\ acks' = IF Listening THEN acks \cup {held.id} ELSE acks
    /\ puller' = "acking"
    /\ UNCHANGED <<vars, gets, held, losses>>

\* Some write failed: do not acknowledge, fetch again later.
PullerStoreFails ==
    /\ puller = "holding"
    /\ losses < MaxLosses
    /\ losses' = losses + 1
    /\ puller' = "idle"
    /\ held' = NoBatch
    /\ UNCHANGED <<vars, net, consumed>>

\* No answer: the connection broke, or the consumer's timeout ends with its
\* request still in flight.
PullerGiveUp ==
    /\ \/ puller = "asking" /\ ~gets /\ UNCHANGED losses
       \/ puller = "acking" /\ held.id \notin acks /\ UNCHANGED losses
       \/ /\ puller \in {"asking", "acking"}
          /\ losses < MaxLosses
          /\ losses' = losses + 1
    /\ puller' = "idle"
    /\ held' = NoBatch
    /\ UNCHANGED <<vars, net, consumed>>

\* An acknowledgement without an answer is sent again.
PullerRetryAck ==
    /\ Listening
    /\ puller = "acking"
    /\ acks' = acks \cup {held.id}
    /\ UNCHANGED <<vars, gets, consumer, losses>>

-----------------------------------------------------------------------------
(* The collector.                                                          *)

\* The answer to a request is lost, or nobody waits for it any more.
AnswerLost ==
    /\ losses < MaxLosses
    /\ losses' = losses + 1
    /\ UNCHANGED consumer

\* GET /readings/next with a batch to serve: 200.
ReadingsNext(s) ==
    /\ gets
    /\ gets' = FALSE
    /\ NextBatch(s)
    /\ \/ /\ puller = "asking"
          /\ puller' = "holding"
          /\ held' = [id |-> s, lines |-> Lines(closed'[s])]
          /\ UNCHANGED <<consumed, losses>>
       \/ puller # "asking" /\ UNCHANGED <<consumer, losses>>
       \/ AnswerLost
    /\ UNCHANGED acks

\* GET /readings/next with nothing to serve: 204.
ReadingsNextEmpty ==
    /\ gets
    /\ gets' = FALSE
    /\ NextBatchEmpty
    /\ \/ puller = "asking" /\ puller' = "idle" /\ UNCHANGED <<held, consumed, losses>>
       \/ puller # "asking" /\ UNCHANGED <<consumer, losses>>
       \/ AnswerLost
    /\ UNCHANGED acks

\* GET /readings/next answered with an error: the consumer has no batch.
ReadingsNextError ==
    /\ gets
    /\ gets' = FALSE
    /\ NextBatchError
    /\ UNCHANGED <<acks, consumer, losses>>

\* Mutant: the handler removes the oldest segment whatever id is named.
ReadingsAckOldest(s) ==
    /\ s \in acks
    /\ acks' = acks \ {s}
    /\ \/ \E o \in DOMAIN closed : Oldest(o) /\ Ack(o)
       \/ DOMAIN closed = {} /\ AckMiss(s)
    /\ \/ /\ puller = "acking" /\ held.id = s
          /\ puller' = "idle"
          /\ held' = NoBatch
          /\ UNCHANGED <<consumed, losses>>
       \/ ~(puller = "acking" /\ held.id = s) /\ UNCHANGED <<consumer, losses>>
       \/ AnswerLost
    /\ UNCHANGED gets

\* POST /readings/ack: acked true or false, the consumer does not care which.
ReadingsAck(s) ==
    /\ s \in acks
    /\ acks' = acks \ {s}
    /\ Ack(s) \/ AckMiss(s)
    /\ \/ /\ puller = "acking" /\ held.id = s
          /\ puller' = "idle"
          /\ held' = NoBatch
          /\ UNCHANGED <<consumed, losses>>
       \/ ~(puller = "acking" /\ held.id = s) /\ UNCHANGED <<consumer, losses>>
       \/ AnswerLost
    /\ UNCHANGED gets

\* POST /readings/ack answered with an error: to the consumer, no answer.
ReadingsAckError(s) ==
    /\ s \in acks
    /\ acks' = acks \ {s}
    /\ AckError
    /\ UNCHANGED <<gets, consumer, losses>>

\* The connections die with the process.
CollectorCrash ==
    /\ Crash
    /\ gets' = FALSE
    /\ acks' = {}
    /\ UNCHANGED <<consumer, losses>>

\* systemd starts the process again.
Restart ==
    /\ Open
    /\ QuickRestart \/ held.id < next_seq'
    /\ UNCHANGED <<net, consumer, losses>>

\* A producer (a poller or an ingest handler) hands lines over.
Produce == AppendBegin /\ UNCHANGED <<net, consumer, losses>>

\* The append under way takes its next step.
AppendStep ==
    /\ AppendLine \/ AppendSkip \/ AppendRotate \/ EvictOldest \/ AppendReturn
    /\ UNCHANGED <<net, consumer, losses>>

\* The append under way fails.
AppendFails == AppendError /\ UNCHANGED <<net, consumer, losses>>

DNext ==
    \/ PullerGet \/ PullerStore \/ PullerStoreFails \/ PullerGiveUp \/ PullerRetryAck
    \/ \E s \in 1..next_seq : ReadingsNext(s)
    \/ ReadingsNextEmpty \/ ReadingsNextError
    \/ \E s \in acks : ReadingsAck(s) \/ ReadingsAckError(s)
    \/ CollectorCrash \/ Restart
    \/ Produce \/ AppendStep \/ AppendFails

DSpec == DInit /\ [][DNext]_dvars

(***************************************************************************)
(* Fairness.  The collector is restarted when it dies (systemd), a thread  *)
(* that holds the mutex runs on, and a connection has a thread of its own  *)
(* that gets the mutex in the end.  The consumer keeps polling and gives   *)
(* up on a request nobody will answer.  Producers, crashes, errors and     *)
(* losses are never obliged to happen.                                     *)
(***************************************************************************)
Fairness ==
    /\ WF_dvars(Restart)
    /\ WF_dvars(AppendStep)
    /\ WF_dvars(\E s \in 1..next_seq : ReadingsNext(s))
    /\ WF_dvars(ReadingsNextEmpty)
    /\ WF_dvars(\E s \in acks : ReadingsAck(s))
    /\ WF_dvars(PullerGet)
    /\ WF_dvars(PullerStore)
    /\ WF_dvars(PullerGiveUp)

FairSpec == DSpec /\ Fairness

-----------------------------------------------------------------------------
(* Properties.                                                             *)

\* Types; the consumer has a batch in hand exactly between the answer 200 and
\* the end of its acknowledgement, and no request is in flight to a process
\* that is down.
DTypeOK ==
    /\ puller \in {"idle", "asking", "holding", "acking"}
    /\ held \in [id : Nat, lines : SUBSET Nat]
    /\ puller \in {"holding", "acking"} <=> held.id # 0
    /\ gets \in BOOLEAN
    /\ acks \subseteq Nat
    /\ ~Listening => ~gets /\ acks = {}
    /\ consumed \subseteq Nat
    /\ losses \in 0..MaxLosses

\* At-least-once (spool.rs header: a batch is "deleted only when the puller
\* acknowledges it"): every line that ack() unlinked had been stored by the
\* consumer.
AckedWereConsumed == acked \subseteq consumed

\* Whatever the consumer may still acknowledge is the oldest segment, or gone,
\* and no later segment gets its number.
HeldIsOldest ==
    \A s \in acks \cup {held.id} :
        /\ \A t \in DOMAIN closed : s <= t
        /\ Listening => s < next_seq

\* What the consumer has in hand is what the segment of that number holds, and
\* it has stored what it acknowledges.
HeldIsStored ==
    /\ held.lines \subseteq served
    /\ held.id \in DOMAIN closed => Lines(closed[held.id]) \subseteq held.lines
    /\ puller = "acking" => held.lines \subseteq consumed
    /\ \A s \in acks \cap DOMAIN closed : Lines(closed[s]) \subseteq consumed

\* Lines are numbered from 1 to the bound.
LinesNumbered ==
    /\ issued <= MaxLines
    /\ \A k \in DOMAIN todo : todo[k].line >= 1

\* The safety of delivery, at-least-once: with SpoolInv the inductive invariant
\* of DeliveryProofs.
DeliveryInv ==
    /\ DTypeOK
    /\ AckedWereConsumed
    /\ HeldIsOldest
    /\ HeldIsStored
    /\ LinesNumbered

\* Every line whose append returned Ok reaches the consumer, or the cap
\* drops it first.
EveryLineDelivered ==
    \A x \in 1..MaxLines : x \in accepted ~> x \in consumed \cup evicted

\* The stream as its consumer sees it: the promise of ReadingStream, with
\* the lines in the directory as the pending ones.
Stream == INSTANCE ReadingStream WITH
    Line      <- 1..MaxLines,
    pending   <- Stored,
    offered   <- served,
    stored    <- consumed,
    discarded <- evicted

StreamSpec == Stream!Spec

=============================================================================
