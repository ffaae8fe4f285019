--------------------------- MODULE ReadingStream ---------------------------
(***************************************************************************)
(* What one module's reading stream promises its consumer (spool.rs        *)
(* header, ADR-0002, ADR-0007): readings are offered oldest first, a       *)
(* reading leaves the stream only after the consumer stored it or, oldest  *)
(* first, when the stream is over its cap; it may be offered and stored    *)
(* any number of times.                                                    *)
(***************************************************************************)
EXTENDS Integers

CONSTANT Line  \* the readings, numbers in the order in which they are produced

VARIABLES
    pending,   \* readings in the stream
    offered,   \* readings some batch contained
    stored,    \* readings the consumer has stored
    discarded  \* readings the cap took away

vars == <<pending, offered, stored, discarded>>

Init ==
    /\ pending = {}
    /\ offered = {}
    /\ stored = {}
    /\ discarded = {}

\* B is the old end of the stream.
OldEnd(B) == \A x \in B : \A y \in pending \ B : x < y

\* A reading newer than every pending or offered one enters the stream.
Put ==
    \E x \in Line :
        /\ \A y \in pending \cup offered : y < x
        /\ pending' = pending \cup {x}
        /\ UNCHANGED <<offered, stored, discarded>>

\* A batch is the old end of the stream; with nothing in it that was offered
\* before, it is newer than everything that was.
Offer ==
    \E B \in SUBSET pending :
        /\ OldEnd(B)
        /\ B \subseteq offered \/ \A x \in offered : \A y \in B : x < y
        /\ offered' = offered \cup B
        /\ UNCHANGED <<pending, stored, discarded>>

Store ==
    \E B \in SUBSET offered :
        /\ stored' = stored \cup B
        /\ UNCHANGED <<pending, offered, discarded>>

\* Acknowledged readings leave; all of them are with the consumer.
Release ==
    \E B \in SUBSET (pending \cap stored) :
        /\ OldEnd(B)
        /\ pending' = pending \ B
        /\ UNCHANGED <<offered, stored, discarded>>

\* The cap makes the stream drop its old end, stored or not.
Discard ==
    \E B \in SUBSET pending :
        /\ OldEnd(B)
        /\ pending' = pending \ B
        /\ discarded' = discarded \cup B
        /\ UNCHANGED <<offered, stored>>

Next == Put \/ Offer \/ Store \/ Release \/ Discard

Spec == Init /\ [][Next]_vars

=============================================================================
