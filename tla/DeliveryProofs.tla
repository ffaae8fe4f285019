--------------------------- MODULE DeliveryProofs ---------------------------
(***************************************************************************)
(* Proofs about Spool, for every configuration the validator admits and    *)
(* any number of lines, crashes and errors; and about Delivery over it, in *)
(* its second half, with any number of losses besides: delivery is at      *)
(* least once, and spool, handlers and consumer together implement         *)
(* ReadingStream.  The second half needs that a restarted collector does   *)
(* not number segments from below a batch in the consumer's hand           *)
(* (QuickRestart = FALSE).                                                 *)
(***************************************************************************)
EXTENDS Delivery, SequenceTheorems, FiniteSetTheorems, TLAPS

-----------------------------------------------------------------------------
(* Files and the lines to write.                                           *)

\* A file has a sequence of pieces, a length and torn bytes.
LEMMA FileParts ==
    ASSUME NEW f \in File
    PROVE  /\ f.pieces \in Seq(Piece)
           /\ f.bytes \in Nat
           /\ f.torn \in Nat
           /\ \A i \in DOMAIN f.pieces :
                 f.pieces[i].line \in Nat /\ f.pieces[i].whole \in BOOLEAN
  <1>1. f.pieces \in Seq(Piece) /\ f.bytes \in Nat /\ f.torn \in Nat
    BY DEF File
  <1>2. \A i \in DOMAIN f.pieces : f.pieces[i] \in Piece
    BY <1>1
  <1> QED
    BY <1>1, <1>2 DEF Piece

\* A file that gains a piece: its type, its lines, and their order if the new
\* line is younger than all of them.
LEMMA ExtendFile ==
    ASSUME NEW f \in File, NEW x \in Nat, NEW w \in BOOLEAN, NEW n \in Nat
    PROVE  /\ Extend(f, x, w, n) \in File
           /\ Touched(Extend(f, x, w, n)) = Touched(f) \cup {x}
           /\ Lines(Extend(f, x, w, n)) = Lines(f) \cup (IF w THEN {x} ELSE {})
           /\ FileOrdered(f) /\ (\A y \in Touched(f) : y < x)
                 => FileOrdered(Extend(f, x, w, n))
  <1> DEFINE g == Extend(f, x, w, n)
  <1> DEFINE m == Len(f.pieces)
  <1> DEFINE p == [line |-> x, whole |-> w]
  <1> DEFINE q == IF w THEN f.torn ELSE f.torn + n
  <1>1. p \in Piece /\ p.line = x /\ p.whole = w
    BY DEF Piece
  <1>2. f.pieces \in Seq(Piece) /\ f.bytes + n \in Nat /\ q \in Nat
    BY FileParts
  <1>3. g = [pieces |-> Append(f.pieces, p), bytes |-> f.bytes + n, torn |-> q]
    BY DEF Extend
  <1> HIDE DEF p
  <1>4. g.pieces = Append(f.pieces, p) /\ g.bytes = f.bytes + n /\ g.torn = q
    BY <1>3
  <1>5. Append(f.pieces, p) \in Seq(Piece)
    BY <1>1, <1>2
  <1>6. g \in File
    BY <1>2, <1>3, <1>5 DEF File
  <1>7. /\ m \in Nat
        /\ DOMAIN f.pieces = 1..m
        /\ DOMAIN g.pieces = 1..(m + 1)
        /\ \A i \in 1..m : g.pieces[i] = f.pieces[i]
        /\ g.pieces[m + 1] = p
    BY <1>1, <1>2, <1>4
  <1> HIDE DEF g, m
  <1>8. /\ m \in Nat
        /\ DOMAIN f.pieces = 1..m
        /\ DOMAIN g.pieces = 1..(m + 1)
        /\ \A i \in 1..m : g.pieces[i] = f.pieces[i]
        /\ g.pieces[m + 1].line = x
        /\ g.pieces[m + 1].whole = w
    BY <1>1, <1>7
  <1>9. \A i \in DOMAIN g.pieces : i \in DOMAIN f.pieces \/ i = m + 1
    BY <1>8
  <1>10. \A i \in DOMAIN f.pieces : i \in DOMAIN g.pieces
    BY <1>8
  <1>11. m + 1 \in DOMAIN g.pieces
    BY <1>8
  <1>12. Touched(g) = Touched(f) \cup {x}
    BY <1>8, <1>9, <1>10, <1>11 DEF Touched
  <1>13. Lines(g) = Lines(f) \cup (IF w THEN {x} ELSE {})
    <2>1. ASSUME NEW y \in Lines(g)
          PROVE  y \in Lines(f) \cup (IF w THEN {x} ELSE {})
      <3>1. PICK i \in DOMAIN g.pieces : g.pieces[i].whole /\ y = g.pieces[i].line
        BY <2>1 DEF Lines
      <3>2. CASE i \in DOMAIN f.pieces
        BY <1>8, <3>1, <3>2 DEF Lines
      <3>3. CASE i = m + 1
        BY <1>8, <3>1, <3>3
      <3> QED
        BY <1>9, <3>2, <3>3
    <2>2. ASSUME NEW y \in Lines(f)
          PROVE  y \in Lines(g)
      <3>1. PICK i \in DOMAIN f.pieces : f.pieces[i].whole /\ y = f.pieces[i].line
        BY <2>2 DEF Lines
      <3> QED
        BY <1>8, <1>10, <3>1 DEF Lines
    <2>3. w => x \in Lines(g)
      BY <1>8, <1>11 DEF Lines
    <2> QED
      BY <2>1, <2>2, <2>3
  <1>14. ASSUME FileOrdered(f), \A y \in Touched(f) : y < x
        PROVE  FileOrdered(g)
    <2>1. SUFFICES ASSUME NEW i \in DOMAIN g.pieces, NEW j \in DOMAIN g.pieces, i < j
                   PROVE  g.pieces[i].line < g.pieces[j].line
      BY DEF FileOrdered
    <2>2. i \in DOMAIN f.pieces
      BY <1>8, <2>1
    <2>3. CASE j \in DOMAIN f.pieces
      BY <1>8, <1>14, <2>1, <2>2, <2>3 DEF FileOrdered
    <2>4. CASE j = m + 1
      BY <1>8, <1>14, <2>2, <2>4 DEF Touched
    <2> QED
      BY <1>9, <2>3, <2>4
  <1> QED
    BY <1>4, <1>6, <1>12, <1>13, <1>14 DEF g

\* The lines of a file are numbers.
LEMMA LinesType ==
    ASSUME NEW f \in File
    PROVE  Lines(f) \subseteq Nat
  BY FileParts DEF Lines

\* The file a rotation leaves behind.
LEMMA EmptyFileType ==
    /\ EmptyFile \in File
    /\ EmptyFile.bytes = 0
    /\ EmptyFile.torn = 0
    /\ EmptyFile.pieces = <<>>
    /\ DOMAIN EmptyFile.pieces = {}
  BY DEF EmptyFile, File

\* The first line to write, and the rest of them.
LEMMA TodoParts ==
    ASSUME NEW q \in Seq(Handed), q # <<>>
    PROVE  /\ Head(q) = q[1]
           /\ Head(q).line \in Nat
           /\ Head(q).len \in Nat
           /\ Tail(q) \in Seq(Handed)
           /\ Len(q) \in Nat \ {0}
           /\ DOMAIN q = 1..Len(q)
           /\ DOMAIN Tail(q) = 1..(Len(q) - 1)
           /\ \A i \in 1..(Len(q) - 1) : Tail(q)[i] = q[i + 1]
  <1>1. /\ Head(q) = q[1]
        /\ Head(q) \in Handed
        /\ Tail(q) \in Seq(Handed)
        /\ Len(q) \in Nat \ {0}
        /\ DOMAIN q = 1..Len(q)
        /\ DOMAIN Tail(q) = 1..(Len(q) - 1)
        /\ \A i \in 1..(Len(q) - 1) : Tail(q)[i] = q[i + 1]
    OBVIOUS
  <1>2. Head(q).line \in Nat /\ Head(q).len \in Nat
    BY <1>1 DEF Handed
  <1> QED
    BY <1>1, <1>2

\* What append() is called with.
LEMMA BeginParts ==
    ASSUME TypeOK, AppendBegin
    PROVE  \E n \in Nat \ {0} :
             /\ todo' \in Seq(Handed)
             /\ DOMAIN todo' = 1..n
             /\ \A i \in 1..n : todo'[i].line = issued + i
             /\ issued' = issued + n
  <1>1. PICK n \in 1..MaxAppend : \E lens \in [1..n -> LineLens] :
           /\ todo' = [i \in 1..n |-> [line |-> issued + i, len |-> lens[i]]]
           /\ issued' = issued + n
    BY DEF AppendBegin
  <1>2. PICK lens \in [1..n -> LineLens] :
           todo' = [i \in 1..n |-> [line |-> issued + i, len |-> lens[i]]]
    BY <1>1
  <1>3. n \in Nat \ {0} /\ issued \in Nat
    BY SpoolAssumption DEF TypeOK, HistoryType
  <1>4. \A i \in 1..n : [line |-> issued + i, len |-> lens[i]] \in Handed
    <2>1. ASSUME NEW i \in 1..n
          PROVE  issued + i \in Nat /\ lens[i] \in Nat
      <3>1. lens[i] \in LineLens
        BY <1>2
      <3>2. LineLens \subseteq Nat
        BY SpoolAssumption
      <3>3. lens[i] \in Nat
        BY <3>1, <3>2
      <3>4. issued + i \in Nat
        BY <1>3
      <3> QED
        BY <3>3, <3>4
    <2> QED
      BY <2>1 DEF Handed
  <1>5. todo' \in [1..n -> Handed]
    BY <1>2, <1>4
  <1>6. [1..n -> Handed] \subseteq Seq(Handed)
    BY <1>3
  <1> QED
    BY <1>1, <1>2, <1>3, <1>5, <1>6

\* What an interrupted write does to the open segment.
LEMMA TornParts ==
    ASSUME TypeOK, todo # <<>>, TornWrite
    PROVE  \/ current' = current
           \/ \E k \in Nat : current' = Extend(current, Head(todo).line, FALSE, k)
  <1>1. Head(todo).len \in Nat
    BY TodoParts DEF TypeOK, CallType
  <1>2. PICK k \in 0..Head(todo).len :
            current' = IF k = 0 THEN current ELSE Extend(current, Head(todo).line, FALSE, k)
    BY DEF TornWrite
  <1>3. k \in Nat
    BY <1>1
  <1> QED
    BY <1>2, <1>3

\* What a torn write leaves is a file.
LEMMA TornWriteType ==
    ASSUME TypeOK, todo # <<>>, TornWrite
    PROVE  current' \in File
  <1>1. Head(todo).line \in Nat /\ current \in File
    BY TodoParts DEF TypeOK, CallType, DirType
  <1>2. CASE current' = current
    BY <1>1, <1>2
  <1>3. ASSUME NEW k \in Nat, current' = Extend(current, Head(todo).line, FALSE, k)
        PROVE  current' \in File
    BY <1>1, <1>3, ExtendFile
  <1> QED
    BY <1>2, <1>3, TornParts

\* rotate() keeps the directory and Inner well formed.
LEMMA RotateType ==
    ASSUME TypeOK, Rotate
    PROVE  DirType' /\ InnerType'
  <1>1. current' \in File
    BY EmptyFileType DEF Rotate
  <1>2. InnerType'
    BY DEF Rotate, TypeOK, InnerType
  <1>3. DOMAIN closed' \subseteq Nat \ {0} /\ closed' \in [DOMAIN closed' -> File]
    BY DEF Rotate, TypeOK, DirType, InnerType
  <1> QED
    BY <1>1, <1>2, <1>3 DEF DirType

\* A handler whose file operation fails leaves the lines alone; at most the
\* open segment was closed first.
LEMMA HandlerErrors ==
    ASSUME NextBatchError \/ AckError
    PROVE  /\ pc = "idle"
           /\ Rotate \/ UNCHANGED <<dir, inner>>
           /\ UNCHANGED <<call, history, crashes>>
           /\ errors' = errors + 1
  BY DEF NextBatchError, AckError

-----------------------------------------------------------------------------
(* Type correctness.                                                       *)

\* Every step of Next keeps every variable in its type.
LEMMA TypeStep ==
    ASSUME TypeOK, [Next]_vars
    PROVE  TypeOK'
  <1> USE DEF TypeOK
  <1>1. CASE Open
    <2>1. InnerType'
      BY <1>1, FileParts DEF Open, DirType, InnerType
    <2> QED
      BY <1>1, <2>1 DEF Open, DirType, CallType, HistoryType, FaultType, dir, history, faults
  <1>2. CASE AppendBegin
    <2>1. todo' \in Seq(Handed) /\ issued' \in Nat
      BY <1>2, BeginParts DEF HistoryType
    <2> QED
      BY <1>2, <2>1 DEF AppendBegin, DirType, InnerType, CallType, HistoryType, FaultType,
                        dir, inner, faults
  <1>3. CASE AppendLine
    <2>1. /\ Head(todo).line \in Nat
          /\ Head(todo).len \in Nat
          /\ Tail(todo) \in Seq(Handed)
      BY <1>3, TodoParts DEF AppendLine, CallType
    <2>2. DirType'
      <3>1. Head(todo).len + 1 \in Nat
        BY <2>1
      <3>2. current' \in File
        BY <1>3, <2>1, <3>1, ExtendFile DEF AppendLine, DirType
      <3> QED
        BY <1>3, <3>2 DEF AppendLine, DirType
    <2>3. InnerType'
      BY <1>3, <2>1 DEF AppendLine, InnerType
    <2>4. CallType'
      BY <1>3, <2>1 DEF AppendLine, CallType
    <2> QED
      BY <1>3, <2>2, <2>3, <2>4 DEF AppendLine, HistoryType, FaultType, history, faults
  <1>4. CASE AppendSkip
    <2>1. Tail(todo) \in Seq(Handed)
      BY <1>4, TodoParts DEF AppendSkip, CallType
    <2> QED
      BY <1>4, <2>1 DEF AppendSkip, DirType, InnerType, CallType, HistoryType, FaultType,
                        dir, inner, history, faults
  <1>5. CASE AppendRotate
    <2>1. DirType' /\ InnerType'
      BY <1>5, RotateType DEF AppendRotate, DirType, InnerType, dir, inner
    <2> QED
      BY <1>5, <2>1 DEF AppendRotate, CallType, HistoryType, FaultType, history, faults
  <1>6. CASE EvictOldest
    <2>1. PICK s \in DOMAIN closed :
             /\ closed' = Restrict(closed, DOMAIN closed \ {s})
             /\ evicted' = evicted \cup Lines(closed[s])
      BY <1>6 DEF EvictOldest
    <2>2. DirType'
      BY <1>6, <2>1 DEF EvictOldest, DirType, Restrict
    <2>3. evicted' \subseteq Nat
      BY <2>1, LinesType DEF DirType, HistoryType
    <2>4. InnerType'
      BY <1>6 DEF EvictOldest, InnerType
    <2> QED
      BY <1>6, <2>2, <2>3, <2>4 DEF EvictOldest, CallType, HistoryType, FaultType, call, faults
  <1>7. CASE AppendReturn
    BY <1>7 DEF AppendReturn, DirType, InnerType, CallType, HistoryType, FaultType,
                dir, inner, faults
  <1>8. CASE AppendError
    <2>1. DirType'
      BY <1>8, TornWriteType DEF AppendError, DirType
    <2>2. CallType' /\ FaultType'
      BY <1>8 DEF AppendError, CallType, FaultType
    <2> QED
      BY <1>8, <2>1, <2>2 DEF AppendError, InnerType, HistoryType, inner, history
  <1>9. CASE Crash
    <2>1. DirType'
      BY <1>9, TornWriteType DEF Crash, DirType
    <2>2. CallType' /\ FaultType'
      BY <1>9 DEF Crash, CallType, FaultType
    <2> QED
      BY <1>9, <2>1, <2>2 DEF Crash, InnerType, HistoryType, inner, history
  <1>10. ASSUME NEW s \in 1..next_seq, NextBatch(s)
         PROVE  TypeOK'
    <2>1. DirType' /\ InnerType'
      BY <1>10, RotateType DEF NextBatch, DirType, InnerType, dir, inner
    <2>2. s \in DOMAIN closed'
      BY <1>10 DEF NextBatch, Rotate, Oldest, dir
    <2>3. served' \subseteq Nat
      BY <1>10, <2>1, <2>2, LinesType DEF NextBatch, HistoryType, DirType
    <2> QED
      BY <1>10, <2>1, <2>3 DEF NextBatch, CallType, HistoryType, FaultType, call, faults
  <1>11. ASSUME NEW s \in 1..next_seq, Ack(s)
         PROVE  TypeOK'
    <2>1. acked' \subseteq Nat
      BY <1>11, LinesType DEF Ack, DirType, HistoryType
    <2>2. DirType'
      BY <1>11 DEF Ack, DirType, Restrict
    <2> QED
      BY <1>11, <2>1, <2>2 DEF Ack, InnerType, CallType, HistoryType, FaultType,
                               inner, call, faults
  <1>12. CASE UNCHANGED vars
    BY <1>12 DEF vars, dir, inner, call, history, faults,
                 DirType, InnerType, CallType, HistoryType, FaultType
  <1>13. CASE NextBatchError \/ AckError
    <2>1. DirType' /\ InnerType'
      BY <1>13, HandlerErrors, RotateType DEF DirType, InnerType, dir, inner
    <2>2. UNCHANGED <<call, history, crashes>> /\ errors' = errors + 1
      BY <1>13, HandlerErrors
    <2>3. CallType' /\ HistoryType'
      BY <2>2 DEF CallType, HistoryType, call, history
    <2>4. FaultType'
      BY <2>2 DEF FaultType
    <2> QED
      BY <2>1, <2>3, <2>4
  <1> QED
    BY <1>1, <1>2, <1>3, <1>4, <1>5, <1>6, <1>7, <1>8, <1>9, <1>10, <1>11, <1>12, <1>13
       DEF Next, AckMiss, NextBatchEmpty

\* Type correctness of the spool: the fields of Inner and the directory stay
\* what spool.rs declares, through every crash and error.
THEOREM TypeCorrect == Spec => []TypeOK
  <1>1. Init => TypeOK
    BY EmptyFileType
       DEF Init, TypeOK, DirType, InnerType, CallType, HistoryType, FaultType
  <1> QED
    BY <1>1, TypeStep, PTL DEF Spec

-----------------------------------------------------------------------------
(* The name rotate() renames to is free.                                   *)

\* Numbers in use stay below the next one.
LEMMA FreshStep ==
    ASSUME TypeOK, SeqFresh, [Next]_vars
    PROVE  SeqFresh'
  <1> USE DEF SeqFresh
  <1>1. /\ DOMAIN closed \subseteq Nat \ {0}
        /\ next_seq \in Nat \ {0}
    BY DEF TypeOK, DirType, InnerType
  <1>2. CASE Open
    <2>1. PICK max_seq \in {0} \cup DOMAIN closed :
             /\ \A s \in DOMAIN closed : s <= max_seq
             /\ next_seq' = max_seq + 1
      BY <1>2 DEF Open
    <2>2. closed' = closed
      BY <1>2 DEF Open, dir
    <2> QED
      BY <1>1, <2>1, <2>2
  <1>3. ASSUME Rotate, pc # "down"
        PROVE  SeqFresh'
    BY <1>1, <1>3 DEF Rotate
  <1>4. ASSUME UNCHANGED <<dir, inner>>, pc # "down"
        PROVE  SeqFresh'
    BY <1>4 DEF dir, inner
  <1>5. CASE AppendBegin
    BY <1>5, <1>4 DEF AppendBegin
  <1>6. CASE AppendLine
    BY <1>6 DEF AppendLine
  <1>7. CASE AppendSkip
    BY <1>7, <1>4 DEF AppendSkip
  <1>8. CASE AppendRotate
    BY <1>8, <1>3, <1>4 DEF AppendRotate
  <1>9. CASE EvictOldest
    BY <1>9 DEF EvictOldest, Restrict
  <1>10. CASE AppendReturn
    BY <1>10, <1>4 DEF AppendReturn
  <1>11. CASE AppendError
    BY <1>11 DEF AppendError, inner
  <1>12. CASE Crash
    BY <1>12 DEF Crash
  <1>13. ASSUME NEW s \in 1..next_seq, NextBatch(s)
         PROVE  SeqFresh'
    BY <1>13, <1>3, <1>4 DEF NextBatch
  <1>14. ASSUME NEW s \in 1..next_seq, Ack(s)
         PROVE  SeqFresh'
    BY <1>14 DEF Ack, inner, Restrict
  <1>15. CASE UNCHANGED vars
    BY <1>15 DEF vars, dir, inner, call
  <1>16. CASE NextBatchError \/ AckError
    BY <1>16, <1>3, <1>4, HandlerErrors
  <1> QED
    BY <1>2, <1>5, <1>6, <1>7, <1>8, <1>9, <1>10, <1>11, <1>12, <1>13, <1>14, <1>15, <1>16
       DEF Next, AckMiss, NextBatchEmpty

\* While the spool is open the next segment number is above every closed
\* one, so that rename() never finds a file under its target.
THEOREM NextSeqFresh == Spec => []SeqFresh
  <1>1. Init => TypeOK /\ SeqFresh
    BY EmptyFileType
       DEF Init, TypeOK, DirType, InnerType, CallType, HistoryType, FaultType, SeqFresh
  <1> QED
    BY <1>1, TypeStep, FreshStep, PTL DEF Spec

\* A step never changes a closed segment that it leaves in the directory.
LEMMA ImmutableStep ==
    ASSUME TypeOK, SeqFresh, [Next]_vars
    PROVE  \A s \in DOMAIN closed \cap DOMAIN closed' : closed'[s] = closed[s]
  <1> SUFFICES ASSUME NEW s \in DOMAIN closed, s \in DOMAIN closed'
               PROVE  closed'[s] = closed[s]
    OBVIOUS
  <1>1. s \in Nat /\ next_seq \in Nat
    BY DEF TypeOK, DirType, InnerType
  <1>2. ASSUME Rotate, pc # "down"
        PROVE  closed'[s] = closed[s]
    <2>1. s # next_seq
      BY <1>1, <1>2 DEF SeqFresh
    <2> QED
      BY <1>2, <2>1 DEF Rotate
  <1>3. CASE closed' = closed
    BY <1>3
  <1>4. ASSUME NEW t, closed' = Restrict(closed, DOMAIN closed \ {t})
        PROVE  closed'[s] = closed[s]
    BY <1>4 DEF Restrict
  <1>5. CASE AppendRotate
    BY <1>2, <1>3, <1>5 DEF AppendRotate, dir
  <1>6. CASE EvictOldest
    BY <1>4, <1>6 DEF EvictOldest
  <1>7. ASSUME NEW t \in 1..next_seq, NextBatch(t)
        PROVE  closed'[s] = closed[s]
    BY <1>2, <1>3, <1>7 DEF NextBatch, dir
  <1>8. ASSUME NEW t \in 1..next_seq, Ack(t)
        PROVE  closed'[s] = closed[s]
    BY <1>4, <1>8 DEF Ack
  <1>9. CASE NextBatchError \/ AckError
    BY <1>2, <1>3, <1>9, HandlerErrors DEF dir
  <1> QED
    BY <1>3, <1>5, <1>6, <1>7, <1>8, <1>9
       DEF Next, AckMiss, NextBatchEmpty, vars, dir,
           Open, AppendBegin, AppendLine, AppendSkip, AppendReturn, AppendError, Crash

\* A batch that is served again is the same batch: closed segments are only
\* ever created and unlinked.
THEOREM ClosedSegmentsImmutable == Spec => SegmentsImmutable
  <1>1. TypeOK /\ SeqFresh /\ [Next]_vars
        => [\A s \in DOMAIN closed \cap DOMAIN closed' : closed'[s] = closed[s]]_vars
    BY ImmutableStep
  <1> QED
    BY <1>1, TypeCorrect, NextSeqFresh, PTL DEF Spec, SegmentsImmutable

-----------------------------------------------------------------------------
(* The order of the lines.                                                 *)

\* The lines a file touches, whole or torn, are numbers.
LEMMA TouchedType ==
    ASSUME NEW f \in File
    PROVE  /\ Touched(f) \subseteq Nat
           /\ Lines(f) \subseteq Touched(f)
  BY FileParts DEF Touched, Lines

\* An empty file touches nothing.
LEMMA EmptyFileLines == Touched(EmptyFile) = {} /\ Lines(EmptyFile) = {} /\ FileOrdered(EmptyFile)
  BY EmptyFileType DEF Touched, Lines, FileOrdered

\* The head of todo is older than the lines after it.
LEMMA PopTodo ==
    ASSUME TypeOK, TodoOrdered, todo # <<>>, todo' = Tail(todo), issued' = issued
    PROVE  /\ TodoOrdered'
           /\ \A x : x = Head(todo).line => OlderThanTodo(x)'
           /\ Head(todo).line <= issued
           /\ \A x : OlderThanTodo(x) => x < Head(todo).line /\ OlderThanTodo(x)'
  <1>1. /\ Head(todo) = todo[1]
        /\ Len(todo) \in Nat \ {0}
        /\ DOMAIN todo = 1..Len(todo)
        /\ DOMAIN todo' = 1..(Len(todo) - 1)
        /\ \A i \in 1..(Len(todo) - 1) : todo'[i] = todo[i + 1]
    BY TodoParts DEF TypeOK, CallType
  <1>2. \A i \in DOMAIN todo' : i + 1 \in DOMAIN todo /\ todo'[i] = todo[i + 1] /\ 1 < i + 1
    BY <1>1
  <1>3. 1 \in DOMAIN todo
    BY <1>1
  <1>4. ASSUME NEW k \in DOMAIN todo', NEW l \in DOMAIN todo', k < l
        PROVE  todo'[k].line < todo'[l].line
    <2>1. k + 1 < l + 1
      BY <1>1, <1>4
    <2> QED
      BY <1>2, <2>1 DEF TodoOrdered
  <1>5. TodoOrdered'
    BY <1>2, <1>4 DEF TodoOrdered
  <1>6. ASSUME NEW x, x = Head(todo).line
        PROVE  OlderThanTodo(x)'
    <2>1. ASSUME NEW k \in DOMAIN todo'
          PROVE  todo[1].line < todo'[k].line
      BY <1>2, <1>3 DEF TodoOrdered
    <2> QED
      BY <1>1, <1>6, <2>1 DEF OlderThanTodo
  <1>7. Head(todo).line <= issued
    BY <1>1, <1>3 DEF TodoOrdered
  <1>8. ASSUME NEW x, OlderThanTodo(x)
        PROVE  x < Head(todo).line /\ OlderThanTodo(x)'
    BY <1>1, <1>2, <1>3, <1>8 DEF OlderThanTodo
  <1> QED
    BY <1>5, <1>6, <1>7, <1>8

\* With nothing left to write the order of todo is no constraint.
LEMMA NoTodo ==
    ASSUME todo' = <<>>
    PROVE  TodoOrdered' /\ \A x : OlderThanTodo(x)'
  BY DEF TodoOrdered, OlderThanTodo

\* New lines are younger than all that was handed over.
LEMMA BeginTodo ==
    ASSUME TypeOK, AppendBegin
    PROVE  /\ TodoOrdered'
           /\ issued' \in Nat /\ issued <= issued'
           /\ \A x \in Nat : x <= issued => OlderThanTodo(x)'
  <1>1. PICK n \in Nat \ {0} :
           /\ DOMAIN todo' = 1..n
           /\ \A i \in 1..n : todo'[i].line = issued + i
           /\ issued' = issued + n
    BY BeginParts
  <1>2. issued \in Nat
    BY DEF TypeOK, HistoryType
  <1> QED
    BY <1>1, <1>2 DEF TodoOrdered, OlderThanTodo

\* What a step that touches neither file nor handed-over lines preserves.
LEMMA OrderSame ==
    ASSUME OrderInv, UNCHANGED <<dir, issued>>, todo' = todo
    PROVE  OrderInv'
  BY DEF OrderInv, InAppendOrder, FileOrdered, Before, Touched, HandedBefore,
         OlderThanTodo, TodoOrdered, dir

\* rotate() turns the youngest file into the highest number.
LEMMA OrderRotate ==
    ASSUME TypeOK, SeqFresh, pc # "down", OrderInv, Rotate, todo' = todo, issued' = issued
    PROVE  OrderInv'
  <1>1. /\ next_seq \in Nat
        /\ DOMAIN closed \subseteq Nat
        /\ \A s \in DOMAIN closed : s < next_seq
    BY DEF TypeOK, DirType, InnerType, SeqFresh
  <1>2. /\ DOMAIN closed' = DOMAIN closed \cup {next_seq}
        /\ closed'[next_seq] = current
        /\ \A s \in DOMAIN closed : closed'[s] = closed[s]
        /\ current' = EmptyFile
    BY <1>1 DEF Rotate
  <1>3. /\ \A s \in DOMAIN closed' : FileOrdered(closed'[s]) /\ Before(closed'[s], current')
        /\ FileOrdered(current')
    BY <1>2, EmptyFileLines DEF OrderInv, InAppendOrder, Before
  <1>4. ASSUME NEW s \in DOMAIN closed', NEW t \in DOMAIN closed', s < t
        PROVE  Before(closed'[s], closed'[t])
    <2>1. s \in DOMAIN closed
      BY <1>1, <1>2, <1>4
    <2> QED
      BY <1>2, <1>4, <2>1 DEF OrderInv, InAppendOrder
  <1>5. \A x : OlderThanTodo(x) <=> OlderThanTodo(x)'
    BY DEF OlderThanTodo
  <1>6. (\A s \in DOMAIN closed' : HandedBefore(closed[s])') /\ HandedBefore(current)'
    BY <1>2, <1>5, EmptyFileLines DEF OrderInv, HandedBefore
  <1>7. TodoOrdered'
    BY DEF OrderInv, TodoOrdered
  <1> QED
    BY <1>3, <1>4, <1>6, <1>7 DEF OrderInv, InAppendOrder

\* A segment that is unlinked leaves the others in order.
LEMMA OrderDrop ==
    ASSUME OrderInv, NEW s, closed' = Restrict(closed, DOMAIN closed \ {s}),
           current' = current, todo' = todo, issued' = issued
    PROVE  OrderInv'
  <1>1. /\ DOMAIN closed' \subseteq DOMAIN closed
        /\ \A t \in DOMAIN closed' : closed'[t] = closed[t]
    BY DEF Restrict
  <1>2. InAppendOrder'
    BY <1>1 DEF OrderInv, InAppendOrder
  <1>3. \A x : OlderThanTodo(x) <=> OlderThanTodo(x)'
    BY DEF OlderThanTodo
  <1>4. (\A t \in DOMAIN closed' : HandedBefore(closed[t])') /\ HandedBefore(current)'
    BY <1>1, <1>3 DEF OrderInv, HandedBefore
  <1>5. TodoOrdered'
    BY DEF OrderInv, TodoOrdered
  <1> QED
    BY <1>2, <1>4, <1>5 DEF OrderInv

\* A piece of the line at the head of todo goes to the end of the open
\* segment, and the line is not written again.
LEMMA OrderWrite ==
    ASSUME TypeOK, OrderInv, todo # <<>>,
           NEW w \in BOOLEAN, NEW n \in Nat,
           current' = Extend(current, Head(todo).line, w, n),
           closed' = closed, issued' = issued,
           todo' = Tail(todo) \/ todo' = <<>>
    PROVE  OrderInv'
  <1> DEFINE x == Head(todo).line
  <1>1. x \in Nat /\ current \in File
    BY TodoParts DEF TypeOK, CallType, DirType
  <1>2. \A y : OlderThanTodo(y) => y < x
    BY TodoParts DEF OlderThanTodo, TypeOK, CallType
  <1>3. x <= issued
    BY TodoParts DEF OrderInv, TodoOrdered, TypeOK, CallType
  <1>4. /\ TodoOrdered'
        /\ \A y : y = x => OlderThanTodo(y)'
        /\ \A y : OlderThanTodo(y) => OlderThanTodo(y)'
    <2>1. CASE todo' = Tail(todo)
      BY <2>1, PopTodo DEF OrderInv
    <2>2. CASE todo' = <<>>
      BY <2>2, NoTodo
    <2> QED
      BY <2>1, <2>2
  <1> HIDE DEF x
  <1>5. /\ Touched(current') = Touched(current) \cup {x}
        /\ FileOrdered(current) /\ (\A y \in Touched(current) : y < x)
              => FileOrdered(current')
    BY <1>1, ExtendFile, SMTT(30) DEF x
  <1>6. FileOrdered(current')
    BY <1>2, <1>5 DEF OrderInv, InAppendOrder, HandedBefore
  <1>7. \A s \in DOMAIN closed : FileOrdered(closed[s]) /\ Before(closed[s], current')
    BY <1>2, <1>5 DEF OrderInv, InAppendOrder, HandedBefore, Before
  <1>8. (\A s \in DOMAIN closed : HandedBefore(closed[s])') /\ HandedBefore(current)'
    BY <1>3, <1>4, <1>5 DEF OrderInv, HandedBefore
  <1> QED
    BY <1>4, <1>6, <1>7, <1>8 DEF OrderInv, InAppendOrder

\* No step breaks the order of the lines.
LEMMA OrderStep ==
    ASSUME TypeOK, SeqFresh, OrderInv, [Next]_vars
    PROVE  OrderInv'
  <1>1. CASE Open
    BY <1>1, OrderSame DEF Open, history
  <1>2. CASE AppendBegin
    <2>1. UNCHANGED dir
      BY <1>2 DEF AppendBegin
    <2>2. /\ TodoOrdered'
          /\ issued \in Nat /\ issued' \in Nat /\ issued <= issued'
          /\ \A x \in Nat : x <= issued => OlderThanTodo(x)'
      BY <1>2, BeginTodo DEF TypeOK, HistoryType
    <2>3. ASSUME NEW f \in File, HandedBefore(f)
          PROVE  \A x \in Touched(f) : x <= issued' /\ OlderThanTodo(x)'
      BY <2>2, <2>3, TouchedType DEF HandedBefore
    <2>4. (\A s \in DOMAIN closed : HandedBefore(closed[s])') /\ HandedBefore(current)'
      BY <2>1, <2>3 DEF OrderInv, HandedBefore, TypeOK, DirType, dir
    <2> QED
      BY <2>1, <2>2, <2>4 DEF OrderInv, InAppendOrder, dir
  <1>3. CASE AppendLine
    <2>1. Head(todo).len + 1 \in Nat
      BY <1>3, TodoParts DEF AppendLine, TypeOK, CallType
    <2> QED
      BY <1>3, <2>1, OrderWrite DEF AppendLine, history
  <1>4. CASE AppendSkip
    <2>1. /\ TodoOrdered'
          /\ \A x : OlderThanTodo(x) => OlderThanTodo(x)'
      BY <1>4, PopTodo DEF AppendSkip, history, OrderInv
    <2> QED
      BY <1>4, <2>1 DEF AppendSkip, dir, history, OrderInv, InAppendOrder, HandedBefore
  <1>5. CASE AppendRotate
    BY <1>5, OrderSame, OrderRotate DEF AppendRotate, history
  <1>6. CASE EvictOldest
    BY <1>6, OrderDrop DEF EvictOldest, call
  <1>7. CASE AppendReturn
    BY <1>7, OrderSame DEF AppendReturn
  <1>8. ASSUME closed' = closed, issued' = issued, todo' = <<>>,
               IF pc = "write" /\ todo # <<>> THEN TornWrite ELSE UNCHANGED current
        PROVE  OrderInv'
    <2>1. CASE current' = current
      BY <1>8, <2>1, NoTodo DEF OrderInv, InAppendOrder, HandedBefore
    <2>2. CASE pc = "write" /\ todo # <<>> /\ TornWrite
      BY <1>8, <2>1, <2>2, TornParts, OrderWrite
    <2> QED
      BY <1>8, <2>1, <2>2
  <1>9. CASE AppendError
    BY <1>8, <1>9 DEF AppendError, history
  <1>10. CASE Crash
    BY <1>8, <1>10 DEF Crash, history
  <1>11. ASSUME NEW s \in 1..next_seq, NextBatch(s)
         PROVE  OrderInv'
    BY <1>11, OrderSame, OrderRotate DEF NextBatch, call
  <1>12. ASSUME NEW s \in 1..next_seq, Ack(s)
         PROVE  OrderInv'
    BY <1>12, OrderDrop DEF Ack, call
  <1>13. CASE UNCHANGED vars
    BY <1>13, OrderSame DEF vars, call, history
  <1>14. CASE NextBatchError \/ AckError
    BY <1>14, HandlerErrors, OrderSame, OrderRotate DEF call, history
  <1> QED
    BY <1>1, <1>2, <1>3, <1>4, <1>5, <1>6, <1>7, <1>9, <1>10, <1>11, <1>12, <1>13, <1>14
       DEF Next, AckMiss, NextBatchEmpty

\* The spool that is opened first is empty.
LEMMA InitInv == Init => TypeOK /\ SpoolInv
  BY EmptyFileType, EmptyFileLines
     DEF Init, TypeOK, DirType, InnerType, CallType, HistoryType, FaultType,
         SpoolInv, SeqFresh, OrderInv, InAppendOrder, HandedBefore, TodoOrdered,
         EvictedInv, ServedInv, DurableInv, CountsTheFile

\* The stream is a queue: segment numbers, the order inside each file and
\* the open segment agree with the order of the append calls.
THEOREM StreamInOrder == Spec => []InAppendOrder
  <1>1. OrderInv => InAppendOrder
    BY DEF OrderInv
  <1>2. Init => TypeOK /\ SeqFresh /\ OrderInv
    BY InitInv DEF SpoolInv
  <1> QED
    BY <1>1, <1>2, TypeStep, FreshStep, OrderStep, PTL DEF Spec

-----------------------------------------------------------------------------
(* What was dropped, served and accepted.                                  *)

\* How the lines still to be written move in a step that hands none over.
LEMMA TodoMoves ==
    ASSUME TypeOK, OrderInv, todo' \in {todo, <<>>} \/ (todo # <<>> /\ todo' = Tail(todo)),
           issued' = issued
    PROVE  \A x : OlderThanTodo(x) => OlderThanTodo(x)'
  <1>1. CASE todo' = todo
    BY <1>1 DEF OlderThanTodo
  <1>2. CASE todo' = <<>>
    BY <1>2, NoTodo
  <1>3. CASE todo # <<>> /\ todo' = Tail(todo)
    BY <1>3, PopTodo DEF OrderInv
  <1> QED
    BY <1>1, <1>2, <1>3

\* The lines of the open segment when a step may write a piece of the line at
\* the head of todo to it.
LEMMA WriteLines ==
    ASSUME TypeOK, todo # <<>>, NEW w \in BOOLEAN, NEW n \in Nat,
           current' = Extend(current, Head(todo).line, w, n)
    PROVE  /\ Touched(current') = Touched(current) \cup {Head(todo).line}
           /\ Lines(current') = Lines(current) \cup (IF w THEN {Head(todo).line} ELSE {})
           /\ \A x : OlderThanTodo(x) => x < Head(todo).line
  <1>1. Head(todo).line \in Nat /\ current \in File
    BY TodoParts DEF TypeOK, CallType, DirType
  <1>2. \A y : OlderThanTodo(y) => y < Head(todo).line
    BY TodoParts DEF OlderThanTodo, TypeOK, CallType
  <1> DEFINE x == Head(todo).line
  <1>3. x \in Nat
    BY <1>1
  <1>4. current' = Extend(current, x, w, n)
    OBVIOUS
  <1> HIDE DEF x
  <1>5. /\ Touched(Extend(current, x, w, n)) = Touched(current) \cup {x}
        /\ Lines(Extend(current, x, w, n)) = Lines(current) \cup (IF w THEN {x} ELSE {})
    <2>1. Touched(Extend(current, x, w, n)) = Touched(current) \cup {x}
      BY <1>1, <1>3, ExtendFile, SMTT(60)
    <2>2. Lines(Extend(current, x, w, n)) = Lines(current) \cup (IF w THEN {x} ELSE {})
      BY <1>1, <1>3, ExtendFile, SMTT(60)
    <2> QED
      BY <2>1, <2>2
  <1>6. /\ Touched(current') = Touched(current) \cup {x}
        /\ Lines(current') = Lines(current) \cup (IF w THEN {x} ELSE {})
    BY <1>4, <1>5
  <1> QED
    BY <1>2, <1>6 DEF x

\* The four ways a step treats the directory.
KeepsFiles == UNCHANGED dir

WritesLine(w) ==
    /\ todo # <<>>
    /\ closed' = closed
    /\ \E n \in Nat : current' = Extend(current, Head(todo).line, w, n)

Unlinks(s) ==
    /\ closed' = Restrict(closed, DOMAIN closed \ {s})
    /\ current' = current

Rotates == pc # "down" /\ Rotate

\* What an interrupted append does to the directory is one of them.
LEMMA TornCases ==
    ASSUME TypeOK, closed' = closed,
           IF pc = "write" /\ todo # <<>> THEN TornWrite ELSE UNCHANGED current
    PROVE  KeepsFiles \/ WritesLine(FALSE)
  BY TornParts DEF KeepsFiles, WritesLine, dir

\* Everything in the directory stays younger than a line x that is older than
\* all of it and all that append has still to write.
LEMMA OlderStays ==
    ASSUME TypeOK, SeqFresh, OrderInv, NEW x,
           \A s \in DOMAIN closed : Older(x, closed[s]), Older(x, current), OlderThanTodo(x),
           \/ KeepsFiles
           \/ \E w \in BOOLEAN : WritesLine(w)
           \/ \E s : Unlinks(s)
           \/ Rotates
    PROVE  (\A s \in DOMAIN closed' : Older(x, closed'[s])) /\ Older(x, current')
  <1>1. CASE KeepsFiles
    BY <1>1 DEF KeepsFiles, dir
  <1>2. ASSUME NEW w \in BOOLEAN, WritesLine(w)
        PROVE  (\A s \in DOMAIN closed' : Older(x, closed'[s])) /\ Older(x, current')
    BY <1>2, WriteLines DEF WritesLine, Older
  <1>3. ASSUME NEW s, Unlinks(s)
        PROVE  (\A t \in DOMAIN closed' : Older(x, closed'[t])) /\ Older(x, current')
    BY <1>3 DEF Unlinks, Restrict
  <1>4. CASE Rotates
    BY <1>4, EmptyFileLines DEF Rotates, Rotate, Older
  <1> QED
    BY <1>1, <1>2, <1>3, <1>4

\* Every step treats the directory in one of the four ways.
LEMMA StepCases ==
    ASSUME TypeOK, [Next]_vars
    PROVE  \/ KeepsFiles
           \/ \E w \in BOOLEAN : WritesLine(w)
           \/ \E s : Unlinks(s)
           \/ Rotates
  <1>1. CASE AppendLine
    <2>1. Head(todo).len + 1 \in Nat
      BY <1>1, TodoParts DEF AppendLine, TypeOK, CallType
    <2> QED
      BY <1>1, <2>1 DEF AppendLine, WritesLine
  <1>2. CASE AppendRotate
    BY <1>2 DEF AppendRotate, Rotates, KeepsFiles, dir
  <1>3. CASE EvictOldest
    BY <1>3 DEF EvictOldest, Unlinks
  <1>4. CASE AppendError \/ Crash
    BY <1>4, TornCases DEF AppendError, Crash
  <1>5. ASSUME NEW s \in 1..next_seq, NextBatch(s)
        PROVE  KeepsFiles \/ Rotates
    BY <1>5 DEF NextBatch, Rotates, KeepsFiles, dir
  <1>6. ASSUME NEW s \in 1..next_seq, Ack(s)
        PROVE  Unlinks(s)
    BY <1>6 DEF Ack, Unlinks
  <1>7. CASE Open \/ AppendBegin \/ AppendSkip \/ AppendReturn \/ UNCHANGED vars
    BY <1>7 DEF Open, AppendBegin, AppendSkip, AppendReturn, vars, KeepsFiles
  <1>8. CASE NextBatchError \/ AckError
    BY <1>8, HandlerErrors DEF KeepsFiles, Rotates
  <1> QED
    BY <1>1, <1>2, <1>3, <1>4, <1>5, <1>6, <1>7, <1>8 DEF Next, AckMiss, NextBatchEmpty

\* How todo and issued move in any step.
LEMMA StepTodo ==
    ASSUME TypeOK, OrderInv, [Next]_vars
    PROVE  /\ issued \in Nat /\ issued' \in Nat /\ issued <= issued'
           /\ \A x \in Nat : OlderThanTodo(x) /\ x <= issued => OlderThanTodo(x)'
  <1>1. issued \in Nat
    BY DEF TypeOK, HistoryType
  <1>2. CASE AppendBegin
    BY <1>1, <1>2, BeginTodo
  <1>3. /\ issued' = issued
        /\ todo' \in {todo, <<>>} \/ (todo # <<>> /\ todo' = Tail(todo))
        => \A x : OlderThanTodo(x) => OlderThanTodo(x)'
    BY TodoMoves
  <1>4. CASE ~AppendBegin
    <2>1. /\ issued' = issued
          /\ todo' \in {todo, <<>>} \/ (todo # <<>> /\ todo' = Tail(todo))
      BY <1>4 DEF Next, vars, call, history, Open, AppendLine, AppendSkip, AppendRotate,
                  EvictOldest, AppendReturn, AppendError, Crash, NextBatch,
                  NextBatchEmpty, NextBatchError, Ack, AckMiss, AckError
    <2> QED
      BY <1>1, <1>3, <2>1
  <1> QED
    BY <1>2, <1>4

\* What was evicted stays older than what is there.
LEMMA EvictedStep ==
    ASSUME TypeOK, SeqFresh, OrderInv, EvictedInv, [Next]_vars
    PROVE  EvictedInv'
  <1>1. evicted \subseteq Nat
    BY DEF TypeOK, HistoryType
  <1>2. ASSUME NEW e \in evicted
        PROVE  /\ \A s \in DOMAIN closed' : Older(e, closed'[s])
               /\ Older(e, current')
               /\ OlderThanTodo(e)'
               /\ e <= issued'
    <2>1. /\ \A s \in DOMAIN closed : Older(e, closed[s])
          /\ Older(e, current)
          /\ OlderThanTodo(e)
          /\ e <= issued
      BY DEF EvictedInv
    <2>2. (\A s \in DOMAIN closed' : Older(e, closed'[s])) /\ Older(e, current')
      BY <2>1, OlderStays, StepCases
    <2>3. e \in Nat
      BY <1>1
    <2>4. OlderThanTodo(e)' /\ e <= issued'
      BY <2>1, <2>3, StepTodo
    <2> QED
      BY <2>2, <2>4
  <1>3. CASE EvictOldest
    <2>1. PICK s \in DOMAIN closed :
             /\ Oldest(s)
             /\ closed' = Restrict(closed, DOMAIN closed \ {s})
             /\ evicted' = evicted \cup Lines(closed[s])
      BY <1>3 DEF EvictOldest
    <2>2. current' = current /\ todo' = todo /\ issued' = issued
      BY <1>3 DEF EvictOldest, call
    <2>3. ASSUME NEW e \in Lines(closed[s])
          PROVE  /\ \A t \in DOMAIN closed' : Older(e, closed'[t])
                 /\ Older(e, current)
                 /\ OlderThanTodo(e)
                 /\ e <= issued
      <3>1. e \in Touched(closed[s])
        BY TouchedType DEF TypeOK, DirType
      <3>2. \A t \in DOMAIN closed' : t \in DOMAIN closed /\ t # s /\ closed'[t] = closed[t]
        BY <2>1 DEF Restrict
      <3>3. \A t \in DOMAIN closed' : s < t
        BY <2>1, <3>2 DEF Oldest, TypeOK, DirType
      <3> QED
        BY <3>1, <3>2, <3>3 DEF OrderInv, InAppendOrder, HandedBefore, Before, Older
    <2>4. \A e \in Lines(closed[s]) : OlderThanTodo(e)'
      BY <2>2, <2>3 DEF OlderThanTodo
    <2> QED
      BY <1>2, <2>1, <2>2, <2>3, <2>4 DEF EvictedInv
  <1>4. CASE ~EvictOldest
    <2>1. evicted' = evicted
      BY <1>4 DEF Next, vars, history, Open, AppendBegin, AppendLine, AppendSkip,
                  AppendRotate, AppendReturn, AppendError, Crash, NextBatch,
                  NextBatchEmpty, NextBatchError, Ack, AckMiss, AckError
    <2> QED
      BY <1>2, <2>1 DEF EvictedInv
  <1> QED
    BY <1>3, <1>4

\* A closed segment stays wholly served or wholly newer.
LEMMA ServedStep ==
    ASSUME TypeOK, SeqFresh, OrderInv, ServedInv, [Next]_vars
    PROVE  ServedInv'
  <1>1. served \subseteq Nat
    BY DEF TypeOK, HistoryType
  \* What was served before the step.
  <1>2. \A o \in served : Older(o, current') /\ OlderThanTodo(o)' /\ o <= issued'
    <2>1. SUFFICES ASSUME NEW o \in served
                   PROVE  Older(o, current') /\ OlderThanTodo(o)' /\ o <= issued'
      OBVIOUS
    <2>2. Older(o, current) /\ OlderThanTodo(o) /\ o <= issued
      BY DEF ServedInv
    <2>3. OlderThanTodo(o)' /\ o <= issued'
      BY <1>1, <2>2, StepTodo
    <2>4. Older(o, current')
      <3>1. CASE KeepsFiles
        BY <2>2, <3>1 DEF KeepsFiles, dir
      <3>2. ASSUME NEW w \in BOOLEAN, WritesLine(w)
            PROVE  Older(o, current')
        BY <2>2, <3>2, WriteLines DEF WritesLine, Older
      <3>3. ASSUME NEW s, Unlinks(s)
            PROVE  Older(o, current')
        BY <2>2, <3>3 DEF Unlinks
      <3>4. CASE Rotates
        BY <3>4, EmptyFileLines DEF Rotates, Rotate, Older
      <3> QED
        BY <3>1, <3>2, <3>3, <3>4, StepCases
    <2> QED
      BY <2>3, <2>4
  <1>3. \A t \in DOMAIN closed' :
           Lines(closed'[t]) \subseteq served \/ \A o \in served : Older(o, closed'[t])
    <2>1. CASE closed' = closed
      BY <2>1 DEF ServedInv
    <2>2. ASSUME NEW s, Unlinks(s)
          PROVE  \A t \in DOMAIN closed' :
                    Lines(closed'[t]) \subseteq served \/ \A o \in served : Older(o, closed'[t])
      BY <2>2 DEF Unlinks, Restrict, ServedInv
    <2>3. CASE Rotates
      BY <2>3 DEF Rotates, Rotate, ServedInv
    <2> QED
      BY <2>1, <2>2, <2>3, StepCases DEF KeepsFiles, WritesLine, dir
  <1>4. ASSUME NEW s \in 1..next_seq, NextBatch(s)
        PROVE  ServedInv'
    <2>1. /\ s \in DOMAIN closed'
          /\ \A t \in DOMAIN closed' : s <= t
          /\ DOMAIN closed' \subseteq Nat
      <3>1. CASE DOMAIN closed = {} /\ current_len > 0
        BY <1>4, <3>1 DEF NextBatch, Rotate, TypeOK, InnerType
      <3>2. CASE ~(DOMAIN closed = {} /\ current_len > 0)
        BY <1>4, <3>2 DEF NextBatch, Oldest, dir, TypeOK, DirType
      <3> QED
        BY <3>1, <3>2
    <2>2. served' = served \cup Lines(closed'[s])
      BY <1>4 DEF NextBatch
    <2>3. OrderInv' /\ TypeOK'
      BY OrderStep, TypeStep
    <2>4. Lines(closed'[s]) \subseteq Touched(closed'[s])
      BY <2>1, <2>3, TouchedType DEF TypeOK, DirType
    <2>5. ASSUME NEW o \in Lines(closed'[s])
          PROVE  Older(o, current') /\ OlderThanTodo(o)' /\ o <= issued'
      BY <2>1, <2>3, <2>4 DEF OrderInv, InAppendOrder, Before, HandedBefore, Older
    <2>6. ASSUME NEW t \in DOMAIN closed'
          PROVE  \/ Lines(closed'[t]) \subseteq served'
                 \/ \A o \in served' : Older(o, closed'[t])
      <3>1. CASE t = s
        BY <2>2, <3>1
      <3>2. CASE t # s
        <4>1. s < t
          BY <2>1, <3>2
        <4>2. Before(closed'[s], closed'[t])
          BY <2>1, <2>3, <4>1 DEF OrderInv, InAppendOrder
        <4>3. \A o \in Lines(closed'[s]) : Older(o, closed'[t])
          BY <2>4, <4>2 DEF Before, Older
        <4> QED
          BY <1>3, <2>2, <4>3
      <3> QED
        BY <3>1, <3>2
    <2> QED
      BY <1>2, <2>2, <2>5, <2>6 DEF ServedInv
  <1>5. CASE ~\E s \in 1..next_seq : NextBatch(s)
    <2>1. served' = served
      BY <1>5 DEF Next, vars, history, Open, AppendBegin, AppendLine, AppendSkip,
                  AppendRotate, EvictOldest, AppendReturn, AppendError, Crash,
                  NextBatchEmpty, NextBatchError, Ack, AckMiss, AckError
    <2> QED
      BY <1>2, <1>3, <2>1 DEF ServedInv
  <1> QED
    BY <1>4, <1>5

\* The lines in the directory after a step: those before it, without a
\* segment that was unlinked, with a line that was written.
LEMMA StoredCases ==
    ASSUME TypeOK, SeqFresh
    PROVE  /\ KeepsFiles => Stored' = Stored
           /\ \A w \in BOOLEAN : WritesLine(w)
                 => Stored' = Stored \cup (IF w THEN {Head(todo).line} ELSE {})
           /\ \A s \in DOMAIN closed : Unlinks(s) => Stored \subseteq Stored' \cup Lines(closed[s])
           /\ Rotates => Stored' = Stored
  <1>1. KeepsFiles => Stored' = Stored
    BY DEF KeepsFiles, Stored, dir
  <1>2. ASSUME NEW w \in BOOLEAN, WritesLine(w)
        PROVE  Stored' = Stored \cup (IF w THEN {Head(todo).line} ELSE {})
    <2>1. Lines(current') = Lines(current) \cup (IF w THEN {Head(todo).line} ELSE {})
      BY <1>2, WriteLines DEF WritesLine
    <2>2. (UNION {Lines(closed'[s]) : s \in DOMAIN closed'})
             = (UNION {Lines(closed[s]) : s \in DOMAIN closed})
      BY <1>2 DEF WritesLine
    <2> QED
      BY <2>1, <2>2 DEF Stored
  <1>3. ASSUME NEW s \in DOMAIN closed, Unlinks(s)
        PROVE  Stored \subseteq Stored' \cup Lines(closed[s])
    <2>1. \A t \in DOMAIN closed : t = s \/ (t \in DOMAIN closed' /\ closed'[t] = closed[t])
      BY <1>3 DEF Unlinks, Restrict
    <2> QED
      BY <1>3, <2>1 DEF Stored, Unlinks
  <1>4. ASSUME Rotates
        PROVE  Stored' = Stored
    <2>1. /\ DOMAIN closed' = DOMAIN closed \cup {next_seq}
          /\ closed'[next_seq] = current
          /\ \A s \in DOMAIN closed : closed'[s] = closed[s]
      BY <1>4 DEF Rotates, Rotate, SeqFresh, TypeOK, DirType, InnerType
    <2>2. Lines(current') = {}
      BY <1>4, EmptyFileLines DEF Rotates, Rotate
    <2>3. (UNION {Lines(closed'[s]) : s \in DOMAIN closed'})
             = (UNION {Lines(closed[s]) : s \in DOMAIN closed}) \cup Lines(current)
      <3> DEFINE before == {Lines(closed[s]) : s \in DOMAIN closed}
      <3>1. {Lines(closed'[s]) : s \in DOMAIN closed'} = before \cup {Lines(current)}
        BY <2>1
      <3> HIDE DEF before
      <3>2. (UNION (before \cup {Lines(current)})) = (UNION before) \cup Lines(current)
        OBVIOUS
      <3> QED
        BY <3>1, <3>2 DEF before
    <2> QED
      BY <2>2, <2>3 DEF Stored
  <1> QED
    BY <1>1, <1>2, <1>3, <1>4

\* What was accepted stays stored, acknowledged or evicted.
LEMMA DurableStep ==
    ASSUME TypeOK, SeqFresh, DurableInv, [Next]_vars
    PROVE  DurableInv'
  <1> USE DEF DurableInv
  <1>1. CASE AppendLine
    <2>1. Head(todo).len + 1 \in Nat
      BY <1>1, TodoParts DEF AppendLine, TypeOK, CallType
    <2>2. WritesLine(TRUE)
      BY <1>1, <2>1 DEF AppendLine, WritesLine
    <2>3. Stored' = Stored \cup {Head(todo).line}
      BY <2>2, StoredCases
    <2> QED
      BY <1>1, <2>3 DEF AppendLine, history
  <1>2. CASE EvictOldest
    <2>1. PICK s \in DOMAIN closed :
             /\ closed' = Restrict(closed, DOMAIN closed \ {s})
             /\ evicted' = evicted \cup Lines(closed[s])
      BY <1>2 DEF EvictOldest
    <2>2. Stored \subseteq Stored' \cup Lines(closed[s])
      BY <1>2, <2>1, StoredCases DEF EvictOldest, Unlinks
    <2> QED
      BY <1>2, <2>1, <2>2 DEF EvictOldest, call
  <1>3. ASSUME NEW s \in 1..next_seq, Ack(s)
        PROVE  DurableInv'
    <2>1. Stored \subseteq Stored' \cup Lines(closed[s])
      BY <1>3, StoredCases DEF Ack, Unlinks
    <2> QED
      BY <1>3, <2>1 DEF Ack, call
  <1>4. ASSUME Stored' = Stored, accepted' \cup written' \subseteq accepted \cup written,
               acked' = acked, evicted' = evicted
        PROVE  DurableInv'
    BY <1>4
  <1>5. CASE AppendError \/ Crash
    <2>1. KeepsFiles \/ WritesLine(FALSE)
      BY <1>5, TornCases DEF AppendError, Crash
    <2>2. Stored' = Stored
      BY <2>1, StoredCases
    <2> QED
      BY <1>4, <1>5, <2>2 DEF AppendError, Crash, history
  <1>6. ASSUME NEW s \in 1..next_seq, NextBatch(s)
        PROVE  DurableInv'
    <2>1. KeepsFiles \/ Rotates
      BY <1>6 DEF NextBatch, KeepsFiles, Rotates, dir
    <2> QED
      BY <1>4, <1>6, <2>1, StoredCases DEF NextBatch, call
  <1>7. CASE AppendRotate
    <2>1. KeepsFiles \/ Rotates
      BY <1>7 DEF AppendRotate, KeepsFiles, Rotates, dir
    <2> QED
      BY <1>4, <1>7, <2>1, StoredCases DEF AppendRotate, history
  <1>8. CASE AppendBegin \/ AppendReturn
    <2>1. KeepsFiles
      BY <1>8 DEF AppendBegin, AppendReturn, KeepsFiles
    <2> QED
      BY <1>4, <1>8, <2>1, StoredCases DEF AppendBegin, AppendReturn
  <1>9. CASE Open \/ AppendSkip \/ UNCHANGED vars
    <2>1. KeepsFiles
      BY <1>9 DEF Open, AppendSkip, vars, KeepsFiles
    <2> QED
      BY <1>4, <1>9, <2>1, StoredCases DEF Open, AppendSkip, vars, call, history
  <1>10. CASE NextBatchError \/ AckError
    <2>1. KeepsFiles \/ Rotates
      BY <1>10, HandlerErrors DEF KeepsFiles, Rotates
    <2> QED
      BY <1>4, <1>10, <2>1, HandlerErrors, StoredCases DEF call, history
  <1> QED
    BY <1>1, <1>2, <1>3, <1>5, <1>6, <1>7, <1>8, <1>9, <1>10
       DEF Next, AckMiss, NextBatchEmpty

-----------------------------------------------------------------------------
(* The length of the open segment.                                         *)

\* An interrupted write adds no more than torn bytes to the open segment.
LEMMA TornBytes ==
    ASSUME TypeOK, IF pc = "write" /\ todo # <<>> THEN TornWrite ELSE UNCHANGED current
    PROVE  /\ current.bytes <= current'.bytes
           /\ current'.bytes - current.bytes = current'.torn - current.torn
  <1>1. current \in File /\ current.bytes \in Nat /\ current.torn \in Nat
    BY FileParts DEF TypeOK, DirType
  <1>2. CASE current' = current
    BY <1>1, <1>2
  <1>3. ASSUME todo # <<>>, NEW k \in Nat, current' = Extend(current, Head(todo).line, FALSE, k)
        PROVE  current'.bytes = current.bytes + k /\ current'.torn = current.torn + k
    BY ONLY <1>3 DEF Extend
  <1>4. ASSUME todo # <<>>, NEW k \in Nat, current' = Extend(current, Head(todo).line, FALSE, k)
        PROVE  /\ current.bytes <= current'.bytes
               /\ current'.bytes - current.bytes = current'.torn - current.torn
    <2>1. current'.bytes = current.bytes + k /\ current'.torn = current.torn + k
      BY <1>3, <1>4
    <2> QED
      BY ONLY <1>1, <2>1, k \in Nat
  <1> QED
    BY <1>2, <1>4, TornParts

\* The counter of the open segment stays as close to its length as it is.
LEMMA CountStep ==
    ASSUME TypeOK, CountsTheFile, [Next]_vars
    PROVE  CountsTheFile'
  <1> USE DEF CountsTheFile, Uncounted
  <1>1. /\ errors \in Nat /\ current_len \in Nat
        /\ current \in File /\ current.bytes \in Nat /\ current.torn \in Nat
    BY FileParts DEF TypeOK, FaultType, InnerType, DirType
  <1>2. CASE Open
    BY <1>1, <1>2 DEF Open, dir, faults
  <1>3. CASE AppendLine
    <2>1. Head(todo).line \in Nat /\ Head(todo).len \in Nat /\ Head(todo).len + 1 \in Nat
      BY <1>3, TodoParts DEF AppendLine, TypeOK, CallType
    <2>2. /\ current'.bytes = current.bytes + (Head(todo).len + 1)
          /\ current'.torn = current.torn
      <3> DEFINE line == Head(todo).line
                 bytes == Head(todo).len + 1
      <3>1. current' = Extend(current, line, TRUE, bytes)
        BY ONLY <1>3 DEF AppendLine
      <3>2. line \in Nat /\ bytes \in Nat
        BY ONLY <2>1
      <3> HIDE DEF line, bytes
      <3>3. current'.bytes = current.bytes + bytes /\ current'.torn = current.torn
        BY ONLY <3>1 DEF Extend
      <3> QED
        BY ONLY <3>3 DEF bytes
    <2>3. current_len' = current_len + (Head(todo).len + 1)
      <3>1. current_len' = current_len + Head(todo).len + 1
        BY <1>3 DEF AppendLine
      <3> QED
        BY <1>1, <2>1, <3>1
    <2>4. errors' = errors /\ pc # "down"
      BY <1>3 DEF AppendLine, faults
    <2> QED
      BY <1>1, <2>1, <2>2, <2>3, <2>4
  <1>4. ASSUME Rotate
        PROVE  CountsTheFile'
    BY <1>4, EmptyFileType DEF Rotate
  <1>5. CASE AppendRotate
    <2>1. CASE Rotate
      BY <1>4, <2>1
    <2>2. CASE UNCHANGED <<dir, inner>>
      BY <1>5, <2>2 DEF AppendRotate, dir, inner, faults
    <2> QED
      BY <1>5, <2>1, <2>2 DEF AppendRotate
  <1>6. CASE AppendError
    <2>1. pc # "down" /\ errors' = errors + 1 /\ current_len' = current_len
      BY <1>6 DEF AppendError, inner
    <2>2. /\ current.bytes <= current'.bytes
          /\ current'.bytes - current.bytes = current'.torn - current.torn
      BY <1>6, TornBytes DEF AppendError
    <2>3. current'.bytes \in Nat /\ current'.torn \in Nat
      <3>1. current' \in File
        BY TypeStep DEF TypeOK, DirType
      <3> QED
        BY <3>1, FileParts
    <2>4. /\ current_len <= current.bytes
          /\ current.bytes <= current_len + current.torn
      BY <1>1, <2>1
    <2>5. errors' # 0
      BY <1>1, <2>1
    <2> QED
      BY <1>1, <2>1, <2>2, <2>3, <2>4, <2>5
  <1>7. CASE Crash
    BY <1>7 DEF Crash
  <1>8. ASSUME NEW s \in 1..next_seq, NextBatch(s)
        PROVE  CountsTheFile'
    <2>1. CASE Rotate
      BY <1>4, <2>1
    <2>2. CASE UNCHANGED <<dir, inner>>
      BY <1>8, <2>2 DEF NextBatch, dir, inner, call, faults
    <2> QED
      BY <1>8, <2>1, <2>2 DEF NextBatch
  <1>9. ASSUME NEW s \in 1..next_seq, Ack(s)
        PROVE  CountsTheFile'
    BY <1>9 DEF Ack, inner, call, faults
  <1>10. CASE AppendBegin \/ AppendSkip \/ EvictOldest \/ AppendReturn \/ UNCHANGED vars
    BY <1>10 DEF AppendBegin, AppendSkip, EvictOldest, AppendReturn, vars,
                 dir, inner, call, faults
  <1>11. CASE NextBatchError \/ AckError
    <2>1. CASE Rotate
      BY <1>4, <2>1
    <2>2. CASE UNCHANGED <<dir, inner>>
      BY <1>1, <1>11, <2>2, HandlerErrors DEF dir, inner, call
    <2> QED
      BY <1>11, <2>1, <2>2, HandlerErrors
  <1> QED
    BY <1>2, <1>3, <1>5, <1>6, <1>7, <1>8, <1>9, <1>10, <1>11 DEF Next, AckMiss, NextBatchEmpty

-----------------------------------------------------------------------------
(* The theorems.                                                           *)

\* The invariant is inductive.
THEOREM Inductive == Spec => [](TypeOK /\ SpoolInv)
  <1>1. TypeOK /\ SpoolInv /\ [Next]_vars => (TypeOK /\ SpoolInv)'
    BY TypeStep, FreshStep, OrderStep, EvictedStep, ServedStep, DurableStep, CountStep
       DEF SpoolInv
  <1> QED
    BY <1>1, InitInv, PTL DEF Spec

\* Readings whose append returned Ok leave the directory only through ack()
\* or enforce_cap(); no crash, error or reopening loses one.
THEOREM AcceptedAreKept == Spec => []AcceptedNotLost
  <1>1. SpoolInv => AcceptedNotLost
    BY DEF SpoolInv, DurableInv, AcceptedNotLost
  <1> QED
    BY <1>1, Inductive, PTL

\* "Newest data wins": the cap only ever takes readings older than all that
\* is kept.
THEOREM NewestDataWins == Spec => []EvictedAreOldest
  <1>1. TypeOK /\ SpoolInv => EvictedAreOldest
    <2>1. SUFFICES ASSUME TypeOK, SpoolInv, NEW e \in evicted, NEW x \in Stored
                   PROVE  e < x
      BY DEF EvictedAreOldest
    <2>2. x \in Touched(current) \/ \E s \in DOMAIN closed : x \in Touched(closed[s])
      <3>1. x \in Lines(current) \/ \E s \in DOMAIN closed : x \in Lines(closed[s])
        BY <2>1 DEF Stored
      <3> QED
        BY <2>1, <3>1, TouchedType DEF TypeOK, DirType
    <2> QED
      BY <2>1, <2>2 DEF SpoolInv, EvictedInv, Older
  <1> QED
    BY <1>1, Inductive, PTL

\* next_batch() turns to readings in the order they were appended: what it
\* serves for the first time is newer than all that it has served.
THEOREM FirstServedInOrder == Spec => ServedInOrder
  <1>1. TypeOK /\ SpoolInv /\ [Next]_vars
        => [\A n \in served' \ served : \A o \in served : o < n]_vars
    <2>1. SUFFICES ASSUME TypeOK, SpoolInv, [Next]_vars,
                          NEW n \in served' \ served, NEW o \in served
                   PROVE  o < n
      OBVIOUS
    <2>2. PICK s \in 1..next_seq : NextBatch(s)
      BY <2>1 DEF Next, vars, history, Open, AppendBegin, AppendLine, AppendSkip,
                  AppendRotate, EvictOldest, AppendReturn, AppendError, Crash,
                  NextBatchEmpty, NextBatchError, Ack, AckMiss, AckError
    <2>3. n \in Lines(closed'[s]) /\ ~(Lines(closed'[s]) \subseteq served)
      BY <2>1, <2>2 DEF NextBatch
    <2>4. Older(o, closed'[s])
      <3>1. CASE DOMAIN closed = {} /\ current_len > 0
        <4>1. closed'[s] = current
          BY <2>2, <3>1 DEF NextBatch, Rotate
        <4> QED
          BY <2>1, <4>1 DEF SpoolInv, ServedInv
      <3>2. CASE ~(DOMAIN closed = {} /\ current_len > 0)
        <4>1. s \in DOMAIN closed /\ closed' = closed
          BY <2>2, <3>2 DEF NextBatch, Oldest, dir
        <4> QED
          BY <2>1, <2>3, <4>1 DEF SpoolInv, ServedInv
      <3> QED
        BY <3>1, <3>2
    <2>5. s \in DOMAIN closed' /\ closed'[s] \in File
      <3>1. TypeOK'
        BY <2>1, TypeStep
      <3>2. s \in DOMAIN closed'
        BY <2>2 DEF NextBatch, Rotate, Oldest, dir
      <3> QED
        BY <3>1, <3>2 DEF TypeOK, DirType
    <2> QED
      BY <2>3, <2>4, <2>5, TouchedType DEF Older
  <1> QED
    BY <1>1, Inductive, PTL DEF Spec, ServedInOrder

-----------------------------------------------------------------------------
(* The cap.                                                                *)

\* The closed segments of an empty directory hold nothing.
LEMMA EmptyDirectory ==
    ASSUME DOMAIN closed = {}
    PROVE  ClosedBytes = 0
  <1>1. BytesIn(closed) = {}
    BY DEF BytesIn
  <1> QED
    BY <1>1, FS_EmptySet DEF ClosedBytes

\* The closed segments hold a number of bytes: there are finitely many of
\* them, each of some length.
LEMMA ClosedBytesType ==
    ASSUME TypeOK, SeqFresh, pc # "down"
    PROVE  ClosedBytes \in Nat
  <1> DEFINE part == [s \in DOMAIN closed |-> {s} \X (1..closed[s].bytes)]
             parts == {{s} \X (1..closed[s].bytes) : s \in DOMAIN closed}
  <1>1. IsFiniteSet(DOMAIN closed)
    <2>1. /\ DOMAIN closed \subseteq Nat /\ next_seq \in Nat
          /\ \A s \in DOMAIN closed : s <= next_seq
      BY DEF TypeOK, DirType, InnerType, SeqFresh
    <2> QED
      BY <2>1, FS_BoundedSetOfNaturals
  <1>2. part \in Surjection(DOMAIN closed, parts)
    BY DEF Surjection
  <1>3. IsFiniteSet(parts)
    <2> HIDE DEF part, parts
    <2> QED
      BY <1>1, <1>2, FS_Surjection
  <1>4. ASSUME NEW s \in DOMAIN closed
        PROVE  IsFiniteSet({s} \X (1..closed[s].bytes))
    <2>1. closed[s] \in File
      BY DEF TypeOK, DirType
    <2>2. closed[s].bytes \in Int /\ 1 \in Int
      BY <2>1, FileParts
    <2>3. IsFiniteSet(1..closed[s].bytes) /\ IsFiniteSet({s})
      BY <2>2, FS_Interval, FS_Singleton
    <2> QED
      BY <2>3, FS_Product
  <1>5. \A t \in parts : IsFiniteSet(t)
    BY <1>4
  <1>6. IsFiniteSet(UNION parts)
    <2> HIDE DEF parts
    <2> QED
      BY <1>3, <1>5, FS_UNION
  <1> QED
    BY <1>6, FS_CardinalityType DEF ClosedBytes, BytesIn

\* enforce_cap() only runs when rotate() has seen to a large open segment.
OpenIsSmall == pc = "cap" => current_len < segment_bytes

\* That stays so until append returns.
LEMMA OpenIsSmallStep ==
    ASSUME TypeOK, OpenIsSmall, [Next]_vars
    PROVE  OpenIsSmall'
  <1> USE SpoolAssumption DEF OpenIsSmall
  <1>1. current_len \in Nat /\ segment_bytes \in Nat \ {0}
    BY DEF TypeOK, InnerType
  <1>2. CASE AppendRotate
    <2>1. CASE current_len >= segment_bytes
      BY <1>1, <1>2, <2>1 DEF AppendRotate, Rotate
    <2>2. CASE ~(current_len >= segment_bytes)
      BY <1>1, <1>2, <2>2 DEF AppendRotate, inner
    <2> QED
      BY <2>1, <2>2
  <1>3. CASE EvictOldest \/ UNCHANGED vars
    BY <1>3 DEF EvictOldest, call, vars, inner
  <1>4. CASE pc' # "cap"
    BY <1>4
  <1>5. ASSUME NEW s \in 1..next_seq, NextBatch(s) \/ Ack(s)
        PROVE  pc' # "cap"
    BY <1>5 DEF NextBatch, Ack, call
  <1>6. CASE Open \/ AppendBegin \/ AppendLine \/ AppendSkip \/ AppendReturn
               \/ AppendError \/ Crash
    BY <1>4, <1>6 DEF Open, AppendBegin, AppendLine, AppendSkip, AppendReturn,
                      AppendError, Crash
  <1>7. CASE NextBatchError \/ AckError
    BY <1>4, <1>7, HandlerErrors DEF call
  <1> QED
    BY <1>2, <1>3, <1>4, <1>5, <1>6, <1>7 DEF Next, AckMiss, NextBatchEmpty

\* Returning changes no file.
LEMMA ReturnKeepsTotal ==
    ASSUME AppendReturn
    PROVE  SpoolBytes' = SpoolBytes /\ Uncounted' = Uncounted
  <1>1. closed' = closed /\ current' = current /\ errors' = errors
    BY DEF AppendReturn, dir, faults
  <1>2. ClosedBytes' = ClosedBytes
    BY <1>1 DEF ClosedBytes
  <1> QED
    BY <1>1, <1>2 DEF SpoolBytes, Uncounted

\* An append that returns Ok leaves no more than max_bytes behind, and what
\* failed appends left torn in the open segment: this is where "the validator
\* guarantees" that a segment is at most half the cap.
THEOREM CapEnforced == Spec => AppendEnforcesCap
  <1>1. TypeOK /\ SpoolInv /\ OpenIsSmall /\ [Next]_vars
        => [pc = "cap" /\ pc' = "idle" /\ errors' = errors
              => SpoolBytes' <= max_bytes + Uncounted']_vars
    <2>1. SUFFICES ASSUME TypeOK, SpoolInv, OpenIsSmall, [Next]_vars,
                          pc = "cap", pc' = "idle", errors' = errors
                   PROVE  SpoolBytes' <= max_bytes + Uncounted'
      OBVIOUS
    <2>2. AppendReturn
      <3>1. ~AppendError
        BY <2>1 DEF AppendError, TypeOK, FaultType
      <3> QED
        BY <2>1, <3>1 DEF Next, vars, call, Open, AppendBegin, AppendLine, AppendSkip,
              AppendRotate, EvictOldest, Crash, NextBatch, NextBatchEmpty, NextBatchError,
              Ack, AckMiss, AckError
    <2>3. TotalBytes <= max_bytes
      <3>1. CASE DOMAIN closed = {}
        BY <2>1, <3>1, EmptyDirectory, SpoolAssumption
           DEF TotalBytes, OpenIsSmall, TypeOK, InnerType
      <3>2. CASE ~(DOMAIN closed = {})
        BY <2>2, <3>2 DEF AppendReturn
      <3> QED
        BY <3>1, <3>2
    <2>4. current.bytes <= current_len + Uncounted
      BY <2>1 DEF SpoolInv, CountsTheFile
    <2>5. /\ current.bytes \in Nat /\ current_len \in Nat /\ Uncounted \in Nat
          /\ max_bytes \in Nat
      BY <2>1, FileParts, SpoolAssumption DEF Uncounted, TypeOK, DirType, InnerType
    <2>6. ClosedBytes \in Nat
      BY <2>1, ClosedBytesType DEF SpoolInv
    <2>7. SpoolBytes <= max_bytes + Uncounted
      BY <2>3, <2>4, <2>5, <2>6 DEF TotalBytes, SpoolBytes
    <2> QED
      BY <2>2, <2>7, ReturnKeepsTotal
  <1>2. Init => OpenIsSmall
    BY DEF Init, OpenIsSmall
  <1>3. Spec => []OpenIsSmall
    BY <1>2, TypeCorrect, OpenIsSmallStep, PTL DEF Spec
  <1> QED
    BY <1>1, <1>3, Inductive, PTL DEF Spec, AppendEnforcesCap

\* A single closed segment holds all the bytes there are in closed ones.
LEMMA OneSegment ==
    ASSUME NEW s, DOMAIN closed = {s}, closed[s].bytes \in Nat
    PROVE  ClosedBytes = closed[s].bytes
  <1>1. BytesIn(closed) = {s} \X (1..closed[s].bytes)
    BY DEF BytesIn
  <1>2. IsFiniteSet({s}) /\ Cardinality({s}) = 1
    BY FS_Singleton
  <1>3. IsFiniteSet(1..closed[s].bytes) /\ Cardinality(1..closed[s].bytes) = closed[s].bytes
    <2>1. 1 \in Int /\ closed[s].bytes \in Int
      OBVIOUS
    <2>2. /\ IsFiniteSet(1..closed[s].bytes)
          /\ Cardinality(1..closed[s].bytes)
               = IF 1 > closed[s].bytes THEN 0 ELSE closed[s].bytes - 1 + 1
      BY ONLY <2>1, FS_Interval
    <2>3. (IF 1 > closed[s].bytes THEN 0 ELSE closed[s].bytes - 1 + 1) = closed[s].bytes
      OBVIOUS
    <2> QED
      BY <2>2, <2>3
  <1> DEFINE places == 1..closed[s].bytes
  <1>4. Cardinality({s} \X places) = 1 * closed[s].bytes
    <2>1. Cardinality({s} \X places) = Cardinality({s}) * Cardinality(places)
      <3> HIDE DEF places
      <3>1. IsFiniteSet({s}) /\ IsFiniteSet(places)
        BY <1>2, <1>3 DEF places
      <3> QED
        BY ONLY <3>1, FS_Product
    <2> QED
      BY <1>2, <1>3, <2>1
  <1> QED
    BY <1>1, <1>4 DEF ClosedBytes

\* The lines of the append that runs are in no closed segment before the
\* rotation, and after it in the newest one only, with nothing left open.
OwnLines ==
    /\ pc \notin {"write", "cap"} => written = {}
    /\ pc = "write" => \A s \in DOMAIN closed : Lines(closed[s]) \cap written = {}
    /\ pc = "cap" => \A s \in DOMAIN closed : Lines(closed[s]) \cap written # {}
                        => current_len = 0 /\ \A t \in DOMAIN closed : t <= s

\* Every step keeps append's own lines there.
LEMMA OwnLinesStep ==
    ASSUME TypeOK, SeqFresh, OrderInv, OwnLines, [Next]_vars
    PROVE  OwnLines'
  <1> USE DEF OwnLines
  <1>1. CASE AppendLine
    <2>1. closed' = closed /\ pc = "write" /\ pc' = "write"
          /\ written' = written \cup {Head(todo).line}
      BY <1>1 DEF AppendLine
    <2>2. ASSUME NEW s \in DOMAIN closed
          PROVE  Head(todo).line \notin Lines(closed[s])
      <3>1. 1 \in DOMAIN todo /\ Head(todo) = todo[1] /\ todo[1].line \in Nat
        BY <1>1, TodoParts DEF AppendLine, TypeOK, CallType
      <3>2. \A x \in Touched(closed[s]) : x < todo[1].line
        BY <3>1 DEF OrderInv, HandedBefore, OlderThanTodo
      <3>3. Lines(closed[s]) \subseteq Touched(closed[s])
        BY DEF Lines, Touched
      <3> QED
        BY <3>1, <3>2, <3>3
    <2> QED
      BY <2>1, <2>2
  <1>2. CASE AppendRotate
    <2>1. pc = "write" /\ pc' = "cap" /\ written' = written
      BY <1>2 DEF AppendRotate
    <2>2. CASE Rotate
      <3>1. \A t \in DOMAIN closed : t < next_seq
        BY <2>1 DEF SeqFresh
      <3>2. next_seq \in Nat /\ DOMAIN closed \subseteq Nat
        BY DEF TypeOK, InnerType, DirType
      <3>3. /\ DOMAIN closed' = DOMAIN closed \cup {next_seq}
            /\ \A t \in DOMAIN closed : closed'[t] = closed[t]
            /\ current_len' = 0
        BY <2>2, <3>1, <3>2 DEF Rotate
      <3>4. \A t \in DOMAIN closed' : t <= next_seq
        BY <3>1, <3>2, <3>3
      <3> QED
        BY <2>1, <3>3, <3>4
    <2>3. CASE UNCHANGED <<dir, inner>>
      BY <2>1, <2>3 DEF dir
    <2> QED
      BY <1>2, <2>2, <2>3 DEF AppendRotate
  <1>3. CASE EvictOldest
    <2>1. pc = "cap" /\ pc' = "cap" /\ written' = written /\ current_len' = current_len
      BY <1>3 DEF EvictOldest, call
    <2>2. PICK s \in DOMAIN closed : closed' = Restrict(closed, DOMAIN closed \ {s})
      BY <1>3 DEF EvictOldest
    <2>3. /\ DOMAIN closed' \subseteq DOMAIN closed
          /\ \A t \in DOMAIN closed' : closed'[t] = closed[t]
      BY <2>2 DEF Restrict
    <2> QED
      BY <2>1, <2>3
  <1>4. CASE AppendBegin \/ AppendReturn \/ AppendError \/ Crash
    BY <1>4 DEF AppendBegin, AppendReturn, AppendError, Crash
  <1>5. CASE Open \/ AppendSkip \/ UNCHANGED vars
    BY <1>5 DEF Open, AppendSkip, vars, dir, inner, call
  <1>6. ASSUME NEW s \in 1..next_seq, NextBatch(s) \/ Ack(s)
        PROVE  pc' = "idle" /\ written' = {}
    BY <1>6 DEF NextBatch, Ack, call
  <1>7. CASE NextBatchError \/ AckError
    <2>1. pc = "idle" /\ pc' = "idle" /\ written' = {}
      BY <1>7, HandlerErrors DEF call
    <2> QED
      BY <2>1
  <1> QED
    BY <1>1, <1>2, <1>3, <1>4, <1>5, <1>6, <1>7 DEF Next, AckMiss, NextBatchEmpty

\* enforce_cap() works from the oldest segment on, so that it is the last one
\* it comes to that holds the caller's lines: it stays unless it alone is
\* over the cap.
THEOREM OwnLinesStay == Spec => OwnLinesKept
  <1>1. TypeOK /\ OwnLines /\ [Next]_vars
        => [\A s \in DOMAIN closed \ DOMAIN closed' :
               Lines(closed[s]) \cap written # {} => closed[s].bytes > max_bytes]_vars
    <2>1. SUFFICES ASSUME TypeOK, OwnLines, [Next]_vars,
                          NEW s \in DOMAIN closed \ DOMAIN closed',
                          Lines(closed[s]) \cap written # {}
                   PROVE  closed[s].bytes > max_bytes
      OBVIOUS
    <2>2. pc \in {"write", "cap"}
      BY <2>1 DEF OwnLines
    <2>3. closed' # closed /\ ~(DOMAIN closed \subseteq DOMAIN closed')
      BY <2>1
    <2>4. EvictOldest
      BY <2>1, <2>2, <2>3
         DEF Next, vars, dir, Open, AppendBegin, AppendLine, AppendSkip, AppendRotate,
             Rotate, AppendReturn, AppendError, Crash, NextBatch, NextBatchEmpty,
             NextBatchError, Ack, AckMiss, AckError
    <2>5. Oldest(s) /\ TotalBytes > max_bytes /\ pc = "cap"
      <3>1. PICK r \in DOMAIN closed :
                Oldest(r) /\ closed' = Restrict(closed, DOMAIN closed \ {r})
        BY <2>4 DEF EvictOldest
      <3>2. s = r
        BY <2>1, <3>1 DEF Restrict
      <3> QED
        BY <2>4, <3>1, <3>2 DEF EvictOldest
    <2>6. DOMAIN closed \subseteq Nat /\ closed[s].bytes \in Nat
      <3>1. closed[s] \in File
        BY <2>1 DEF TypeOK, DirType
      <3> QED
        BY <3>1, FileParts DEF TypeOK, DirType
    <2>7. current_len = 0 /\ DOMAIN closed = {s}
      <3>1. current_len = 0 /\ \A t \in DOMAIN closed : t <= s
        BY <2>1, <2>5 DEF OwnLines
      <3>2. \A t \in DOMAIN closed : s <= t
        BY <2>5 DEF Oldest
      <3>3. \A t \in DOMAIN closed : t = s
        BY <2>1, <2>6, <3>1, <3>2
      <3> QED
        BY <2>1, <3>1, <3>3
    <2>8. ClosedBytes = closed[s].bytes
      BY <2>6, <2>7, OneSegment
    <2> QED
      BY <2>5, <2>6, <2>7, <2>8 DEF TotalBytes
  <1>2. Init => OwnLines
    BY DEF Init, OwnLines
  <1>3. TypeOK /\ SpoolInv /\ OwnLines /\ [Next]_vars => OwnLines'
    BY OwnLinesStep DEF SpoolInv
  <1>4. Spec => []OwnLines
    BY <1>2, <1>3, Inductive, PTL DEF Spec
  <1> QED
    BY <1>1, <1>4, TypeCorrect, PTL DEF Spec, OwnLinesKept

\* Crashes, torn tails and reopening included, current_len is the length of
\* the open segment as long as no write failed, and short of it by torn
\* pieces alone when one did.
THEOREM LengthExact == Spec => []CountsTheFile
  <1>1. SpoolInv => CountsTheFile
    BY DEF SpoolInv
  <1> QED
    BY <1>1, Inductive, PTL

-----------------------------------------------------------------------------
(* The spool under the handlers.                                           *)

\* A request that is answered with an error.
ErrorAnswer == ReadingsNextError \/ \E s \in acks : ReadingsAckError(s)

\* To the consumer that is no answer, to the spool one of its own errors.
LEMMA ErrorAnswers ==
    ASSUME ErrorAnswer
    PROVE  /\ NextBatchError \/ AckError
           /\ pc = "idle" /\ pc' = "idle"
           /\ UNCHANGED <<consumer, losses>>
           /\ acks' \subseteq acks /\ gets' \in {gets, FALSE}
  BY DEF ErrorAnswer, ReadingsNextError, ReadingsAckError, NextBatchError, AckError, call

\* To the spool, every step is a step of its own or none.
LEMMA SpoolMoves ==
    ASSUME SpoolInv, [DNext]_dvars
    PROVE  [Next]_vars
  <1> USE DEF SpoolInv
  <1>1. ASSUME NEW s \in 1..next_seq, ReadingsNext(s)
        PROVE  [Next]_vars
    BY <1>1 DEF ReadingsNext, Next
  <1>2. ASSUME NEW s \in acks, ReadingsAck(s)
        PROVE  [Next]_vars
    <2>1. CASE AckMiss(s)
      BY <2>1 DEF AckMiss
    <2>2. CASE Ack(s)
      <3>1. s \in DOMAIN closed /\ pc # "down"
        BY <2>2 DEF Ack
      <3>2. s \in 1..next_seq
        BY <3>1 DEF TypeOK, DirType, InnerType, SeqFresh
      <3> QED
        BY <2>2, <3>2 DEF Next
    <2> QED
      BY <1>2, <2>1, <2>2 DEF ReadingsAck
  <1>3. CASE PullerGet \/ PullerStore \/ PullerStoreFails \/ PullerGiveUp \/ PullerRetryAck
    BY <1>3 DEF PullerGet, PullerStore, PullerStoreFails, PullerGiveUp, PullerRetryAck
  <1>4. CASE ReadingsNextEmpty
    BY <1>4 DEF ReadingsNextEmpty, NextBatchEmpty
  <1>5. CASE CollectorCrash \/ Restart \/ Produce \/ AppendStep \/ AppendFails
    BY <1>5 DEF CollectorCrash, Restart, Produce, AppendStep, AppendFails, Next
  <1>6. CASE UNCHANGED dvars
    BY <1>6 DEF dvars
  <1>7. CASE ErrorAnswer
    BY <1>7, ErrorAnswers DEF Next
  <1> QED
    BY <1>1, <1>2, <1>3, <1>4, <1>5, <1>6, <1>7 DEF DNext, ErrorAnswer

\* So the spool keeps its invariant under the handlers.
LEMMA SpoolStep ==
    ASSUME SpoolInv, [DNext]_dvars
    PROVE  SpoolInv'
  BY SpoolMoves, TypeStep, FreshStep, OrderStep, EvictedStep, ServedStep, DurableStep, CountStep
     DEF SpoolInv

\* A segment that was not there before has the number a rotation takes.
LEMMA NewSegment ==
    ASSUME SpoolInv, [Next]_vars, NEW s \in DOMAIN closed', s \notin DOMAIN closed
    PROVE  s = next_seq /\ pc # "down"
  <1>1. CASE KeepsFiles
    BY <1>1 DEF KeepsFiles, dir
  <1>2. CASE \E w \in BOOLEAN : WritesLine(w)
    BY <1>2 DEF WritesLine
  <1>3. CASE \E t : Unlinks(t)
    BY <1>3 DEF Unlinks, Restrict
  <1>4. CASE Rotates
    BY <1>4 DEF Rotates, Rotate
  <1> QED
    BY <1>1, <1>2, <1>3, <1>4, StepCases DEF SpoolInv

\* Numbers only grow while the process lives.
LEMMA SeqGrows ==
    ASSUME SpoolInv, [Next]_vars, pc # "down"
    PROVE  next_seq \in Nat /\ next_seq' \in Nat /\ next_seq <= next_seq'
  <1>1. next_seq \in Nat
    BY DEF SpoolInv, TypeOK, InnerType
  <1>2. next_seq' \in {next_seq, next_seq + 1}
    BY DEF Next, vars, inner, Rotate, Open, AppendBegin, AppendLine, AppendSkip, AppendRotate,
           EvictOldest, AppendReturn, AppendError, Crash, NextBatch, NextBatchEmpty,
           NextBatchError, Ack, AckMiss, AckError
  <1> QED
    BY <1>1, <1>2

\* A number that is the oldest, or gone, stays so.
LEMMA OldestStays ==
    ASSUME SpoolInv, [Next]_vars, NEW s \in Nat,
           \A t \in DOMAIN closed : s <= t,
           pc # "down" => s < next_seq,
           pc = "down" /\ pc' # "down" => s < next_seq'
    PROVE  /\ \A t \in DOMAIN closed' : s <= t
           /\ pc' # "down" => s < next_seq'
  <1>1. \A t \in DOMAIN closed' : s <= t
    <2> TAKE t \in DOMAIN closed'
    <2>1. CASE t \in DOMAIN closed
      BY <2>1
    <2>2. CASE t \notin DOMAIN closed
      <3>1. t = next_seq /\ s < next_seq
        BY <2>2, NewSegment
      <3> QED
        BY <3>1 DEF SpoolInv, TypeOK, InnerType
    <2> QED
      BY <2>1, <2>2
  <1>2. pc' # "down" => s < next_seq'
    BY SeqGrows
  <1> QED
    BY <1>1, <1>2

\* A segment with a number that was there already is the same segment.
LEMMA SameSegment ==
    ASSUME SpoolInv, [Next]_vars, NEW s \in DOMAIN closed', s < next_seq \/ pc = "down"
    PROVE  s \in DOMAIN closed /\ closed'[s] = closed[s]
  <1>1. s \in DOMAIN closed
    BY NewSegment DEF SpoolInv, TypeOK, InnerType
  <1> QED
    BY <1>1, ImmutableStep DEF SpoolInv

-----------------------------------------------------------------------------
(* The steps of delivery.                                                  *)

\* A lost answer is counted, and the consumer does not notice.
LEMMA LossCounted ==
    ASSUME DTypeOK, AnswerLost \/ UNCHANGED <<consumer, losses>>
    PROVE  /\ losses' \in 0..MaxLosses
           /\ puller' = puller /\ held' = held /\ consumed' = consumed
  BY DeliveryAssumption DEF DTypeOK, AnswerLost, consumer

\* Every step keeps the types.
LEMMA DTypeStep ==
    ASSUME SpoolInv, DTypeOK, HeldIsOldest, [DNext]_dvars
    PROVE  DTypeOK'
  <1> USE DEF DTypeOK, Listening
  <1>1. NoBatch \in [id : Nat, lines : SUBSET Nat] /\ NoBatch.id = 0
    BY DEF NoBatch
  <1>2. CASE PullerGet
    BY <1>2 DEF PullerGet, vars, call
  <1>3. CASE PullerStore
    BY <1>3 DEF PullerStore, vars, call
  <1>4. CASE PullerStoreFails
    BY <1>1, <1>4, DeliveryAssumption DEF PullerStoreFails, vars, call, net
  <1>5. CASE PullerGiveUp
    BY <1>1, <1>5, DeliveryAssumption DEF PullerGiveUp, vars, call, net
  <1>6. CASE PullerRetryAck
    BY <1>6 DEF PullerRetryAck, vars, call, consumer
  <1>7. ASSUME NEW s \in 1..next_seq, ReadingsNext(s)
        PROVE  DTypeOK'
    <2>1. pc = "idle" /\ pc' = "idle"
      BY <1>7 DEF ReadingsNext, NextBatch, call
    <2>2. UNCHANGED acks /\ gets' = FALSE
      BY <1>7 DEF ReadingsNext
    <2>3. CASE /\ puller = "asking" /\ puller' = "holding"
               /\ held' = [id |-> s, lines |-> Lines(closed'[s])]
               /\ UNCHANGED <<consumed, losses>>
      <3>1. s \in Nat /\ s # 0
        BY DEF SpoolInv, TypeOK, InnerType
      <3>2. s \in DOMAIN closed' /\ closed'[s] \in File
        <4>1. TypeOK'
          BY SpoolStep, <1>7 DEF DNext, SpoolInv
        <4>2. s \in DOMAIN closed'
          BY <1>7 DEF ReadingsNext, NextBatch, Rotate, Oldest, dir
        <4> QED
          BY <4>1, <4>2 DEF TypeOK, DirType
      <3>3. Lines(closed'[s]) \subseteq Nat
        BY <3>2, LinesType
      <3> QED
        BY <2>1, <2>2, <2>3, <3>1, <3>3
    <2>4. CASE UNCHANGED <<consumer, losses>> \/ AnswerLost
      BY <2>1, <2>2, <2>4, LossCounted
    <2> QED
      BY <1>7, <2>3, <2>4 DEF ReadingsNext
  <1>8. CASE ReadingsNextEmpty
    <2>1. pc' = pc /\ pc = "idle" /\ UNCHANGED acks /\ gets' = FALSE
      BY <1>8 DEF ReadingsNextEmpty, NextBatchEmpty, vars, call
    <2>2. CASE puller = "asking" /\ puller' = "idle" /\ UNCHANGED <<held, consumed, losses>>
      BY <2>1, <2>2
    <2>3. CASE UNCHANGED <<consumer, losses>> \/ AnswerLost
      BY <2>1, <2>3, LossCounted
    <2> QED
      BY <1>8, <2>2, <2>3 DEF ReadingsNextEmpty
  <1>9. ASSUME NEW s \in acks, ReadingsAck(s)
        PROVE  DTypeOK'
    <2>1. pc = "idle" /\ pc' = "idle"
      BY <1>9 DEF ReadingsAck, Ack, AckMiss, call, vars
    <2>2. acks' \subseteq Nat /\ UNCHANGED gets
      BY <1>9 DEF ReadingsAck
    <2>3. CASE puller' = "idle" /\ held' = NoBatch /\ UNCHANGED <<consumed, losses>>
      BY <1>1, <2>1, <2>2, <2>3
    <2>4. CASE UNCHANGED <<consumer, losses>> \/ AnswerLost
      BY <2>1, <2>2, <2>4, LossCounted
    <2> QED
      BY <1>9, <2>3, <2>4 DEF ReadingsAck
  <1>10. CASE CollectorCrash
    BY <1>10 DEF CollectorCrash, Crash, consumer
  <1>11. CASE Restart \/ Produce \/ AppendStep \/ AppendFails
    BY <1>11 DEF Restart, Open, Produce, AppendBegin, AppendStep, AppendLine, AppendSkip, AppendRotate,
                 EvictOldest, AppendReturn, AppendFails, AppendError, call, net, consumer
  <1>12. CASE UNCHANGED dvars
    BY <1>12 DEF dvars, vars, call, net, consumer
  <1>13. CASE ErrorAnswer
    BY <1>13, ErrorAnswers DEF consumer
  <1> QED
    BY <1>2, <1>3, <1>4, <1>5, <1>6, <1>7, <1>8, <1>9, <1>10, <1>11, <1>12, <1>13
       DEF DNext, ErrorAnswer

\* A batch is the oldest segment when it is handed out, and stays that.
LEMMA OldestStep ==
    ASSUME QuickRestart = FALSE, SpoolInv, DTypeOK, HeldIsOldest, [DNext]_dvars
    PROVE  HeldIsOldest'
  <1> DEFINE Known(s) == (\A t \in DOMAIN closed : s <= t) /\ (pc # "down" => s < next_seq)
  <1>1. ASSUME NEW s \in Nat, Known(s), ~Restart \/ s = held.id \/ s = 0
        PROVE  Known(s)'
    <2>1. CASE pc = "down" /\ pc' # "down"
      <3>1. Restart
        BY <2>1 DEF DNext, dvars, vars, call, PullerGet, PullerStore, PullerStoreFails, PullerGiveUp,
                    PullerRetryAck, ReadingsNext, NextBatch, ReadingsNextEmpty, NextBatchEmpty,
                    ReadingsNextError, NextBatchError, ReadingsAckError, AckError,
                    ReadingsAck, Ack, AckMiss, CollectorCrash, Crash, Produce, AppendBegin,
                    AppendStep, AppendLine, AppendSkip, AppendRotate, EvictOldest, AppendReturn,
                    AppendFails, AppendError
      <3>2. held.id < next_seq'
        BY <3>1 DEF Restart
      <3>3. next_seq' \in Nat \ {0}
        BY SpoolStep DEF SpoolInv, TypeOK, InnerType
      <3>4. s < next_seq'
        BY <1>1, <3>1, <3>2, <3>3
      <3> QED
        BY <1>1, <3>4, OldestStays, SpoolMoves
    <2>2. CASE ~(pc = "down" /\ pc' # "down")
      BY <1>1, <2>2, OldestStays, SpoolMoves
    <2> QED
      BY <2>1, <2>2
  <1>2. \A s \in acks \cup {held.id} : s \in Nat /\ Known(s)
    BY DEF HeldIsOldest, DTypeOK, Listening
  <1>3. Known(0)
    BY DEF SpoolInv, TypeOK, DirType, InnerType
  <1> SUFFICES \A s \in acks' \cup {held'.id} : Known(s)'
    BY DEF HeldIsOldest, Listening
  <1> HIDE DEF Known
  <1>4. NoBatch.id = 0
    BY DEF NoBatch
  <1>5. CASE acks' \cup {held'.id} \subseteq acks \cup {held.id, 0} /\ ~Restart
    BY <1>1, <1>2, <1>3, <1>5
  <1>6. CASE Restart
    <2>1. acks = {} /\ acks' = {} /\ held' = held
      BY <1>6 DEF Restart, Open, DTypeOK, Listening, net, consumer
    <2> QED
      BY <1>1, <1>2, <2>1
  <1>7. ASSUME NEW s \in 1..next_seq, ReadingsNext(s), held' = [id |-> s, lines |-> Lines(closed'[s])]
        PROVE  \A r \in acks' \cup {held'.id} : Known(r)'
    <2>1. acks' = acks /\ held'.id = s /\ ~Restart /\ pc = "idle"
      BY <1>7 DEF ReadingsNext, NextBatch, Restart, Open
    <2>2. SpoolInv'
      BY SpoolStep
    <2>3. s \in DOMAIN closed' /\ \A t \in DOMAIN closed' : s <= t
      <3>1. next_seq \in Nat /\ DOMAIN closed \subseteq Nat
        BY DEF SpoolInv, TypeOK, DirType, InnerType
      <3> QED
        BY <1>7, <3>1 DEF ReadingsNext, NextBatch, Rotate, Oldest, dir
    <2>4. pc' # "down" => s < next_seq'
      BY <2>2, <2>3 DEF SpoolInv, SeqFresh
    <2>5. Known(s)'
      BY <2>3, <2>4 DEF Known
    <2> QED
      BY <1>1, <1>2, <2>1, <2>5
  <1>8. CASE \/ PullerGet \/ PullerStore \/ PullerStoreFails \/ PullerGiveUp \/ PullerRetryAck
             \/ ReadingsNextEmpty \/ CollectorCrash \/ Produce \/ AppendStep \/ AppendFails
    <2>1. acks' \cup {held'.id} \subseteq acks \cup {held.id, 0}
      BY <1>4, <1>8 DEF PullerGet, PullerStore, PullerStoreFails, PullerGiveUp, PullerRetryAck,
                        ReadingsNextEmpty, AnswerLost, CollectorCrash, Produce, AppendStep, AppendFails,
                        net, consumer
    <2>2. CASE Restart
      BY <1>6, <2>2
    <2> QED
      BY <1>5, <1>6, <2>1
  <1>9. ASSUME NEW s \in acks, ReadingsAck(s)
        PROVE  \A r \in acks' \cup {held'.id} : Known(r)'
    <2>1. acks' \cup {held'.id} \subseteq acks \cup {held.id, 0}
      BY <1>4, <1>9 DEF ReadingsAck, AnswerLost, consumer
    <2> QED
      BY <1>5, <1>6, <2>1
  <1>10. ASSUME NEW s \in 1..next_seq, ReadingsNext(s), held' = held
         PROVE  \A r \in acks' \cup {held'.id} : Known(r)'
    <2>1. acks' \cup {held'.id} \subseteq acks \cup {held.id, 0}
      BY <1>10 DEF ReadingsNext
    <2> QED
      BY <1>5, <1>6, <2>1
  <1>11. CASE UNCHANGED dvars
    BY <1>5, <1>6, <1>11 DEF dvars, net, consumer
  <1>12. ASSUME NEW s \in 1..next_seq, ReadingsNext(s)
         PROVE  held' = held \/ held' = [id |-> s, lines |-> Lines(closed'[s])]
    BY <1>12 DEF ReadingsNext, AnswerLost, consumer
  <1>13. CASE ErrorAnswer
    <2>1. acks' \cup {held'.id} \subseteq acks \cup {held.id, 0}
      BY <1>13, ErrorAnswers DEF consumer
    <2> QED
      BY <1>5, <1>6, <2>1
  <1> QED
    BY <1>6, <1>7, <1>8, <1>9, <1>10, <1>11, <1>12, <1>13 DEF DNext, ErrorAnswer

\* What the consumer has in hand is what was handed out: segments do not
\* change, and numbers do not return.
LEMMA StoredStep ==
    ASSUME QuickRestart = FALSE, SpoolInv, DTypeOK, HeldIsOldest, HeldIsStored, [DNext]_dvars
    PROVE  HeldIsStored'
  <1>1. [Next]_vars /\ SpoolInv'
    BY SpoolMoves, SpoolStep
  <1>2. served \subseteq served'
    BY <1>1 DEF Next, vars, history, Open, AppendBegin, AppendLine, AppendSkip, AppendRotate,
                EvictOldest, AppendReturn, AppendError, Crash, NextBatch, NextBatchEmpty,
                NextBatchError, Ack, AckMiss, AckError
  <1>3. consumed \subseteq consumed'
    BY DEF DNext, dvars, consumer, PullerGet, PullerStore, PullerStoreFails, PullerGiveUp,
           PullerRetryAck, ReadingsNext, ReadingsNextEmpty, ReadingsAck, CollectorCrash, Restart,
           ReadingsNextError, ReadingsAckError, Produce, AppendStep, AppendFails, AnswerLost
  \* A number the consumer knows names what it named before.
  <1>4. ASSUME NEW s \in acks \cup {held.id}, s \in DOMAIN closed'
        PROVE  s \in DOMAIN closed /\ closed'[s] = closed[s]
    BY <1>1, <1>4, SameSegment DEF HeldIsOldest, Listening
  <1>5. \A s \in acks \cap DOMAIN closed' : Lines(closed'[s]) \subseteq consumed'
    BY <1>3, <1>4 DEF HeldIsStored
  <1>6. held.id \in DOMAIN closed' => Lines(closed'[held.id]) \subseteq held.lines
    BY <1>4 DEF HeldIsStored
  <1>7. NoBatch.id = 0 /\ NoBatch.lines = {} /\ 0 \notin DOMAIN closed'
    BY <1>1 DEF NoBatch, SpoolInv, TypeOK, DirType
  \* Nothing new in hand, and nothing new acknowledged.
  <1>8. CASE /\ held' \in {held, NoBatch} /\ acks' \subseteq acks
             /\ puller' = "acking" => puller = "acking" /\ held' = held
    <2>1. \A s \in acks' \cap DOMAIN closed' : Lines(closed'[s]) \subseteq consumed'
      BY <1>5, <1>8
    <2>2. held'.lines \subseteq served'
      BY <1>2, <1>7, <1>8 DEF HeldIsStored
    <2>3. held'.id \in DOMAIN closed' => Lines(closed'[held'.id]) \subseteq held'.lines
      BY <1>6, <1>7, <1>8
    <2>4. puller' = "acking" => held'.lines \subseteq consumed'
      BY <1>3, <1>8 DEF HeldIsStored
    <2> QED
      BY <2>1, <2>2, <2>3, <2>4 DEF HeldIsStored
  <1>9. CASE PullerStore \/ PullerRetryAck
    <2>1. /\ held' = held /\ acks' \subseteq acks \cup {held.id}
          /\ held.lines \subseteq consumed'
      BY <1>9 DEF PullerStore, PullerRetryAck, consumer, HeldIsStored
    <2>2. \A s \in acks' \cap DOMAIN closed' : Lines(closed'[s]) \subseteq consumed'
      BY <1>5, <1>6, <2>1
    <2> QED
      BY <1>2, <1>6, <2>1, <2>2 DEF HeldIsStored
  <1>10. ASSUME NEW s \in 1..next_seq, ReadingsNext(s),
                puller' = "holding", held' = [id |-> s, lines |-> Lines(closed'[s])]
         PROVE  HeldIsStored'
    <2>1. /\ acks' = acks /\ held'.id = s /\ held'.lines = Lines(closed'[s])
          /\ Lines(closed'[s]) \subseteq served'
      BY <1>10 DEF ReadingsNext, NextBatch
    <2> QED
      BY <1>5, <1>10, <2>1 DEF HeldIsStored
  <1>11. ASSUME NEW s \in 1..next_seq, ReadingsNext(s)
         PROVE  \/ puller' = "holding" /\ held' = [id |-> s, lines |-> Lines(closed'[s])]
                \/ held' = held /\ puller' = puller /\ acks' = acks
    BY <1>11 DEF ReadingsNext, AnswerLost, consumer
  <1>12. CASE \/ PullerGet \/ PullerStoreFails \/ PullerGiveUp \/ ReadingsNextEmpty
              \/ CollectorCrash \/ Restart \/ Produce \/ AppendStep \/ AppendFails
    <2>1. /\ held' \in {held, NoBatch} /\ acks' \subseteq acks
          /\ puller' = "acking" => puller = "acking" /\ held' = held
      BY <1>12 DEF PullerGet, PullerStoreFails, PullerGiveUp, ReadingsNextEmpty, AnswerLost,
                   CollectorCrash, Restart, Produce, AppendStep, AppendFails, net, consumer
    <2> QED
      BY <1>8, <2>1
  <1>13. ASSUME NEW s \in acks, ReadingsAck(s)
         PROVE  HeldIsStored'
    <2>1. /\ held' \in {held, NoBatch} /\ acks' \subseteq acks
          /\ puller' = "acking" => puller = "acking" /\ held' = held
      BY <1>13 DEF ReadingsAck, AnswerLost, consumer
    <2> QED
      BY <1>8, <2>1
  <1>14. CASE UNCHANGED dvars
    BY <1>8, <1>14 DEF dvars, net, consumer
  <1>15. CASE ErrorAnswer
    BY <1>8, <1>15, ErrorAnswers DEF consumer
  <1> QED
    BY <1>8, <1>9, <1>10, <1>11, <1>12, <1>13, <1>14, <1>15 DEF DNext, ErrorAnswer

\* Only what the consumer has stored is unlinked for it.
LEMMA AckedStep ==
    ASSUME SpoolInv, HeldIsStored, AckedWereConsumed, [DNext]_dvars
    PROVE  AckedWereConsumed'
  <1> USE DEF AckedWereConsumed
  <1>1. consumed \subseteq consumed'
    BY DEF DNext, dvars, consumer, PullerGet, PullerStore, PullerStoreFails, PullerGiveUp,
           PullerRetryAck, ReadingsNext, ReadingsNextEmpty, ReadingsAck, CollectorCrash, Restart,
           ReadingsNextError, ReadingsAckError, Produce, AppendStep, AppendFails, AnswerLost
  <1>2. ASSUME NEW s \in acks, ReadingsAck(s)
        PROVE  acked' \subseteq consumed'
    <2>1. CASE AckMiss(s)
      BY <1>1, <2>1 DEF AckMiss, vars, history
    <2>2. CASE Ack(s)
      <3>1. acked' = acked \cup Lines(closed[s]) /\ s \in acks \cap DOMAIN closed
        BY <2>2 DEF Ack
      <3>2. Lines(closed[s]) \subseteq consumed
        BY <3>1 DEF HeldIsStored
      <3> QED
        BY <1>1, <3>1, <3>2
    <2> QED
      BY <1>2, <2>1, <2>2 DEF ReadingsAck
  <1>3. CASE ~\E s \in acks : ReadingsAck(s)
    <2>1. acked' = acked
      BY <1>3 DEF DNext, dvars, vars, history, PullerGet, PullerStore, PullerStoreFails, PullerGiveUp,
                  PullerRetryAck, ReadingsNext, NextBatch, ReadingsNextEmpty, NextBatchEmpty,
                  ReadingsNextError, NextBatchError, ReadingsAckError, AckError, CollectorCrash, Crash, Restart, Open, Produce, AppendBegin, AppendStep,
                  AppendLine, AppendSkip, AppendRotate, EvictOldest, AppendReturn,
                  AppendFails, AppendError
    <2> QED
      BY <1>1, <2>1
  <1> QED
    BY <1>2, <1>3

\* Lines are numbered upwards, within the bound.
LEMMA NumberedStep ==
    ASSUME TypeOK, LinesNumbered, [Next]_vars
    PROVE  LinesNumbered'
  <1>1. issued \in Nat /\ MaxLines \in Nat
    BY SpoolAssumption DEF TypeOK, HistoryType
  <1>2. CASE AppendBegin
    <2>1. PICK n \in 1..MaxAppend : \E lens \in [1..n -> LineLens] :
             /\ issued + n <= MaxLines
             /\ todo' = [i \in 1..n |-> [line |-> issued + i, len |-> lens[i]]]
             /\ issued' = issued + n
      BY <1>2 DEF AppendBegin
    <2>2. \A k \in DOMAIN todo' : k \in 1..n /\ todo'[k].line = issued + k
      BY <2>1
    <2>3. \A k \in DOMAIN todo' : todo'[k].line >= 1
      BY <1>1, <2>2
    <2> QED
      BY <2>1, <2>3 DEF LinesNumbered
  <1>3. CASE ~AppendBegin
    <2>1. /\ issued' = issued
          /\ todo' \in {todo, <<>>} \/ (todo # <<>> /\ todo' = Tail(todo))
      BY <1>3 DEF Next, vars, call, history, Open, AppendLine, AppendSkip, AppendRotate,
                  EvictOldest, AppendReturn, AppendError, Crash, NextBatch,
                  NextBatchEmpty, NextBatchError, Ack, AckMiss, AckError
    <2>2. CASE todo # <<>> /\ todo' = Tail(todo)
      <3>1. \A k \in DOMAIN Tail(todo) : k + 1 \in DOMAIN todo /\ Tail(todo)[k] = todo[k + 1]
        BY <2>2 DEF TypeOK, CallType
      <3> QED
        BY <2>1, <2>2, <3>1 DEF LinesNumbered
    <2>3. CASE todo' \in {todo, <<>>}
      BY <2>1, <2>3 DEF LinesNumbered
    <2> QED
      BY <2>1, <2>2, <2>3
  <1> QED
    BY <1>2, <1>3

-----------------------------------------------------------------------------
(* The theorems.                                                           *)

\* At the start nothing was handed out.
LEMMA DInitInv == DInit => SpoolInv /\ DeliveryInv
  <1> SUFFICES ASSUME DInit
               PROVE  SpoolInv /\ DeliveryInv
    OBVIOUS
  <1>1. SpoolInv
    BY InitInv DEF DInit
  <1>2. DTypeOK
    <2>1. NoBatch \in [id : Nat, lines : SUBSET Nat] /\ NoBatch.id = 0
      BY DEF NoBatch
    <2>2. losses \in 0..MaxLosses
      BY DeliveryAssumption DEF DInit
    <2> QED
      BY <2>1, <2>2 DEF DInit, DTypeOK, Listening
  <1>3. AckedWereConsumed /\ HeldIsOldest /\ HeldIsStored
    BY DEF DInit, Init, AckedWereConsumed, HeldIsOldest, HeldIsStored, NoBatch, Listening
  <1>4. LinesNumbered
    BY SpoolAssumption DEF DInit, Init, LinesNumbered
  <1> QED
    BY <1>1, <1>2, <1>3, <1>4 DEF DeliveryInv

\* Every step keeps the invariants of spool and delivery.
LEMMA DStep ==
    ASSUME QuickRestart = FALSE, SpoolInv, DeliveryInv, [DNext]_dvars
    PROVE  SpoolInv' /\ DeliveryInv'
  <1> USE DEF DeliveryInv
  <1>1. SpoolInv'
    BY SpoolStep
  <1>2. DTypeOK' /\ AckedWereConsumed'
    BY DTypeStep, AckedStep
  <1>3. HeldIsOldest' /\ HeldIsStored'
    BY OldestStep, StoredStep
  <1>4. LinesNumbered'
    BY SpoolMoves, NumberedStep DEF SpoolInv
  <1> QED
    BY <1>1, <1>2, <1>3, <1>4

\* The handlers in api.rs only drive the spool as spool.rs allows, however soon
\* the collector comes back: each run with a consumer is a run of the spool, and
\* what is proved of the spool alone holds under the handlers.
THEOREM DeliveryImplementsSpool == DSpec => Spec
  <1>1. DInit => Init /\ SpoolInv
    BY DInitInv DEF DInit
  <1>2. SpoolInv /\ [DNext]_dvars => SpoolInv' /\ [Next]_vars
    BY SpoolMoves, SpoolStep
  <1> QED
    BY <1>1, <1>2, PTL DEF DSpec, Spec

\* At-least-once (GET /readings/next and POST /readings/ack in api.rs over
\* next_batch and ack in spool.rs): whatever is lost, repeated or late, ack()
\* only unlinks lines the consumer has stored.
THEOREM DeliverySafe ==
    ASSUME QuickRestart = FALSE
    PROVE  DSpec => [](SpoolInv /\ DeliveryInv)
  <1>1. SpoolInv /\ DeliveryInv /\ [DNext]_dvars => (SpoolInv /\ DeliveryInv)'
    BY DStep
  <1> QED
    BY <1>1, DInitInv, PTL DEF DSpec

-----------------------------------------------------------------------------
(* The stream.                                                             *)

\* What a file holds lies between what the older and the newer ones hold.
LEMMA OldestEnd ==
    ASSUME SpoolInv, NEW s \in DOMAIN closed, \A t \in DOMAIN closed : s <= t
    PROVE  \A x \in Lines(closed[s]) : \A y \in Stored \ Lines(closed[s]) : x < y
  <1> TAKE x \in Lines(closed[s])
  <1> TAKE y \in Stored \ Lines(closed[s])
  <1>1. closed[s] \in File /\ current \in File /\ \A t \in DOMAIN closed : closed[t] \in File /\ t \in Nat
    BY DEF SpoolInv, TypeOK, DirType
  <1>2. x \in Touched(closed[s])
    BY <1>1, TouchedType
  <1>3. CASE y \in Lines(current)
    <2>1. y \in Touched(current)
      BY <1>1, <1>3, TouchedType
    <2> QED
      BY <1>2, <2>1 DEF SpoolInv, OrderInv, InAppendOrder, Before
  <1>4. ASSUME NEW t \in DOMAIN closed, y \in Lines(closed[t])
        PROVE  x < y
    <2>1. y \in Touched(closed[t])
      BY <1>1, <1>4, TouchedType
    <2>2. s # t /\ s <= t
      BY <1>4
    <2>3. s < t
      BY <1>1, <2>2
    <2> QED
      BY <1>2, <2>1, <2>3 DEF SpoolInv, OrderInv, InAppendOrder, Before
  <1> QED
    BY <1>3, <1>4 DEF Stored

\* Unlinking the oldest segment takes exactly its lines out of the directory.
LEMMA UnlinkOldest ==
    ASSUME SpoolInv, NEW s \in DOMAIN closed, \A t \in DOMAIN closed : s <= t, Unlinks(s)
    PROVE  Stored' = Stored \ Lines(closed[s])
  <1>1. /\ DOMAIN closed' = DOMAIN closed \ {s} /\ current' = current
        /\ \A t \in DOMAIN closed' : closed'[t] = closed[t]
    BY DEF Unlinks, Restrict
  <1>2. closed[s] \in File /\ current \in File /\ \A t \in DOMAIN closed : closed[t] \in File /\ t \in Nat
    BY DEF SpoolInv, TypeOK, DirType
  \* No other file has a line of it.
  <1>3. Lines(current) \cap Lines(closed[s]) = {}
    <2>1. ASSUME NEW x \in Lines(current), x \in Lines(closed[s])
          PROVE  FALSE
      <3>1. x \in Touched(current) /\ x \in Touched(closed[s]) /\ x \in Nat
        BY <1>2, <2>1, TouchedType
      <3>2. x < x
        BY <3>1 DEF SpoolInv, OrderInv, InAppendOrder, Before
      <3> QED
        BY <3>1, <3>2
    <2> QED
      BY <2>1
  <1>4. ASSUME NEW t \in DOMAIN closed', NEW x \in Lines(closed[t]), x \in Lines(closed[s])
        PROVE  FALSE
    <2>1. t \in DOMAIN closed /\ s < t
      BY <1>1, <1>2
    <2>2. x \in Touched(closed[t]) /\ x \in Touched(closed[s]) /\ x \in Nat
      BY <1>2, <1>4, <2>1, TouchedType
    <2>3. x < x
      BY <2>1, <2>2 DEF SpoolInv, OrderInv, InAppendOrder, Before
    <2> QED
      BY <2>2, <2>3
  <1>5. Stored' \subseteq Stored \ Lines(closed[s])
    <2>1. ASSUME NEW x \in Stored'
          PROVE  x \in Stored \ Lines(closed[s])
      <3>1. CASE x \in Lines(current')
        BY <1>1, <1>3, <3>1 DEF Stored
      <3>2. ASSUME NEW t \in DOMAIN closed', x \in Lines(closed'[t])
            PROVE  x \in Stored \ Lines(closed[s])
        BY <1>1, <1>4, <3>2 DEF Stored
      <3> QED
        BY <2>1, <3>1, <3>2 DEF Stored
    <2> QED
      BY <2>1
  <1>6. Stored \subseteq Stored' \cup Lines(closed[s])
    BY StoredCases DEF SpoolInv
  <1> QED
    BY <1>5, <1>6

\* A line is newer than all that is stored or was served when it is written.
LEMMA WriteIsPut ==
    ASSUME SpoolInv, DeliveryInv, AppendLine, UNCHANGED consumed
    PROVE  Stream!Put
  <1> DEFINE x == Head(todo).line
  <1>1. todo \in Seq(Handed) /\ todo # <<>>
    BY DEF AppendLine, SpoolInv, TypeOK, CallType
  <1>2. Head(todo).len + 1 \in Nat /\ x = todo[1].line /\ x \in Nat /\ 1 \in DOMAIN todo
    BY <1>1, TodoParts
  <1>3. WritesLine(TRUE)
    BY <1>1, <1>2 DEF AppendLine, WritesLine
  <1>4. Stored' = Stored \cup {x}
    BY <1>3, StoredCases DEF SpoolInv
  <1>5. x \in 1..MaxLines
    <2>1. x <= issued /\ issued <= MaxLines /\ x >= 1
      BY <1>2 DEF SpoolInv, OrderInv, TodoOrdered, DeliveryInv, LinesNumbered
    <2> QED
      BY <1>2, <2>1, SpoolAssumption DEF SpoolInv, TypeOK, HistoryType
  <1>6. \A y \in Stored \cup served : y < x
    <2>1. \A y : OlderThanTodo(y) => y < x
      BY <1>2 DEF OlderThanTodo
    <2>2. \A y \in served : OlderThanTodo(y)
      BY DEF SpoolInv, ServedInv
    <2>3. \A y \in Lines(current) : OlderThanTodo(y)
      BY TouchedType DEF SpoolInv, TypeOK, DirType, OrderInv, HandedBefore
    <2>4. \A t \in DOMAIN closed : \A y \in Lines(closed[t]) : OlderThanTodo(y)
      BY TouchedType DEF SpoolInv, TypeOK, DirType, OrderInv, HandedBefore
    <2> QED
      BY <2>1, <2>2, <2>3, <2>4 DEF Stored
  <1>7. UNCHANGED <<served, evicted>>
    BY DEF AppendLine, history
  <1> HIDE DEF x
  <1> QED
    BY <1>4, <1>5, <1>6, <1>7 DEF Stream!Put

\* A batch is the old end of the stream.
LEMMA BatchIsOffer ==
    ASSUME SpoolInv, NEW s \in 1..next_seq, NextBatch(s), UNCHANGED consumed
    PROVE  Stream!Offer
  <1>1. served' = served \cup Lines(closed'[s]) /\ UNCHANGED evicted
    BY DEF NextBatch
  <1>2. CASE DOMAIN closed = {} /\ current_len > 0
    <2>1. s = next_seq /\ Rotates
      BY <1>2 DEF NextBatch, Rotates
    <2>2. Stored' = Stored
      BY <2>1, StoredCases DEF SpoolInv
    <2>3. closed'[s] = current
      BY <2>1 DEF Rotates, Rotate
    <2>4. Stored = Lines(current)
      BY <1>2 DEF Stored
    <2>5. \A x \in served : \A y \in Lines(current) : x < y
      BY TouchedType DEF SpoolInv, TypeOK, DirType, ServedInv, Older
    <2> QED
      BY <1>1, <2>2, <2>3, <2>4, <2>5 DEF Stream!Offer, Stream!OldEnd
  <1>3. CASE ~(DOMAIN closed = {} /\ current_len > 0)
    <2>1. Oldest(s) /\ UNCHANGED dir
      BY <1>3 DEF NextBatch
    <2>2. s \in DOMAIN closed /\ (\A t \in DOMAIN closed : s <= t) /\ closed'[s] = closed[s]
      BY <2>1 DEF Oldest, dir
    <2>3. Stored' = Stored
      BY <2>1, StoredCases DEF KeepsFiles, SpoolInv
    <2>4. Lines(closed[s]) \subseteq Stored
      BY <2>2 DEF Stored
    <2>5. \A x \in Lines(closed[s]) : \A y \in Stored \ Lines(closed[s]) : x < y
      BY <2>2, OldestEnd
    <2>6. \/ Lines(closed[s]) \subseteq served
          \/ \A x \in served : \A y \in Lines(closed[s]) : x < y
      BY <2>2, TouchedType DEF SpoolInv, TypeOK, DirType, ServedInv, Older
    <2> QED
      BY <1>1, <2>2, <2>3, <2>4, <2>5, <2>6 DEF Stream!Offer, Stream!OldEnd
  <1> QED
    BY <1>2, <1>3

\* What the cap takes is the old end of the stream.
LEMMA EvictionIsDiscard ==
    ASSUME SpoolInv, EvictOldest, UNCHANGED consumed
    PROVE  Stream!Discard
  <1>1. PICK s \in DOMAIN closed :
           /\ \A t \in DOMAIN closed : s <= t
           /\ Unlinks(s)
           /\ evicted' = evicted \cup Lines(closed[s])
    BY DEF EvictOldest, Oldest, Unlinks
  <1>2. Stored' = Stored \ Lines(closed[s]) /\ Lines(closed[s]) \subseteq Stored
    BY <1>1, UnlinkOldest DEF Stored
  <1>3. \A x \in Lines(closed[s]) : \A y \in Stored \ Lines(closed[s]) : x < y
    BY <1>1, OldestEnd
  <1> QED
    BY <1>1, <1>2, <1>3 DEF Stream!Discard, Stream!OldEnd, EvictOldest

\* What is acknowledged is the old end of the stream, and stored.
LEMMA AckIsRelease ==
    ASSUME SpoolInv, DeliveryInv, NEW s \in acks, Ack(s), UNCHANGED consumed
    PROVE  Stream!Release
  <1>1. s \in DOMAIN closed /\ Unlinks(s) /\ UNCHANGED <<served, evicted>>
    BY DEF Ack, Unlinks
  <1>2. \A t \in DOMAIN closed : s <= t
    BY DEF DeliveryInv, HeldIsOldest
  <1>3. Lines(closed[s]) \subseteq consumed
    BY <1>1 DEF DeliveryInv, HeldIsStored
  <1>4. Stored' = Stored \ Lines(closed[s]) /\ Lines(closed[s]) \subseteq Stored
    BY <1>1, <1>2, UnlinkOldest DEF Stored
  <1>5. \A x \in Lines(closed[s]) : \A y \in Stored \ Lines(closed[s]) : x < y
    BY <1>1, <1>2, OldestEnd
  <1> QED
    BY <1>1, <1>3, <1>4, <1>5 DEF Stream!Release, Stream!OldEnd

\* Every other step of the spool leaves the stream as it is.
LEMMA OtherIsStutter ==
    ASSUME SpoolInv, UNCHANGED consumed,
           \/ Open \/ AppendBegin \/ AppendSkip \/ AppendRotate \/ AppendReturn
           \/ AppendError \/ Crash \/ NextBatchError \/ AckError \/ UNCHANGED vars
    PROVE  UNCHANGED Stream!vars
  <1>1. UNCHANGED <<served, evicted>>
    BY DEF Open, AppendBegin, AppendSkip, AppendRotate, AppendReturn, AppendError, Crash,
           NextBatchError, AckError, vars, history
  <1>2. KeepsFiles \/ WritesLine(FALSE) \/ Rotates
    <2>1. CASE AppendError \/ Crash
      BY <2>1, TornCases DEF AppendError, Crash, SpoolInv
    <2>2. CASE AppendRotate
      BY <2>2 DEF AppendRotate, Rotates, KeepsFiles, dir
    <2>3. CASE Open \/ AppendBegin \/ AppendSkip \/ AppendReturn \/ UNCHANGED vars
      BY <2>3 DEF Open, AppendBegin, AppendSkip, AppendReturn, vars, KeepsFiles
    <2>4. CASE NextBatchError \/ AckError
      BY <2>4, HandlerErrors DEF KeepsFiles, Rotates
    <2> QED
      BY <2>1, <2>2, <2>3, <2>4
  <1>3. Stored' = Stored
    BY <1>2, StoredCases DEF SpoolInv
  <1> QED
    BY <1>1, <1>3 DEF Stream!vars

\* What the consumer stores was offered to it.
LEMMA StoringIsStore ==
    ASSUME DeliveryInv, PullerStore
    PROVE  Stream!Store
  <1>1. consumed' = consumed \cup held.lines /\ held.lines \subseteq served /\ UNCHANGED vars
    BY DEF PullerStore, DeliveryInv, HeldIsStored
  <1>2. Stored' = Stored /\ UNCHANGED <<served, evicted>>
    BY <1>1 DEF vars, dir, history, Stored
  <1> QED
    BY <1>1, <1>2 DEF Stream!Store

\* Every step of delivery is a step of the stream or none.
LEMMA StreamStep ==
    ASSUME SpoolInv, DeliveryInv, [DNext]_dvars
    PROVE  [Stream!Next]_(Stream!vars)
  <1> USE DEF Stream!Next
  <1>1. CASE PullerStore
    BY <1>1, StoringIsStore
  <1>2. ASSUME NEW s \in 1..next_seq, ReadingsNext(s)
        PROVE  Stream!Offer
    BY <1>2, BatchIsOffer DEF ReadingsNext, AnswerLost, consumer
  <1>3. ASSUME NEW s \in acks, ReadingsAck(s)
        PROVE  Stream!Release \/ UNCHANGED Stream!vars
    BY <1>3, AckIsRelease, OtherIsStutter DEF ReadingsAck, AckMiss, AnswerLost, consumer
  <1>4. CASE AppendStep
    <2>1. UNCHANGED consumed
      BY <1>4 DEF AppendStep, consumer
    <2> QED
      BY <1>4, <2>1, WriteIsPut, EvictionIsDiscard, OtherIsStutter DEF AppendStep
  <1>5. CASE PullerGet \/ PullerStoreFails \/ PullerGiveUp \/ PullerRetryAck \/ ReadingsNextEmpty
    <2>1. UNCHANGED vars /\ UNCHANGED consumed
      BY <1>5 DEF PullerGet, PullerStoreFails, PullerGiveUp, PullerRetryAck, ReadingsNextEmpty,
                  NextBatchEmpty, AnswerLost, consumer
    <2> QED
      BY <2>1, OtherIsStutter
  <1>6. CASE CollectorCrash \/ Restart \/ Produce \/ AppendFails
    <2>1. UNCHANGED consumed
      BY <1>6 DEF CollectorCrash, Restart, Produce, AppendFails, consumer
    <2> QED
      BY <1>6, <2>1, OtherIsStutter DEF CollectorCrash, Restart, Produce, AppendFails
  <1>7. CASE UNCHANGED dvars
    BY <1>7, OtherIsStutter DEF dvars, consumer
  <1>8. CASE ErrorAnswer
    BY <1>8, ErrorAnswers, OtherIsStutter DEF consumer
  <1> QED
    BY <1>1, <1>2, <1>3, <1>4, <1>5, <1>6, <1>7, <1>8 DEF DNext, ErrorAnswer

\* The spool with its handlers and a consumer that follows the documentation
\* implements the stream: readings are offered in order, oldest first, and
\* leave only from the old end, stored by the consumer or taken by the cap.
THEOREM ImplementsStream ==
    ASSUME QuickRestart = FALSE
    PROVE  DSpec => StreamSpec
  <1>1. DInit => Stream!Init
    BY EmptyFileLines DEF DInit, Init, Stream!Init, Stored
  <1>2. SpoolInv /\ DeliveryInv /\ [DNext]_dvars => [Stream!Next]_(Stream!vars)
    BY StreamStep
  <1> QED
    BY <1>1, <1>2, DeliverySafe, PTL DEF DSpec, StreamSpec, Stream!Spec

=============================================================================
