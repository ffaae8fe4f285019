------------------------------- MODULE Spool -------------------------------
(***************************************************************************)
(* One module's on-disk spool (service/src/spool.rs): an open segment      *)
(* current.jsonl that append() extends, and numbered closed segments that  *)
(* next_batch() serves oldest first and ack() unlinks.  The directory      *)
(* survives a crash of the process, the fields of Inner do not.            *)
(*                                                                         *)
(* append() holds the mutex from its first write to its return, but a      *)
(* crash or an I/O error can end it between any two system calls, so it is *)
(* the one operation split into steps: pc says where it stands.            *)
(*                                                                         *)
(* Readings are numbered in the order the callers hand them over; a file   *)
(* is the sequence of pieces written to it.  A piece is whole when its     *)
(* newline reached the file and torn otherwise.                            *)
(***************************************************************************)
EXTENDS Integers, Sequences, FiniteSets, FiniteSetsExt, Functions

CONSTANTS
    segment_bytes,  \* rotate threshold of the open segment
    max_bytes,      \* cap on the whole spool
    LineLens,       \* lengths a line may have, newline excluded
    MaxAppend,      \* bound: lines handed over by one append
    MaxLines,       \* bound: lines handed over in a behaviour
    MaxCrashes,     \* bound: crashes of the process
    MaxErrors       \* bound: I/O errors the operations meet

(***************************************************************************)
(* The machine-values validator (lib/site-assertions.nix) admits no other  *)
(* configuration.                                                          *)
(***************************************************************************)
ASSUME SpoolAssumption ==
    /\ segment_bytes \in Nat \ {0}
    /\ max_bytes \in Nat
    /\ 2 * segment_bytes <= max_bytes
    /\ LineLens \subseteq Nat
    /\ MaxAppend \in Nat /\ MaxLines \in Nat
    /\ MaxCrashes \in Nat /\ MaxErrors \in Nat

VARIABLES
    closed,            \* directory: sequence number -> closed segment file
    current,           \* directory: the open segment file
    next_seq,          \* Inner.next_seq
    current_len,       \* Inner.current_len
    dropped_segments,  \* Inner.dropped_segments
    pc,                \* "down", "idle" (mutex free), or the step of append
    todo,              \* lines append has still to write
    written,           \* lines this append has written
    issued,            \* history: lines handed over so far
    accepted,          \* history: lines of appends that returned Ok
    served,            \* history: whole lines some batch contained
    acked,             \* history: whole lines unlinked by ack
    evicted,           \* history: whole lines unlinked by enforce_cap
    crashes, errors    \* faults so far

dir == <<closed, current>>
inner == <<next_seq, current_len, dropped_segments>>
call == <<pc, todo, written>>
history == <<issued, accepted, served, acked, evicted>>
faults == <<crashes, errors>>
vars == <<dir, inner, call, history, faults>>

-----------------------------------------------------------------------------

Piece == [line : Nat, whole : BOOLEAN]

\* A line as append() is given it: its number and its length.
Handed == [line : Nat, len : Nat]

\* A file: its pieces, its length, and how much of that is torn pieces.
File == [pieces : Seq(Piece), bytes : Nat, torn : Nat]

EmptyFile == [pieces |-> <<>>, bytes |-> 0, torn |-> 0]

\* The file after one more piece, of n bytes, was appended to it.
Extend(file, line, whole, n) ==
    [pieces |-> Append(file.pieces, [line |-> line, whole |-> whole]),
     bytes  |-> file.bytes + n,
     torn   |-> IF whole THEN file.torn ELSE file.torn + n]

\* The lines a file holds a piece of, and those whose newline is there.
Touched(file) == {file.pieces[i].line : i \in DOMAIN file.pieces}

Lines(file) ==
    {file.pieces[i].line : i \in {j \in DOMAIN file.pieces : file.pieces[j].whole}}

(***************************************************************************)
(* What next_batch reads: everything up to the last newline.  A torn piece *)
(* that is not the last one stays in the text, glued to the next line.     *)
(***************************************************************************)
BatchText(file) ==
    LET newlines == {i \in DOMAIN file.pieces : file.pieces[i].whole}
    IN  IF newlines = {} THEN <<>> ELSE SubSeq(file.pieces, 1, Max(newlines))

\* Mutant: the newest segment.
OldestIsNewest(s) == s \in DOMAIN closed /\ \A t \in DOMAIN closed : t <= s

\* The segment oldest_segment() finds, numbers being compared as integers.
Oldest(s) == s \in DOMAIN closed /\ \A t \in DOMAIN closed : s <= t

\* The bytes of the closed segments, each named by its segment and its place
\* there, and how many they are.
BytesIn(segments) == UNION {{s} \X (1..segments[s].bytes) : s \in DOMAIN segments}

ClosedBytes == Cardinality(BytesIn(closed))

\* SpoolStats.total_bytes, and the quantity enforce_cap compares to the cap:
\* the program's own count, which misses what a failed write left in the open
\* segment.
TotalBytes == current_len + ClosedBytes

\* What the files of the spool really hold.
SpoolBytes == current.bytes + ClosedBytes

-----------------------------------------------------------------------------

Init ==
    /\ closed = [s \in {} |-> EmptyFile]
    /\ current = EmptyFile
    /\ next_seq = 1
    /\ current_len = 0
    /\ dropped_segments = 0
    /\ pc = "down"
    /\ todo = <<>>
    /\ written = {}
    /\ issued = 0
    /\ accepted = {}
    /\ served = {}
    /\ acked = {}
    /\ evicted = {}
    /\ crashes = 0
    /\ errors = 0

\* Mutants of Spool::open: numbering goes on after the count of the
\* segments; the open segment is truncated.
OpenCounts ==
    /\ pc = "down"
    /\ next_seq' = Cardinality(DOMAIN closed) + 1
    /\ current_len' = current.bytes
    /\ dropped_segments' = 0
    /\ pc' = "idle"
    /\ UNCHANGED <<dir, todo, written, history, faults>>

OpenTruncates ==
    /\ pc = "down"
    /\ \E max_seq \in {0} \cup DOMAIN closed :
          /\ \A s \in DOMAIN closed : s <= max_seq
          /\ next_seq' = max_seq + 1
    /\ current' = EmptyFile
    /\ current_len' = 0
    /\ dropped_segments' = 0
    /\ pc' = "idle"
    /\ UNCHANGED <<closed, todo, written, history, faults>>

\* Spool::open at process start: Inner is rebuilt from the directory.
Open ==
    /\ pc = "down"
    /\ \E max_seq \in {0} \cup DOMAIN closed :
          /\ \A s \in DOMAIN closed : s <= max_seq
          /\ next_seq' = max_seq + 1
    /\ current_len' = current.bytes
    /\ dropped_segments' = 0
    /\ pc' = "idle"
    /\ UNCHANGED <<dir, todo, written, history, faults>>

\* append() is called with the given lines and takes the mutex.
AppendBegin ==
    /\ pc = "idle"
    /\ \E n \in 1..MaxAppend : \E lens \in [1..n -> LineLens] :
          /\ issued + n <= MaxLines
          /\ todo' = [i \in 1..n |-> [line |-> issued + i, len |-> lens[i]]]
          /\ issued' = issued + n
    /\ written' = {}
    /\ pc' = "write"
    /\ UNCHANGED <<dir, inner, accepted, served, acked, evicted, faults>>

\* One turn of the loop: both write_all calls succeed.
AppendLine ==
    /\ pc = "write"
    /\ todo # <<>>
    /\ Head(todo).len > 0
    /\ current' = Extend(current, Head(todo).line, TRUE, Head(todo).len + 1)
    /\ current_len' = current_len + Head(todo).len + 1
    /\ written' = written \cup {Head(todo).line}
    /\ todo' = Tail(todo)
    /\ UNCHANGED <<closed, next_seq, dropped_segments, pc, history, faults>>

\* One turn of the loop: an empty line is skipped.
AppendSkip ==
    /\ pc = "write"
    /\ todo # <<>>
    /\ Head(todo).len = 0
    /\ todo' = Tail(todo)
    /\ UNCHANGED <<dir, inner, pc, written, history, faults>>

\* Mutants of Inner::rotate: current_len is not reset; the open segment is
\* copied and not renamed.
RotateKeepsLength ==
    /\ closed' = [s \in DOMAIN closed \cup {next_seq} |->
                     IF s = next_seq THEN current ELSE closed[s]]
    /\ current' = EmptyFile
    /\ next_seq' = next_seq + 1
    /\ UNCHANGED <<current_len, dropped_segments>>

RotateCopies ==
    /\ closed' = [s \in DOMAIN closed \cup {next_seq} |->
                     IF s = next_seq THEN current ELSE closed[s]]
    /\ next_seq' = next_seq + 1
    /\ current_len' = 0
    /\ UNCHANGED <<current, dropped_segments>>

(***************************************************************************)
(* Inner::rotate.  rename() replaces a file that already has the name, so  *)
(* that no segment does is a property and not an assumption.               *)
(***************************************************************************)
Rotate ==
    /\ closed' = [s \in DOMAIN closed \cup {next_seq} |->
                     IF s = next_seq THEN current ELSE closed[s]]
    /\ current' = EmptyFile
    /\ next_seq' = next_seq + 1
    /\ current_len' = 0
    /\ UNCHANGED dropped_segments

\* All lines are written: the open segment closes when it is large enough.
AppendRotate ==
    /\ pc = "write"
    /\ todo = <<>>
    /\ IF current_len >= segment_bytes THEN Rotate ELSE UNCHANGED <<dir, inner>>
    /\ pc' = "cap"
    /\ UNCHANGED <<todo, written, history, faults>>

\* Inner::enforce_cap, one turn of its loop: over the cap, a segment goes.
EvictOldest ==
    /\ pc = "cap"
    /\ TotalBytes > max_bytes
    /\ \E s \in DOMAIN closed :
          /\ Oldest(s)
          /\ closed' = Restrict(closed, DOMAIN closed \ {s})
          /\ evicted' = evicted \cup Lines(closed[s])
    /\ dropped_segments' = dropped_segments + 1
    /\ UNCHANGED <<current, next_seq, current_len, call,
                   issued, accepted, served, acked, faults>>

\* Mutant: append() returns with the spool still over its cap.
AppendReturnEarly ==
    /\ pc = "cap"
    /\ accepted' = accepted \cup written
    /\ pc' = "idle"
    /\ written' = {}
    /\ UNCHANGED <<dir, inner, todo, issued, served, acked, evicted, faults>>

\* enforce_cap is done and append returns Ok(written).
AppendReturn ==
    /\ pc = "cap"
    /\ TotalBytes <= max_bytes \/ DOMAIN closed = {}
    /\ accepted' = accepted \cup written
    /\ pc' = "idle"
    /\ written' = {}
    /\ UNCHANGED <<dir, inner, todo, issued, served, acked, evicted, faults>>

\* How much of the line being written an interrupted write_all left behind.
TornWrite ==
    \E k \in 0..Head(todo).len :
        current' = IF k = 0 THEN current
                            ELSE Extend(current, Head(todo).line, FALSE, k)

(***************************************************************************)
(* An I/O error leaves append through one of its `?`: the mutex is         *)
(* released, Inner keeps what was counted so far, the rest of append does  *)
(* not run.                                                                *)
(***************************************************************************)
AppendError ==
    /\ pc \in {"write", "cap"}
    /\ errors < MaxErrors
    /\ IF pc = "write" /\ todo # <<>> THEN TornWrite ELSE UNCHANGED current
    /\ errors' = errors + 1
    /\ pc' = "idle"
    /\ todo' = <<>>
    /\ written' = {}
    /\ UNCHANGED <<closed, inner, history, crashes>>

\* The process dies; only the directory is left.
Crash ==
    /\ pc # "down"
    /\ crashes < MaxCrashes
    /\ IF pc = "write" /\ todo # <<>> THEN TornWrite ELSE UNCHANGED current
    /\ crashes' = crashes + 1
    /\ pc' = "down"
    /\ todo' = <<>>
    /\ written' = {}
    /\ UNCHANGED <<closed, inner, history, errors>>

\* next_batch() returns segment s; with nothing closed it closes the open
\* segment first.
NextBatch(s) ==
    /\ pc = "idle"
    /\ IF DOMAIN closed = {} /\ current_len > 0
       THEN s = next_seq /\ Rotate
       ELSE Oldest(s) /\ UNCHANGED <<dir, inner>>
    /\ served' = served \cup Lines(closed'[s])
    /\ UNCHANGED <<call, issued, accepted, acked, evicted, faults>>

(***************************************************************************)
(* next_batch() leaves through one of its `?`, before or after it closed   *)
(* the open segment: no batch is returned.                                 *)
(***************************************************************************)
NextBatchError ==
    /\ pc = "idle"
    /\ errors < MaxErrors
    /\ \/ DOMAIN closed = {} /\ current_len > 0 /\ Rotate
       \/ UNCHANGED <<dir, inner>>
    /\ errors' = errors + 1
    /\ UNCHANGED <<call, history, crashes>>

\* Mutant: the open segment is not looked at when nothing is closed.
NextBatchEmptyClosed ==
    /\ pc = "idle"
    /\ DOMAIN closed = {}
    /\ UNCHANGED vars

\* next_batch() returns None.
NextBatchEmpty ==
    /\ pc = "idle"
    /\ DOMAIN closed = {}
    /\ current_len = 0
    /\ UNCHANGED vars

\* ack() of a segment that exists: its file is unlinked.
Ack(s) ==
    /\ pc = "idle"
    /\ s \in DOMAIN closed
    /\ closed' = Restrict(closed, DOMAIN closed \ {s})
    /\ acked' = acked \cup Lines(closed[s])
    /\ UNCHANGED <<current, inner, call, issued, accepted, served, evicted, faults>>

\* ack() whose remove_file fails: the segment stays.
AckError ==
    /\ pc = "idle"
    /\ errors < MaxErrors
    /\ errors' = errors + 1
    /\ UNCHANGED <<dir, inner, call, history, crashes>>

\* ack() of an id no file has: false, nothing happens.
AckMiss(s) ==
    /\ pc = "idle"
    /\ s \notin DOMAIN closed
    /\ UNCHANGED vars

Next ==
    \/ Open
    \/ AppendBegin \/ AppendLine \/ AppendSkip \/ AppendRotate
    \/ EvictOldest \/ AppendReturn \/ AppendError
    \/ Crash
    \/ \E s \in 1..next_seq : NextBatch(s) \/ Ack(s) \/ AckMiss(s)
    \/ NextBatchEmpty \/ NextBatchError \/ AckError

Spec == Init /\ [][Next]_vars

-----------------------------------------------------------------------------
(***************************************************************************)
(* Properties.                                                             *)
(***************************************************************************)

\* The lines that are in the directory, in a closed or in the open segment.
Stored == (UNION {Lines(closed[s]) : s \in DOMAIN closed}) \cup Lines(current)

\* The directory holds files, the closed ones under positive numbers.
DirType ==
    /\ DOMAIN closed \subseteq Nat \ {0}
    /\ closed \in [DOMAIN closed -> File]
    /\ current \in File

InnerType ==
    /\ next_seq \in Nat \ {0}
    /\ current_len \in Nat
    /\ dropped_segments \in Nat

CallType ==
    /\ pc \in {"down", "idle", "write", "cap"}
    /\ todo \in Seq(Handed)
    /\ written \subseteq Nat

HistoryType ==
    /\ issued \in Nat
    /\ accepted \subseteq Nat
    /\ served \subseteq Nat
    /\ acked \subseteq Nat
    /\ evicted \subseteq Nat

FaultType == crashes \in Nat /\ errors \in Nat

\* Every variable keeps its type; the fields of Inner and the directory
\* together are what spool.rs declares.
TypeOK == DirType /\ InnerType /\ CallType /\ HistoryType /\ FaultType

\* While the spool is open, every closed segment is numbered below next_seq:
\* the name rotate() renames to is free (Spool::open, Inner::rotate).
SeqFresh == pc # "down" => \A s \in DOMAIN closed : s < next_seq

\* The pieces of a file are in the order their lines were handed over.
FileOrdered(file) ==
    \A i, j \in DOMAIN file.pieces : i < j => file.pieces[i].line < file.pieces[j].line

\* Everything in file f was handed over before everything in file g.
Before(f, g) == \A x \in Touched(f) : \A y \in Touched(g) : x < y

\* Readings leave in the order they were appended: the segment numbers, the
\* order inside a file and the open segment agree with the order of the
\* append calls, across rotations, errors, crashes and reopening.
InAppendOrder ==
    /\ \A s \in DOMAIN closed : FileOrdered(closed[s]) /\ Before(closed[s], current)
    /\ \A s, t \in DOMAIN closed : s < t => Before(closed[s], closed[t])
    /\ FileOrdered(current)

\* A line whose append returned Ok is in the directory until ack() or
\* enforce_cap() unlinks its segment, whatever crashes and errors happen
\* in between.
AcceptedNotLost == accepted \subseteq Stored \cup acked \cup evicted

\* "Newest data wins": whatever enforce_cap() dropped is older than
\* everything that is still stored.
EvictedAreOldest == \A e \in evicted : \A x \in Stored : e < x

\* What the counter of the open segment may miss: the bytes of the torn
\* pieces in it, once an append has failed.
Uncounted == IF errors = 0 THEN 0 ELSE current.torn

\* The counter of the open segment against its file: without I/O errors it is
\* the length, a torn tail found by Spool::open included; with them it is
\* short of the length by no more than torn pieces (append counts a line only
\* after both its writes).
CountsTheFile ==
    pc # "down" => /\ current_len <= current.bytes
                   /\ current.bytes <= current_len + Uncounted

\* An append that returns Ok leaves the files of the spool within the cap,
\* also after crashes left more than the cap behind.  Only what failed
\* appends left torn in the open segment may come on top: append does not
\* count it and enforce_cap() does not see it until the segment is closed
\* or reopened.
AppendEnforcesCap ==
    [][pc = "cap" /\ pc' = "idle" /\ errors' = errors
        => SpoolBytes' <= max_bytes + Uncounted']_vars

\* enforce_cap() drops a segment with lines of the append it runs for only if
\* that segment alone is over the cap: a caller that is told Ok has its lines
\* stored, not already gone, whatever else the spool held.
OwnLinesKept ==
    [][\A s \in DOMAIN closed \ DOMAIN closed' :
        Lines(closed[s]) \cap written # {} => closed[s].bytes > max_bytes]_vars

\* A closed segment never changes: a batch that is served again is the same
\* batch.  In particular rename() never replaces one.
SegmentsImmutable ==
    [][\A s \in DOMAIN closed \cap DOMAIN closed' : closed'[s] = closed[s]]_vars

\* Lines are first served in the order they were appended: next_batch()
\* never turns to a line older than one it has already served.
ServedInOrder ==
    [][\A n \in served' \ served : \A o \in served : o < n]_vars

\* main.rs: "abrupt termination loses at most one torn line".  A line whose
\* append returned Ok would then be readable in its file, that is, it would
\* not follow a torn piece on the same physical line.
AcceptedStayReadable ==
    LET Glued(file) == {file.pieces[i].line : i \in
            {j \in 2..Len(file.pieces) : file.pieces[j].whole /\ ~file.pieces[j-1].whole}}
    IN  accepted \cap (Glued(current) \cup UNION {Glued(closed[s]) : s \in DOMAIN closed}) = {}

-----------------------------------------------------------------------------
(***************************************************************************)
(* The inductive strengthening of the properties above.  Order has to be   *)
(* carried through the lines append() still has to write, and the history  *)
(* variables are compared with whole files, torn pieces included.          *)
(***************************************************************************)

Older(x, file) == \A y \in Touched(file) : x < y

OlderThanTodo(x) == \A k \in DOMAIN todo : x < todo[k].line

\* A file's lines were handed over, before those still to be written.
HandedBefore(file) ==
    \A x \in Touched(file) : x <= issued /\ OlderThanTodo(x)

TodoOrdered ==
    /\ \A k \in DOMAIN todo : todo[k].line <= issued
    /\ \A k, l \in DOMAIN todo : k < l => todo[k].line < todo[l].line

OrderInv ==
    /\ InAppendOrder
    /\ \A s \in DOMAIN closed : HandedBefore(closed[s])
    /\ HandedBefore(current)
    /\ TodoOrdered

\* What enforce_cap dropped is older than all the directory and append hold.
EvictedInv ==
    \A e \in evicted :
        /\ \A s \in DOMAIN closed : Older(e, closed[s])
        /\ Older(e, current)
        /\ OlderThanTodo(e)
        /\ e <= issued

\* A segment was served as a whole or is newer than all that was served.
ServedInv ==
    /\ \A s \in DOMAIN closed :
          Lines(closed[s]) \subseteq served \/ \A o \in served : Older(o, closed[s])
    /\ \A o \in served : Older(o, current) /\ OlderThanTodo(o) /\ o <= issued

\* What this append wrote is as safe as what earlier ones returned Ok for.
DurableInv == accepted \cup written \subseteq Stored \cup acked \cup evicted

\* Every conjunct is implied by Init and preserved by every step.
SpoolInv ==
    /\ TypeOK
    /\ SeqFresh
    /\ OrderInv
    /\ EvictedInv
    /\ ServedInv
    /\ DurableInv
    /\ CountsTheFile

=============================================================================
