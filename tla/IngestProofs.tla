--------------------------- MODULE IngestProofs ---------------------------
(***************************************************************************)
(* Proofs about Ingest, and about ApiServer around it, for any modules and *)
(* bodies, any finite number of handlers, any number of pushes, crashes    *)
(* and errors, and whatever the files of a start hold.                     *)
(***************************************************************************)
EXTENDS ApiServer, FiniteSetTheorems, WellFoundedInduction, TLAPS

-----------------------------------------------------------------------------
(* Threads.                                                                *)

\* The loop of a handler is at one of the modules it has still to do.
LEMMA CurrentIsTodo ==
    ASSUME NEW h \in Handler, thread[h].todo \subseteq Module, thread[h].todo # {}
    PROVE  Current(h) \in thread[h].todo
  <1> DEFINE todo == thread[h].todo
  <1>1. todo \subseteq Nat /\ todo # {}
    BY IngestAssumption
  <1> DEFINE below == {p \in Nat \X Nat : p[1] < p[2]}
  <1> HIDE DEF todo
  <1>2. IsWellFoundedOn(OpToRel(<, Nat), Nat)
    BY NatLessThanWellFounded
  <1>3. OpToRel(<, Nat) = {p \in Nat \X Nat : p[1] < p[2]}
    BY Zenon DEF OpToRel
  <1>4. IsWellFoundedOn(below, Nat)
    BY <1>2, <1>3, Zenon
  <1> HIDE DEF below
  <1>5. PICK m \in todo : \A n \in todo : <<n, m>> \notin below
    BY <1>1, <1>4, WFMin
  <1>6. \A n \in todo : m <= n
    <2> TAKE n \in todo
    <2>1. n \in Nat /\ m \in Nat /\ <<n, m>> \in Nat \X Nat
      BY <1>1
    <2>2. ~(<<n, m>>[1] < <<n, m>>[2])
      BY <1>5, <2>1 DEF below
    <2> QED
      BY <2>1, <2>2
  <1>7. Min(todo) \in todo
    BY <1>6 DEF Min
  <1> QED
    BY <1>7 DEF Current, todo

\* What a thread is, as a type.
LEMMA FreeIsThread ==
    Free \in [at : {"free", "lookup", "open", "append"}, body : SUBSET Body, todo : SUBSET Module]
  BY DEF Free

-----------------------------------------------------------------------------
(* The steps.                                                              *)

\* A handler that opens a spool or appends is at a module of its body.
LEMMA CurrentIsModule ==
    ASSUME IngestInv, NEW h \in Handler, thread[h].at \in {"open", "append"}
    PROVE  Current(h) \in thread[h].todo /\ Current(h) \in Module
  <1>1. thread[h].todo \subseteq Module /\ thread[h].todo # {}
    BY DEF IngestInv, TypeOK, ThreadsAreSound
  <1> QED
    BY <1>1, CurrentIsTodo

Thread == [at : {"free", "lookup", "open", "append"}, body : SUBSET Body, todo : SUBSET Module]

\* A handler that goes on is still a handler.
LEMMA GoesOn ==
    ASSUME NEW f \in [Handler -> Thread], NEW h \in Handler,
           NEW at \in {"free", "lookup", "open", "append"}, NEW todo \in SUBSET Module
    PROVE  /\ [f EXCEPT ![h].at = at] \in [Handler -> Thread]
           /\ [f EXCEPT ![h].at = at, ![h].todo = todo] \in [Handler -> Thread]
  <1>1. f[h] \in Thread
    OBVIOUS
  <1>2. [f[h] EXCEPT !.at = at] \in Thread
    BY <1>1 DEF Thread
  <1>3. [f[h] EXCEPT !.at = at, !.todo = todo] \in Thread
    BY <1>1 DEF Thread
  <1> HIDE DEF Thread
  <1>4. [f EXCEPT ![h] = [f[h] EXCEPT !.at = at]] \in [Handler -> Thread]
    BY <1>2
  <1>5. [f EXCEPT ![h] = [f[h] EXCEPT !.at = at, !.todo = todo]] \in [Handler -> Thread]
    BY <1>3
  <1> QED
    BY <1>4, <1>5

\* Every step keeps the types, and hands the mutex on as they say.
LEMMA TypeStep ==
    ASSUME IngestInv, [Next]_vars
    PROVE  TypeOK'
  <1> USE DEF TypeOK, IngestInv, Step, faults
  <1>1. CASE Open
    BY <1>1, IngestAssumption DEF Open
  <1>2. CASE OpenFails
    BY <1>2, IngestAssumption DEF OpenFails
  <1>3. ASSUME NEW m \in Module, StartPoller(m)
        PROVE  TypeOK'
    BY <1>3, IngestAssumption DEF StartPoller
  <1>4. CASE Serve
    BY <1>4 DEF Serve
  <1>5. ASSUME NEW h \in Handler, NEW b \in Body, Begin(h, b)
        PROVE  TypeOK'
    <2> USE <1>5 DEF Begin
    <2>1. attempts[b] + 1 \in 0..MaxAttempts
      BY IngestAssumption
    <2>2. attempts' \in [Body -> 0..MaxAttempts]
      BY <2>1
    <2>3. Groups[b] \subseteq Module
      BY IngestAssumption
    <2>4. thread' \in [Handler -> [at : {"free", "lookup", "open", "append"},
                                   body : SUBSET Body, todo : SUBSET Module]]
      BY <2>3
    <2>5. lock # h /\ thread'[h].at = "lookup"
      BY DEF Free
    <2>6. \A g \in Handler : thread'[g].at = "open" <=> lock' = g
      BY <2>5
    <2> QED
      BY <2>2, <2>4, <2>6
  <1>6. ASSUME NEW h \in Handler, Found(h)
        PROVE  TypeOK'
    BY <1>6 DEF Found
  <1>7. ASSUME NEW h \in Handler, Missing(h)
        PROVE  TypeOK'
    <2>1. thread' = [thread EXCEPT ![h].at = "open"] /\ lock = "free" /\ lock' = h
      BY <1>7 DEF Missing
    <2>2. thread' \in [Handler -> Thread]
      <3>1. thread \in [Handler -> Thread]
        BY DEF Thread
      <3> QED
        BY ONLY <2>1, <3>1, h \in Handler, GoesOn
    <2>3. thread'[h].at = "open" /\ \A g \in Handler : g # h => thread'[g] = thread[g]
      BY <2>1
    <2>4. \A g \in Handler : thread'[g].at = "open" <=> lock' = g
      BY <2>1, <2>3, IngestAssumption
    <2> QED
      BY <1>7, <2>1, <2>2, <2>4 DEF Missing, Thread
  <1>8. ASSUME NEW h \in Handler, OpenSpool(h)
        PROVE  TypeOK'
    <2> USE <1>8 DEF OpenSpool
    <2>1. Current(h) \in Module
      BY CurrentIsModule
    <2>2. /\ opened' \in [Module -> Nat] /\ spools' \subseteq dirs'
          /\ spools' \subseteq Module /\ dirs' \subseteq Module
      BY <2>1 DEF ThreadsAreSound
    <2>3. thread' \in [Handler -> [at : {"free", "lookup", "open", "append"},
                                   body : SUBSET Body, todo : SUBSET Module]]
      <3>1. thread' = [thread EXCEPT ![h].at = "append"]
        OBVIOUS
      <3>2. thread \in [Handler -> Thread]
        BY DEF Thread
      <3>3. thread' \in [Handler -> Thread]
        BY ONLY <3>1, <3>2, h \in Handler, GoesOn
      <3> QED
        BY <3>3 DEF Thread
    <2>4. \A g \in Handler : thread'[g].at = "open" <=> lock' = g
      BY IngestAssumption
    <2> QED
      BY <2>2, <2>3, <2>4
  <1>9. ASSUME NEW h \in Handler, Error(h)
        PROVE  TypeOK'
    <2> USE <1>9 DEF Error
    <2>1. Current(h) \in Module
      BY CurrentIsModule
    <2>2. dirs' \subseteq Module /\ dirs \subseteq dirs'
      BY <2>1
    <2>3. appended' \in [Module -> [Body -> Nat]]
      <3>1. CASE appended' = appended
        BY <3>1
      <3>2. ASSUME NEW b \in thread[h].body, appended' = [appended EXCEPT ![Current(h)][b] = @ + 1]
            PROVE  appended' \in [Module -> [Body -> Nat]]
        BY <2>1, <3>2
      <3> QED
        BY <3>1, <3>2
    <2>4. thread' \in [Handler -> [at : {"free", "lookup", "open", "append"},
                                   body : SUBSET Body, todo : SUBSET Module]]
      BY FreeIsThread
    <2>5. Free.at = "free"
      BY DEF Free
    <2>6. \A g \in Handler : thread'[g].at = "open" <=> lock' = g
      BY <2>5, IngestAssumption
    <2>7. errors' \in 0..MaxErrors /\ lock' \in Handler \cup {"free"}
      BY IngestAssumption
    <2> QED
      BY <2>2, <2>3, <2>4, <2>6, <2>7
  <1>10. ASSUME NEW h \in Handler, AppendLines(h)
        PROVE  TypeOK'
    <2> USE <1>10 DEF AppendLines
    <2>1. Current(h) \in Module
      BY CurrentIsModule
    <2>2. appended' \in [Module -> [Body -> Nat]]
      BY <2>1
    <2>3. thread' \in [Handler -> [at : {"free", "lookup", "open", "append"},
                                   body : SUBSET Body, todo : SUBSET Module]]
      <3>1. thread[h].todo \ {Current(h)} \subseteq Module
        OBVIOUS
      <3> DEFINE rest == thread[h].todo \ {Current(h)}
      <3>2. thread' = [thread EXCEPT ![h].at = "lookup", ![h].todo = rest]
        OBVIOUS
      <3>3. rest \in SUBSET Module
        BY <3>1
      <3>4. thread \in [Handler -> Thread]
        BY DEF Thread
      <3>5. thread' \in [Handler -> Thread]
        BY ONLY <3>2, <3>3, <3>4, h \in Handler, GoesOn
      <3> QED
        BY <3>5 DEF Thread
    <2>4. thread'[h].at = "lookup" /\ \A g \in Handler : g # h => thread'[g] = thread[g]
      OBVIOUS
    <2>5. \A g \in Handler : thread'[g].at = "open" <=> lock' = g
      BY <2>4
    <2> QED
      BY <2>2, <2>3, <2>5
  <1>11. ASSUME NEW h \in Handler, Answer(h)
        PROVE  TypeOK'
    BY <1>11, IngestAssumption, FreeIsThread DEF Answer, Free
  <1>12. CASE Crash
    BY <1>12, IngestAssumption, FreeIsThread DEF Crash, Free
  <1>13. CASE UNCHANGED vars
    BY <1>13 DEF vars
  <1> HIDE DEF TypeOK, IngestInv
  <1> QED
    BY <1>1, <1>2, <1>3, <1>4, <1>5, <1>6, <1>7, <1>8, <1>9, <1>10, <1>11, <1>12, <1>13 DEF Next, Handle, Loop

\* A Spool object is made for a module that has none, under the mutex.
LEMMA OpenedStep ==
    ASSUME IngestInv, [Next]_vars
    PROVE  SpoolsAreOpened'
  <1> USE DEF TypeOK, IngestInv, SpoolsAreOpened, Step, faults
  <1>1. CASE Open
    BY <1>1 DEF Open
  <1>2. CASE OpenFails
    BY <1>2 DEF OpenFails
  <1>3. ASSUME NEW m \in Module, StartPoller(m)
        PROVE  SpoolsAreOpened'
    BY <1>3 DEF StartPoller
  <1>4. CASE Serve
    BY <1>4 DEF Serve
  <1>5. ASSUME NEW h \in Handler, NEW b \in Body, Begin(h, b)
        PROVE  SpoolsAreOpened'
    BY <1>5 DEF Begin
  <1>6. ASSUME NEW h \in Handler, Found(h)
        PROVE  SpoolsAreOpened'
    BY <1>6 DEF Found
  <1>7. ASSUME NEW h \in Handler, Missing(h)
        PROVE  SpoolsAreOpened'
    BY <1>7 DEF Missing
  <1>8. ASSUME NEW h \in Handler, OpenSpool(h)
        PROVE  SpoolsAreOpened'
    BY <1>8, IngestAssumption, CurrentIsModule DEF OpenSpool, ThreadsAreSound
  <1>9. ASSUME NEW h \in Handler, Error(h)
        PROVE  SpoolsAreOpened'
    BY <1>9, IngestAssumption, CurrentIsModule DEF Error, ThreadsAreSound
  <1>10. ASSUME NEW h \in Handler, AppendLines(h)
        PROVE  SpoolsAreOpened'
    BY <1>10, IngestAssumption, CurrentIsModule DEF AppendLines, ThreadsAreSound
  <1>11. ASSUME NEW h \in Handler, Answer(h)
        PROVE  SpoolsAreOpened'
    BY <1>11 DEF Answer
  <1>12. CASE Crash
    BY <1>12 DEF Crash
  <1>13. CASE UNCHANGED vars
    BY <1>13 DEF vars
  <1> HIDE DEF TypeOK, IngestInv, SpoolsAreOpened
  <1> QED
    BY <1>1, <1>2, <1>3, <1>4, <1>5, <1>6, <1>7, <1>8, <1>9, <1>10, <1>11, <1>12, <1>13 DEF Next, Handle, Loop

\* Nothing that was appended is taken back, so what is stored of a body stays.
LEMMA DoneIsKept ==
    ASSUME NEW h \in Handler, DoneIsStored(h),
           thread'[h].body = thread[h].body, thread'[h].todo = thread[h].todo,
           \A m \in Module, b \in Body : appended[m][b] > 0 => appended'[m][b] > 0
    PROVE  DoneIsStored(h)'
  <1>1. PICK b \in Body : /\ thread[h].body = {b} /\ thread[h].todo \subseteq Groups[b]
                          /\ \A m \in Groups[b] \ thread[h].todo : appended[m][b] > 0
    BY DEF DoneIsStored
  <1>2. Groups[b] \subseteq Module
    BY IngestAssumption
  <1> QED
    BY <1>1, <1>2 DEF DoneIsStored

\* A handler goes through the modules of its body, and no other registers the
\* one it is opening.
LEMMA ThreadStep ==
    ASSUME IngestInv, [Next]_vars
    PROVE  ThreadsAreSound'
  <1> USE DEF TypeOK, IngestInv, ThreadsAreSound, Step, faults
  <1>1. CASE Open
    <2> USE <1>1 DEF Open
    <2>1. \A g \in Handler : DoneIsStored(g) => DoneIsStored(g)' /\ Current(g)' = Current(g)
      BY DoneIsKept DEF Current
    <2> QED
      BY <2>1
  <1>2. CASE OpenFails
    <2> USE <1>2 DEF OpenFails
    <2>1. \A g \in Handler : DoneIsStored(g) => DoneIsStored(g)' /\ Current(g)' = Current(g)
      BY DoneIsKept DEF Current
    <2> QED
      BY <2>1
  <1>3. ASSUME NEW m \in Module, StartPoller(m)
        PROVE  ThreadsAreSound'
    <2> USE <1>3 DEF StartPoller
    <2>1. \A g \in Handler : DoneIsStored(g) => DoneIsStored(g)' /\ Current(g)' = Current(g)
      BY DoneIsKept DEF Current
    <2> QED
      BY <2>1
  <1>4. CASE Serve
    <2> USE <1>4 DEF Serve
    <2>1. \A g \in Handler : DoneIsStored(g) => DoneIsStored(g)' /\ Current(g)' = Current(g)
      BY DoneIsKept DEF Current
    <2> QED
      BY <2>1
  <1>5. ASSUME NEW h \in Handler, NEW b \in Body, Begin(h, b)
        PROVE  ThreadsAreSound'
    <2> USE <1>5 DEF Begin
    <2>1. \A g \in Handler : g # h => thread'[g] = thread[g] /\ Current(g)' = Current(g)
      BY DEF Current
    <2>2. \A g \in Handler : g # h /\ DoneIsStored(g) => DoneIsStored(g)'
      BY <2>1, DoneIsKept
    <2>3. thread'[h] = [at |-> "lookup", body |-> {b}, todo |-> Groups[b]]
      OBVIOUS
    <2>4. DoneIsStored(h)'
      BY <2>3 DEF DoneIsStored
    <2> QED
      BY <2>1, <2>2, <2>3, <2>4
  <1>6. ASSUME NEW h \in Handler, Found(h)
        PROVE  ThreadsAreSound'
    <2> USE <1>6 DEF Found
    <2>1. /\ thread'[h].at = "append" /\ thread'[h].todo = thread[h].todo
          /\ thread'[h].body = thread[h].body /\ Current(h)' = Current(h)
      BY DEF Current
    <2>2. \A g \in Handler : g # h => thread'[g] = thread[g] /\ Current(g)' = Current(g)
      BY DEF Current
    <2>3. \A g \in Handler : DoneIsStored(g) => DoneIsStored(g)'
      BY <2>1, <2>2, DoneIsKept
    <2>4. thread[h].at = "lookup" /\ thread[h].todo # {} /\ Current(h) \in spools
      OBVIOUS
    <2> QED
      BY <2>1, <2>2, <2>3, <2>4
  <1>7. ASSUME NEW h \in Handler, Missing(h)
        PROVE  ThreadsAreSound'
    <2> USE <1>7 DEF Missing
    <2>1. /\ thread'[h].at = "open" /\ thread'[h].todo = thread[h].todo
          /\ thread'[h].body = thread[h].body /\ Current(h)' = Current(h)
      BY DEF Current
    <2>2. \A g \in Handler : g # h => thread'[g] = thread[g] /\ Current(g)' = Current(g)
      BY DEF Current
    <2>3. \A g \in Handler : DoneIsStored(g) => DoneIsStored(g)'
      BY <2>1, <2>2, DoneIsKept
    <2>4. thread[h].at = "lookup" /\ thread[h].todo # {} /\ Current(h) \notin spools
      OBVIOUS
    <2> QED
      BY <2>1, <2>2, <2>3, <2>4
  <1>8. ASSUME NEW h \in Handler, OpenSpool(h)
        PROVE  ThreadsAreSound'
    <2> USE <1>8 DEF OpenSpool
    <2>1. /\ thread'[h].at = "append" /\ thread'[h].todo = thread[h].todo
          /\ thread'[h].body = thread[h].body /\ Current(h)' = Current(h)
      BY DEF Current
    <2>2. \A g \in Handler : g # h => thread'[g] = thread[g] /\ Current(g)' = Current(g)
      BY DEF Current
    <2>3. \A g \in Handler : DoneIsStored(g) => DoneIsStored(g)'
      BY <2>1, <2>2, DoneIsKept
    <2>4. \A g \in Handler : g # h => thread[g].at # "open"
      OBVIOUS
    <2> QED
      BY <2>1, <2>2, <2>3, <2>4
  <1>9. ASSUME NEW h \in Handler, Error(h)
        PROVE  ThreadsAreSound'
    <2> USE <1>9 DEF Error
    <2>1. \A g \in Handler : g # h => thread'[g] = thread[g] /\ Current(g)' = Current(g)
      BY DEF Current
    <2>2. \A n \in Module, c \in Body : appended[n][c] > 0 => appended'[n][c] > 0
      <3>1. CASE appended' = appended
        BY <3>1
      <3>2. ASSUME NEW b \in thread[h].body, appended' = [appended EXCEPT ![Current(h)][b] = @ + 1]
            PROVE  \A n \in Module, c \in Body : appended[n][c] > 0 => appended'[n][c] > 0
        BY <3>2, CurrentIsModule
      <3> QED
        BY <3>1, <3>2
    <2>3. \A g \in Handler : g # h /\ DoneIsStored(g) => DoneIsStored(g)'
      BY <2>1, <2>2, DoneIsKept
    <2>4. thread'[h] = Free /\ Free.at = "free"
      BY DEF Free
    <2> QED
      BY <2>1, <2>3, <2>4
  <1>10. ASSUME NEW h \in Handler, AppendLines(h)
        PROVE  ThreadsAreSound'
    <2> USE <1>10 DEF AppendLines
    <2> DEFINE m == Current(h)
    <2>1. m \in thread[h].todo /\ m \in Module
      BY CurrentIsModule
    <2>2. PICK b \in thread[h].body : appended' = [appended EXCEPT ![m][b] = @ + 1]
      OBVIOUS
    <2>3. /\ b \in Body /\ thread[h].body = {b} /\ thread[h].todo \subseteq Groups[b]
          /\ \A n \in Groups[b] \ thread[h].todo : appended[n][b] > 0
      BY DEF DoneIsStored
    <2>4. /\ thread'[h].at = "lookup" /\ thread'[h].todo = thread[h].todo \ {m}
          /\ thread'[h].body = thread[h].body
          /\ \A g \in Handler : g # h => thread'[g] = thread[g]
      OBVIOUS
    <2>5. \A g \in Handler : g # h => Current(g)' = Current(g)
      BY <2>4 DEF Current
    <2> HIDE DEF m
    <2>6. /\ \A n \in Module, c \in Body : appended[n][c] > 0 => appended'[n][c] > 0
          /\ appended'[m][b] > 0
      BY <2>1, <2>2, <2>3
    <2>7. \A g \in Handler : g # h /\ DoneIsStored(g) => DoneIsStored(g)'
      BY <2>4, <2>6, DoneIsKept
    <2>8. Groups[b] \subseteq Module
      BY <2>3, IngestAssumption
    <2>9. /\ thread'[h].body = {b} /\ thread'[h].todo \subseteq Groups[b]
          /\ \A n \in Groups[b] \ thread'[h].todo : appended'[n][b] > 0
      BY <2>3, <2>4, <2>6, <2>8
    <2>10. DoneIsStored(h)'
      BY <2>3, <2>9 DEF DoneIsStored
    <2> QED
      BY <2>4, <2>5, <2>7, <2>10
  <1>11. ASSUME NEW h \in Handler, Answer(h)
        PROVE  ThreadsAreSound'
    <2> USE <1>11 DEF Answer
    <2>1. \A g \in Handler : g # h => thread'[g] = thread[g] /\ Current(g)' = Current(g)
      BY DEF Current
    <2>2. \A g \in Handler : g # h /\ DoneIsStored(g) => DoneIsStored(g)'
      BY <2>1, DoneIsKept
    <2>3. thread'[h] = Free /\ Free.at = "free"
      BY DEF Free
    <2> QED
      BY <2>1, <2>2, <2>3
  <1>12. CASE Crash
    <2> USE <1>12 DEF Crash
    <2>1. \A g \in Handler : thread'[g] = Free /\ Free.at = "free"
      BY DEF Free
    <2> QED
      BY <2>1
  <1>13. CASE UNCHANGED vars
    <2>1. \A g \in Handler : DoneIsStored(g) => DoneIsStored(g)' /\ Current(g)' = Current(g)
      BY <1>13, DoneIsKept DEF vars, Current
    <2> QED
      BY <1>13, <2>1 DEF vars
  <1> HIDE DEF TypeOK, IngestInv, ThreadsAreSound
  <1> QED
    BY <1>1, <1>2, <1>3, <1>4, <1>5, <1>6, <1>7, <1>8, <1>9, <1>10, <1>11, <1>12, <1>13 DEF Next, Handle, Loop

\* 200 is the answer to a body of which nothing is left to append.
LEMMA OkStep ==
    ASSUME IngestInv, [Next]_vars
    PROVE  OkMeansStored'
  <1> USE DEF TypeOK, IngestInv, OkMeansStored, Step, faults
  <1>1. CASE Open
    BY <1>1 DEF Open
  <1>2. CASE OpenFails
    BY <1>2 DEF OpenFails
  <1>3. ASSUME NEW m \in Module, StartPoller(m)
        PROVE  OkMeansStored'
    BY <1>3 DEF StartPoller
  <1>4. CASE Serve
    BY <1>4 DEF Serve
  <1>5. ASSUME NEW h \in Handler, NEW b \in Body, Begin(h, b)
        PROVE  OkMeansStored'
    BY <1>5 DEF Begin
  <1>6. ASSUME NEW h \in Handler, Found(h)
        PROVE  OkMeansStored'
    BY <1>6 DEF Found
  <1>7. ASSUME NEW h \in Handler, Missing(h)
        PROVE  OkMeansStored'
    BY <1>7 DEF Missing
  <1>8. ASSUME NEW h \in Handler, OpenSpool(h)
        PROVE  OkMeansStored'
    BY <1>8 DEF OpenSpool
  <1>9. ASSUME NEW h \in Handler, Error(h)
        PROVE  OkMeansStored'
    BY <1>9, IngestAssumption, CurrentIsModule DEF Error
  <1>10. ASSUME NEW h \in Handler, AppendLines(h)
        PROVE  OkMeansStored'
    BY <1>10, IngestAssumption, CurrentIsModule DEF AppendLines, ThreadsAreSound
  <1>11. ASSUME NEW h \in Handler, Answer(h)
        PROVE  OkMeansStored'
    BY <1>11, IngestAssumption DEF Answer, ThreadsAreSound, DoneIsStored
  <1>12. CASE Crash
    BY <1>12 DEF Crash
  <1>13. CASE UNCHANGED vars
    BY <1>13 DEF vars
  <1> HIDE DEF TypeOK, IngestInv, OkMeansStored
  <1> QED
    BY <1>1, <1>2, <1>3, <1>4, <1>5, <1>6, <1>7, <1>8, <1>9, <1>10, <1>11, <1>12, <1>13 DEF Next, Handle, Loop


\* The handlers that wait are finitely many, and no more when they are a part
\* of those that waited.
LEMMA WaitingFacts ==
    ASSUME NEW m, NEW b
    PROVE  IsFiniteSet(Waiting(m, b)) /\ Cardinality(Waiting(m, b)) \in Nat
  <1>1. Waiting(m, b) \in SUBSET Handler
    BY DEF Waiting
  <1>2. IsFiniteSet(Waiting(m, b))
    BY <1>1, IngestAssumption, FS_Subset
  <1> QED
    BY <1>2, FS_CardinalityType

\* A part of finitely many handlers is no more of them.
LEMMA FewerWait ==
    ASSUME NEW S, IsFiniteSet(S), NEW T \in SUBSET S
    PROVE  Cardinality(T) \in Nat /\ Cardinality(T) <= Cardinality(S)
  BY FS_Subset, FS_CardinalityType

\* A step that appends nothing and takes no new push leaves the count.
LEMMA CountIsKept ==
    ASSUME TypeOK, NoDuplicatePerPush, appended' = appended, attempts' = attempts,
           \A g \in Handler : thread'[g].body \subseteq thread[g].body
                              /\ thread'[g].todo \subseteq thread[g].todo
    PROVE  NoDuplicatePerPush'
  <1> SUFFICES ASSUME NEW m \in Module, NEW b \in Body
               PROVE  appended'[m][b] + Cardinality(Waiting(m, b)') <= attempts'[b]
    BY DEF NoDuplicatePerPush
  <1>1. Waiting(m, b)' \in SUBSET Waiting(m, b)
    BY DEF Waiting
  <1>2. /\ Cardinality(Waiting(m, b)') \in Nat
        /\ Cardinality(Waiting(m, b)') <= Cardinality(Waiting(m, b))
    BY <1>1, WaitingFacts, FewerWait
  <1>3. appended[m][b] \in Nat /\ attempts[b] \in Nat
    BY IngestAssumption DEF TypeOK
  <1>4. appended[m][b] + Cardinality(Waiting(m, b)) <= attempts[b]
    BY DEF NoDuplicatePerPush
  <1> QED
    BY <1>2, <1>3, <1>4, WaitingFacts

\* A set grows by one element at most when one element is added to it.
LEMMA OneMore ==
    ASSUME NEW S, NEW x, IsFiniteSet(S)
    PROVE  /\ IsFiniteSet(S \cup {x})
           /\ Cardinality(S \cup {x}) \in Nat
           /\ Cardinality(S \cup {x}) <= Cardinality(S) + 1
  <1>1. /\ IsFiniteSet(S \cup {x})
        /\ Cardinality(S \cup {x}) = IF x \in S THEN Cardinality(S) ELSE Cardinality(S) + 1
    BY FS_AddElement
  <1>2. Cardinality(S) \in Nat
    BY FS_CardinalityType
  <1> QED
    BY <1>1, <1>2

\* A step that appends a module's lines of a body takes its handler from those
\* that wait for that module.
LEMMA AppendIsCounted ==
    ASSUME TypeOK, NoDuplicatePerPush, attempts' = attempts,
           NEW h \in Handler, NEW m \in Module, m \in thread[h].todo,
           NEW b \in Body, b \in thread[h].body,
           appended' = [appended EXCEPT ![m][b] = @ + 1],
           m \notin thread'[h].todo,
           \A g \in Handler : thread'[g].body \subseteq thread[g].body
                              /\ thread'[g].todo \subseteq thread[g].todo
    PROVE  NoDuplicatePerPush'
  <1> SUFFICES ASSUME NEW n \in Module, NEW c \in Body
               PROVE  appended'[n][c] + Cardinality(Waiting(n, c)') <= attempts'[c]
    BY DEF NoDuplicatePerPush
  <1>1. appended[n][c] + Cardinality(Waiting(n, c)) <= attempts[c]
    BY DEF NoDuplicatePerPush
  <1>2. /\ appended[n][c] \in Nat /\ attempts[c] \in Nat
        /\ IsFiniteSet(Waiting(n, c)) /\ Cardinality(Waiting(n, c)) \in Nat
    BY IngestAssumption, WaitingFacts DEF TypeOK
  <1>3. CASE n = m /\ c = b
    <2>1. h \in Waiting(n, c) /\ Waiting(n, c)' \in SUBSET (Waiting(n, c) \ {h})
      BY <1>3 DEF Waiting
    <2>2. /\ IsFiniteSet(Waiting(n, c) \ {h})
          /\ Cardinality(Waiting(n, c) \ {h}) = Cardinality(Waiting(n, c)) - 1
      BY <1>2, <2>1, FS_RemoveElement
    <2>3. /\ Cardinality(Waiting(n, c)') \in Nat
          /\ Cardinality(Waiting(n, c)') <= Cardinality(Waiting(n, c) \ {h})
      BY <2>1, <2>2, FewerWait
    <2>4. appended'[n][c] = appended[n][c] + 1
      BY <1>3 DEF TypeOK
    <2> QED
      BY <1>1, <1>2, <2>2, <2>3, <2>4
  <1>4. CASE ~(n = m /\ c = b)
    <2>1. Waiting(n, c)' \in SUBSET Waiting(n, c)
      BY DEF Waiting
    <2>2. /\ Cardinality(Waiting(n, c)') \in Nat
          /\ Cardinality(Waiting(n, c)') <= Cardinality(Waiting(n, c))
      BY <1>2, <2>1, FewerWait
    <2>3. appended'[n][c] = appended[n][c]
      BY <1>4 DEF TypeOK
    <2> QED
      BY <1>1, <1>2, <2>2, <2>3
  <1> QED
    BY <1>3, <1>4

\* A push adds a handler to those that wait, and an append takes one away.
LEMMA CountStep ==
    ASSUME IngestInv, [Next]_vars
    PROVE  NoDuplicatePerPush'
  <1> USE DEF IngestInv, Step, faults
  <1>1. CASE Open
    BY <1>1, CountIsKept DEF Open, TypeOK
  <1>2. CASE OpenFails
    BY <1>2, CountIsKept DEF OpenFails, TypeOK
  <1>3. ASSUME NEW m \in Module, StartPoller(m)
        PROVE  NoDuplicatePerPush'
    BY <1>3, CountIsKept DEF StartPoller, TypeOK
  <1>4. CASE Serve
    BY <1>4, CountIsKept DEF Serve, TypeOK
  <1>5. ASSUME NEW h \in Handler, NEW b \in Body, Begin(h, b)
        PROVE  NoDuplicatePerPush'
    <2> USE <1>5 DEF Begin
    <2>1. /\ thread' = [thread EXCEPT ![h] = [at |-> "lookup", body |-> {b}, todo |-> Groups[b]]]
          /\ attempts' = [attempts EXCEPT ![b] = @ + 1]
          /\ appended' = appended
      OBVIOUS
    <2>2. /\ thread'[h].body = {b}
          /\ \A g \in Handler : g # h => thread'[g] = thread[g]
      BY DEF TypeOK
    <2> SUFFICES ASSUME NEW m \in Module, NEW c \in Body
                 PROVE  appended'[m][c] + Cardinality(Waiting(m, c)') <= attempts'[c]
      BY DEF NoDuplicatePerPush
    <2>3. appended[m][c] + Cardinality(Waiting(m, c)) <= attempts[c]
      BY DEF NoDuplicatePerPush
    <2>4. /\ appended[m][c] \in Nat /\ attempts[c] \in Nat
          /\ IsFiniteSet(Waiting(m, c)) /\ Cardinality(Waiting(m, c)) \in Nat
      BY IngestAssumption, WaitingFacts DEF TypeOK
    <2>5. CASE c = b
      <3>1. Waiting(m, c)' \in SUBSET (Waiting(m, c) \cup {h})
        BY <2>2 DEF Waiting
      <3>2. /\ IsFiniteSet(Waiting(m, c) \cup {h})
            /\ Cardinality(Waiting(m, c) \cup {h}) \in Nat
            /\ Cardinality(Waiting(m, c) \cup {h}) <= Cardinality(Waiting(m, c)) + 1
        BY <2>4, OneMore
      <3>3. /\ Cardinality(Waiting(m, c)') \in Nat
            /\ Cardinality(Waiting(m, c)') <= Cardinality(Waiting(m, c) \cup {h})
        BY <3>1, <3>2, FewerWait
      <3>4. attempts'[c] = attempts[c] + 1
        BY <2>1, <2>5 DEF TypeOK
      <3> HIDE DEF Begin
      <3> QED
        BY <2>1, <2>3, <2>4, <3>2, <3>3, <3>4
    <2>6. CASE c # b
      <3>1. Waiting(m, c)' \in SUBSET Waiting(m, c)
        BY <2>2, <2>6 DEF Waiting
      <3>2. /\ Cardinality(Waiting(m, c)') \in Nat
            /\ Cardinality(Waiting(m, c)') <= Cardinality(Waiting(m, c))
        BY <2>4, <3>1, FewerWait
      <3>3. attempts'[c] = attempts[c]
        BY <2>1, <2>6 DEF TypeOK
      <3> HIDE DEF Begin
      <3> QED
        BY <2>1, <2>3, <2>4, <3>2, <3>3
    <2> QED
      BY <2>5, <2>6
  <1>6. ASSUME NEW h \in Handler, Found(h)
        PROVE  NoDuplicatePerPush'
    <2> USE <1>6 DEF Found
    <2>1. \A g \in Handler : thread'[g].body = thread[g].body /\ thread'[g].todo = thread[g].todo
      BY DEF TypeOK
    <2> QED
      BY <2>1, CountIsKept
  <1>7. ASSUME NEW h \in Handler, Missing(h)
        PROVE  NoDuplicatePerPush'
    <2> USE <1>7 DEF Missing
    <2>1. \A g \in Handler : thread'[g].body = thread[g].body /\ thread'[g].todo = thread[g].todo
      BY DEF TypeOK
    <2> QED
      BY <2>1, CountIsKept
  <1>8. ASSUME NEW h \in Handler, OpenSpool(h)
        PROVE  NoDuplicatePerPush'
    <2> USE <1>8 DEF OpenSpool
    <2>1. \A g \in Handler : thread'[g].body = thread[g].body /\ thread'[g].todo = thread[g].todo
      BY DEF TypeOK
    <2> QED
      BY <2>1, CountIsKept
  <1>9. ASSUME NEW h \in Handler, Error(h)
        PROVE  NoDuplicatePerPush'
    <2> USE <1>9 DEF Error
    <2>1. /\ thread'[h].todo = {} /\ attempts' = attempts
          /\ \A g \in Handler : thread'[g].body \subseteq thread[g].body
                                /\ thread'[g].todo \subseteq thread[g].todo
      BY DEF TypeOK, Free
    <2>2. CASE appended' = appended
      BY <2>1, <2>2, CountIsKept
    <2>3. CASE appended' # appended
      <3>1. PICK b \in thread[h].body : appended' = [appended EXCEPT ![Current(h)][b] = @ + 1]
        BY <2>3
      <3>2. Current(h) \in thread[h].todo /\ Current(h) \in Module
        BY CurrentIsModule
      <3>3. b \in Body
        BY DEF TypeOK
      <3> HIDE DEF Error
      <3> QED
        BY <2>1, <3>1, <3>2, <3>3, AppendIsCounted
    <2> QED
      BY <2>2, <2>3
  <1>10. ASSUME NEW h \in Handler, AppendLines(h)
        PROVE  NoDuplicatePerPush'
    <2> USE <1>10 DEF AppendLines
    <2>1. Current(h) \in thread[h].todo /\ Current(h) \in Module
      BY CurrentIsModule
    <2>2. PICK b \in thread[h].body : appended' = [appended EXCEPT ![Current(h)][b] = @ + 1]
      OBVIOUS
    <2>3. b \in Body
      BY DEF TypeOK
    <2>4. /\ thread'[h].body = thread[h].body /\ thread'[h].todo = thread[h].todo \ {Current(h)}
          /\ \A g \in Handler : g # h => thread'[g] = thread[g]
          /\ attempts' = attempts
      BY DEF TypeOK
    <2> HIDE DEF AppendLines
    <2> QED
      BY <2>1, <2>2, <2>3, <2>4, AppendIsCounted
  <1>11. ASSUME NEW h \in Handler, Answer(h)
        PROVE  NoDuplicatePerPush'
    <2> USE <1>11 DEF Answer
    <2>1. \A g \in Handler : thread'[g].body \subseteq thread[g].body
                             /\ thread'[g].todo \subseteq thread[g].todo
      BY DEF TypeOK, Free
    <2> QED
      BY <2>1, CountIsKept
  <1>12. CASE Crash
    <2> USE <1>12 DEF Crash
    <2>1. \A g \in Handler : thread'[g].body \subseteq thread[g].body
                             /\ thread'[g].todo \subseteq thread[g].todo
      BY DEF TypeOK, Free
    <2> QED
      BY <2>1, CountIsKept
  <1>13. CASE UNCHANGED vars
    BY <1>13, CountIsKept DEF vars
  <1> HIDE DEF IngestInv
  <1> QED
    BY <1>1, <1>2, <1>3, <1>4, <1>5, <1>6, <1>7, <1>8, <1>9, <1>10, <1>11, <1>12, <1>13 DEF Next, Handle, Loop


-----------------------------------------------------------------------------
(* The theorems.                                                           *)

\* Before the first start nothing is appended, and no handler runs.
LEMMA IngestStarts == Init => IngestInv
  <1> SUFFICES ASSUME Init
               PROVE  IngestInv
    OBVIOUS
  <1> USE DEF Init
  <1>1. Free.at = "free" /\ Free.body = {} /\ Free.todo = {}
    BY DEF Free
  <1>2. TypeOK
    BY <1>1, IngestAssumption, FreeIsThread DEF TypeOK
  <1>3. OneSpoolPerModule /\ PendingIsServed /\ OkMeansStored
    BY DEF OneSpoolPerModule, PendingIsServed, OkMeansStored
  <1>4. NoDuplicatePerPush
    <2>1. ASSUME NEW m \in Module, NEW b \in Body
          PROVE  appended[m][b] + Cardinality(Waiting(m, b)) <= attempts[b]
      <3>1. Waiting(m, b) = {}
        BY <1>1 DEF Waiting
      <3> QED
        BY <3>1, FS_EmptySet
    <2> QED
      BY <2>1 DEF NoDuplicatePerPush
  <1>5. SpoolsAreOpened /\ ThreadsAreSound
    BY <1>1 DEF SpoolsAreOpened, ThreadsAreSound
  <1> QED
    BY <1>2, <1>3, <1>4, <1>5 DEF IngestInv

\* The inductive invariant is inductive.
LEMMA IngestGoesOn ==
    ASSUME IngestInv, [Next]_vars
    PROVE  IngestInv'
  <1>1. TypeOK' /\ SpoolsAreOpened' /\ ThreadsAreSound'
    BY TypeStep, OpenedStep, ThreadStep
  <1>2. OkMeansStored' /\ NoDuplicatePerPush'
    BY OkStep, CountStep
  <1>3. OneSpoolPerModule'
    BY <1>1 DEF SpoolsAreOpened, OneSpoolPerModule
  <1>4. PendingIsServed'
    BY <1>1 DEF SpoolsAreOpened, PendingIsServed
  <1> QED
    BY <1>1, <1>2, <1>3, <1>4 DEF IngestInv

\* One spool per directory, whatever was appended is served, 200 means that the
\* whole body is stored, and a body is stored at most once per push
\* (SpoolSet in spool.rs, ingest in api.rs): the inductive invariant holds in
\* every reachable state.
THEOREM IngestSafe == Spec => []IngestInv
  BY IngestStarts, IngestGoesOn, PTL DEF Spec

-----------------------------------------------------------------------------
(* Files.                                                                  *)

\* The larger of a number and a floor is a number that is not below the floor.
LEMMA AtLeast ==
    ASSUME NEW n \in Int, NEW floor \in Int
    PROVE  Max({floor, n}) \in {floor, n} /\ Max({floor, n}) >= floor
  BY DEF Max

\* The smaller of two numbers.
LEMMA AtMost ==
    ASSUME NEW n \in Int, NEW ceiling \in Int
    PROVE  Min({ceiling, n}) \in {ceiling, n} /\ Min({ceiling, n}) <= ceiling
  BY DEF Min

\* What a document is taken for, when it is taken.
LEMMA TakenDocument ==
    ASSUME NEW file, config_from_json(file).ok
    PROVE  /\ \A f \in Fields : Is(f[3], req(file.value, f[1], f[2]))
           /\ config_from_json(file).value =
                 [env |-> poller(file.value, "envSensors"), kasa |-> poller(file.value, "kasa"),
                  wiim |-> wiim(file.value)]
  BY DEF config_from_json, Ok, Err

\* A number of a document that is taken is one.
LEMMA TakenNumber ==
    ASSUME NEW file, config_from_json(file).ok, NEW f \in Fields, f[3] = "u64"
    PROVE  req(file.value, f[1], f[2]).n \in Nat
  BY TakenDocument DEF Is

\* Whatever document a start takes, no loop of the service waits zero seconds and
\* an SSDP search has between one and ten (the clamps of Config::from_json in
\* config.rs).
THEOREM IntervalsAreClamped ==
    ASSUME NEW file, config_from_json(file).ok
    PROVE  LET value == config_from_json(file).value
           IN  /\ \A p \in {"env", "kasa"} :
                     value[p].poll_interval_seconds >= 1 /\ value[p].discovery_interval_hours >= 1
               /\ value.wiim.response_window_seconds \in 1..10
               /\ value.wiim.discovery_interval_seconds >= 5
  <1> DEFINE n(section, key) == req(file.value, section, key).n
  <1>1. ASSUME NEW section \in {"envSensors", "kasa"}
        PROVE  /\ n(section, "pollIntervalSeconds") \in Nat
               /\ n(section, "discoveryIntervalHours") \in Nat
    <2>1. /\ <<section, "pollIntervalSeconds", "u64">> \in Fields
          /\ <<section, "discoveryIntervalHours", "u64">> \in Fields
      BY DEF Fields, PollerFields
    <2> QED
      BY <2>1, TakenNumber
  <1>2. n("wiim", "responseWindowSeconds") \in Nat /\ n("wiim", "discoveryIntervalSeconds") \in Nat
    <2>1. /\ <<"wiim", "responseWindowSeconds", "u64">> \in Fields
          /\ <<"wiim", "discoveryIntervalSeconds", "u64">> \in Fields
      BY DEF Fields
    <2> QED
      BY <2>1, TakenNumber
  <1> HIDE DEF n
  <1>3. ASSUME NEW section \in {"envSensors", "kasa"}
        PROVE  /\ poller(file.value, section).poll_interval_seconds >= 1
               /\ poller(file.value, section).discovery_interval_hours >= 1
    <2>1. /\ Max({1, n(section, "pollIntervalSeconds")}) >= 1
          /\ Max({1, n(section, "discoveryIntervalHours")}) >= 1
      BY <1>1, AtLeast
    <2> QED
      BY <2>1 DEF poller, n
  <1>4. wiim(file.value).response_window_seconds \in 1..10
    <2> DEFINE window == Min({10, n("wiim", "responseWindowSeconds")})
    <2>1. window \in Int /\ window <= 10
      BY <1>2, AtMost
    <2> HIDE DEF window
    <2>2. Max({1, window}) \in {1, window} /\ Max({1, window}) >= 1
      BY <2>1, AtLeast
    <2>3. Max({1, window}) \in 1..10
      BY <2>1, <2>2
    <2> QED
      BY <2>3 DEF wiim, n, window
  <1>5. wiim(file.value).discovery_interval_seconds >= 5
    <2>1. Max({5, n("wiim", "discoveryIntervalSeconds")}) >= 5
      BY <1>2, AtLeast
    <2> QED
      BY <2>1 DEF wiim, n
  <1>6. config_from_json(file).value =
          [env |-> poller(file.value, "envSensors"), kasa |-> poller(file.value, "kasa"),
           wiim |-> wiim(file.value)]
    BY TakenDocument
  <1> QED
    BY ONLY <1>3, <1>4, <1>5, <1>6

-----------------------------------------------------------------------------
(* The process around the ingestion.                                       *)

\* A token unit that is stopped changes nothing of the ingestion.
LEMMA TokenCutKeeps ==
    ASSUME IngestInv, NEW u \in Units, TokenCut(u)
    PROVE  IngestInv'
  <1> USE DEF TokenCut
  <1>1. crashes' \in 0..MaxCrashes
    BY IngestAssumption DEF IngestInv, TypeOK
  <1>2. TypeOK'
    BY <1>1 DEF IngestInv, TypeOK
  <1>3. OneSpoolPerModule' /\ PendingIsServed' /\ OkMeansStored' /\ SpoolsAreOpened'
    BY DEF IngestInv, OneSpoolPerModule, PendingIsServed, OkMeansStored, SpoolsAreOpened
  <1>4. NoDuplicatePerPush'
    <2>1. \A m \in Module, b \in Body : Waiting(m, b)' = Waiting(m, b)
      BY DEF Waiting
    <2> QED
      BY <2>1 DEF IngestInv, NoDuplicatePerPush
  <1>5. ThreadsAreSound'
    BY DEF IngestInv, ThreadsAreSound, DoneIsStored, Current
  <1> QED
    BY <1>2, <1>3, <1>4, <1>5 DEF IngestInv

\* The invariant of the process: where its connections stand, what they store
\* and what they are answered.
ServerIsSound ==
    ConnectionsAreSound /\ \A h \in Handler : PushIsWhole(h) /\ AnswerIsEarned(h)

\* Every other step of the process is a step of the ingestion, or none.
LEMMA ServerStepIsIngest ==
    ASSUME ServerIsSound, [ANext]_avars, \A u \in Units : ~TokenCut(u)
    PROVE  [Next]_vars
  <1>1. CASE Startup
    BY <1>1 DEF Startup, TokenBegin, TokenEnd, Start, StartOn, Next
  <1>2. CASE StartFails \/ Stop \/ Upload
    BY <1>2 DEF StartFails, Stop, Upload, Next
  <1>3. ASSUME NEW h \in Handler, Serving(h)
        PROVE  [Next]_vars
    <2>1. CASE Accept(h) \/ Read(h) \/ ReadTimeout(h) \/ Refuse(h) \/ Run(h) \/ Write(h)
      BY <2>1 DEF Accept, Read, ReadTimeout, Refuse, Run, Write
    <2>2. CASE Push(h)
      <3>1. PICK r \in conn[h].request :
               IF "body" \in conn[h].parts THEN \E b \in r.body : Begin(h, b) ELSE UNCHANGED vars
        BY <2>2 DEF Push
      <3>2. r.body \subseteq Body
        BY ServerAssumption DEF ServerIsSound, ConnectionsAreSound
      <3> QED
        BY <3>1, <3>2 DEF Next, Handle
    <2>3. CASE PushOn(h) \/ PushEnd(h)
      BY <2>3 DEF PushOn, PushEnd, Next, Handle
    <2> QED
      BY <1>3, <2>1, <2>2, <2>3 DEF Serving
  <1>4. ASSUME NEW h \in Handler, NEW r \in Request, Connect(h, r)
        PROVE  [Next]_vars
    BY <1>4 DEF Connect
  <1>5. CASE UNCHANGED avars
    BY <1>5 DEF avars
  <1> QED
    BY <1>1, <1>2, <1>3, <1>4, <1>5 DEF ANext

\* What a connection is, as a type.
Connection ==
    [at : {"none", "backlog", "read", "handle", "ingest", "write"}, request : SUBSET Request,
     parts : SUBSET {"line", "auth", "length", "body"}, end : {"none", "reads", "closes", "silent"},
     status : {0, 200, 400, 401, 404, 405, 500}]

\* A connection that goes on is still a connection, of the same request.
LEMMA ConnectionGoesOn ==
    ASSUME NEW f \in [Handler -> Connection], NEW h \in Handler,
           NEW at \in {"none", "backlog", "read", "handle", "ingest", "write"},
           NEW next, next = [f EXCEPT ![h].at = at]
    PROVE  /\ next \in [Handler -> Connection]
           /\ next[h].at = at /\ next[h].parts = f[h].parts /\ next[h].status = f[h].status
           /\ next[h].request = f[h].request
           /\ \A g \in Handler : g # h => next[g] = f[g]
  <1>1. f[h] \in Connection
    OBVIOUS
  <1> DEFINE on == [f[h] EXCEPT !.at = at]
  <1>2. /\ on \in Connection /\ on.at = at /\ on.parts = f[h].parts /\ on.status = f[h].status
        /\ on.request = f[h].request
    BY <1>1 DEF Connection
  <1> HIDE DEF on
  <1>3. [f EXCEPT ![h].at = at] = [f EXCEPT ![h] = on]
    BY DEF on
  <1>4. /\ [f EXCEPT ![h] = on] \in [Handler -> Connection] /\ [f EXCEPT ![h] = on][h] = on
        /\ \A g \in Handler : g # h => [f EXCEPT ![h] = on][g] = f[g]
    BY <1>2
  <1> QED
    BY ONLY <1>2, <1>3, <1>4, next = [f EXCEPT ![h].at = at]

\* So is one that is answered.
LEMMA ConnectionIsAnswered ==
    ASSUME conn \in [Handler -> Connection], NEW h \in Handler,
           NEW status \in {200, 400, 401, 404, 405, 500}
    PROVE  /\ Reply(h, status) \in [Handler -> Connection]
           /\ Reply(h, status)[h].at = "write" /\ Reply(h, status)[h].parts = conn[h].parts
           /\ Reply(h, status)[h].status = status
           /\ Reply(h, status)[h].request = conn[h].request
           /\ \A g \in Handler : g # h => Reply(h, status)[g] = conn[g]
  <1>1. PICK mid : mid = [conn EXCEPT ![h].at = "write"]
    OBVIOUS
  <1>2. /\ mid \in [Handler -> Connection] /\ mid[h].at = "write" /\ mid[h].parts = conn[h].parts
        /\ mid[h].request = conn[h].request
        /\ \A g \in Handler : g # h => mid[g] = conn[g]
    BY <1>1, ConnectionGoesOn
  <1>3. Reply(h, status) = [mid EXCEPT ![h].status = status]
    BY <1>1 DEF Reply
  <1>4. mid[h] \in Connection
    BY ONLY <1>2, h \in Handler
  <1> DEFINE on == [mid[h] EXCEPT !.status = status]
  <1>5. /\ on \in Connection /\ on.at = mid[h].at /\ on.parts = mid[h].parts /\ on.status = status
        /\ on.request = mid[h].request
    BY <1>4 DEF Connection
  <1> HIDE DEF on
  <1>6. Reply(h, status) = [mid EXCEPT ![h] = on]
    BY <1>3 DEF on
  <1>7. /\ [mid EXCEPT ![h] = on] \in [Handler -> Connection] /\ [mid EXCEPT ![h] = on][h] = on
        /\ \A g \in Handler : g # h => [mid EXCEPT ![h] = on][g] = mid[g]
    BY ONLY <1>2, <1>5, h \in Handler
  <1> QED
    BY ONLY <1>2, <1>5, <1>6, <1>7

\* Where one connection stands.
ConnectionIsSound(h) ==
    /\ thread[h].at # "free" <=> conn[h].at = "ingest"
    /\ conn[h].at \in {"handle", "ingest"} \/ conn[h].status = 200 => Readable(conn[h].parts)
    /\ conn[h].at # "none" => \E r \in Request : conn[h].request = {r}
    /\ up # "serving" => conn[h] = NoConn
    /\ PushIsWhole(h) /\ AnswerIsEarned(h)

\* The files a process runs with.
FilesAreSound ==
    configFile \in DOMAIN Configs /\ config \subseteq DOMAIN Configs /\ (\A name \in config : Parsed[name].ok)

\* The parts of the invariant.
LEMMA SoundParts ==
    ServerIsSound <=>
       /\ FilesAreSound /\ conn \in [Handler -> Connection]
       /\ connects \in 0..MaxConnects
       /\ \A h \in Handler : ConnectionIsSound(h)
  BY DEF ServerIsSound, ConnectionsAreSound, FilesAreSound, Connection, ConnectionIsSound

\* A connection that stays as it is, and whose thread does: nothing that was
\* stored is taken back.
LEMMA SoundStays ==
    ASSUME NEW h \in Handler, ConnectionIsSound(h), creds' = creds, ok \subseteq ok',
           up = "serving" => up' = "serving", conn'[h] = conn[h],
           thread'[h].at = thread[h].at, thread'[h].body = thread[h].body
    PROVE  ConnectionIsSound(h)'
  <1>1. PushIsWhole(h)'
    BY DEF ConnectionIsSound, PushIsWhole, Entitled
  <1>2. AnswerIsEarned(h)'
    BY DEF ConnectionIsSound, AnswerIsEarned, Entitled
  <1> QED
    BY <1>1, <1>2 DEF ConnectionIsSound

\* A step of one connection that leaves the other ones, and the files, alone.
LEMMA OneConnectionGoesOn ==
    ASSUME ServerIsSound, NEW h \in Handler, UNCHANGED startup, ok \subseteq ok', up' = up,
           connects' \in 0..MaxConnects, conn' \in [Handler -> Connection],
           \A g \in Handler : g # h => conn'[g] = conn[g] /\ thread'[g] = thread[g],
           ConnectionIsSound(h)'
    PROVE  ServerIsSound'
  <1>1. FilesAreSound'
    BY SoundParts DEF FilesAreSound, startup
  <1>2. ASSUME NEW g \in Handler, g # h
        PROVE  ConnectionIsSound(g)'
    BY <1>2, SoundParts, SoundStays DEF startup
  <1>3. \A g \in Handler : ConnectionIsSound(g)'
    BY <1>2
  <1>4. /\ FilesAreSound' /\ conn' \in [Handler -> Connection] /\ connects' \in 0..MaxConnects
        /\ \A g \in Handler : ConnectionIsSound(g)'
    BY <1>1, <1>3
  <1> QED
    BY <1>4 DEF ServerIsSound, ConnectionsAreSound, FilesAreSound, Connection, ConnectionIsSound

\* A step of the process that no connection takes part in.
LEMMA ConnectionsStay ==
    ASSUME ServerIsSound, UNCHANGED <<conn, connects, configFile, config, creds, ok, thread>>,
           up = "serving" => up' = "serving"
    PROVE  ServerIsSound'
  <1>1. \A h \in Handler : ConnectionIsSound(h)'
    BY SoundParts, SoundStays
  <1>2. FilesAreSound' /\ conn' \in [Handler -> Connection] /\ connects' \in 0..MaxConnects
    BY SoundParts DEF FilesAreSound
  <1> QED
    BY <1>1, <1>2 DEF ServerIsSound, ConnectionsAreSound, FilesAreSound, Connection, ConnectionIsSound

\* A handler that stores lines is at work before and after.
LEMMA LoopIsAtWork ==
    ASSUME TypeOK, NEW h \in Handler, Loop(h)
    PROVE  /\ thread[h].at # "free" /\ thread'[h].at # "free"
           /\ thread'[h].body = thread[h].body /\ ok' = ok /\ up' = up
           /\ \A g \in Handler : g # h => thread'[g] = thread[g]
  <1>1. h \in DOMAIN thread
    BY DEF TypeOK
  <1>2. thread' = [thread EXCEPT ![h] = thread'[h]] /\ thread'[h].at \in {"lookup", "open", "append"}
    BY <1>1 DEF TypeOK, Loop, Found, Missing, OpenSpool, AppendLines, Step
  <1>3. thread'[h].body = thread[h].body /\ ok' = ok /\ up' = up
    BY <1>1 DEF TypeOK, Loop, Found, Missing, OpenSpool, AppendLines, Step
  <1> QED
    BY <1>1, <1>2, <1>3 DEF Loop, Found, Missing, OpenSpool, AppendLines, TypeOK

\* A request that has come so far that a handler is run for it is entitled to
\* what it asks for.
LEMMA AuthorizedIsEntitled ==
    ASSUME NEW h \in Handler, ConnectionIsSound(h), conn[h].at # "none",
           NEW r \in conn[h].request, r.route \in DOMAIN Routes, Authorized(h, Routes[r.route])
    PROVE  Entitled(conn[h], r)
  <1>1. \A q \in conn[h].request : q = r
    BY DEF ConnectionIsSound
  <1> QED
    BY <1>1 DEF Authorized, Entitled

\* Only a process that serves has a connection.
LEMMA ConnectionIsServed ==
    ASSUME NEW h \in Handler, ConnectionIsSound(h), conn[h].at # "none"
    PROVE  up = "serving"
  <1>1. NoConn.at = "none"
    BY DEF NoConn
  <1> QED
    BY <1>1 DEF ConnectionIsSound

\* What a connection has to be to be answered 200.
MayBeAnswered(h) ==
    /\ Readable(conn[h].parts)
    /\ \E r \in conn[h].request :
          /\ Entitled(conn[h], r)
          /\ r.route = "ingest" =>
                /\ "envSensors" \in creds
                /\ IF "body" \in conn[h].parts THEN r.body \subseteq ok'
                   ELSE "length" \notin conn[h].parts

\* A connection that is answered is sound.
LEMMA ReplyKeeps ==
    ASSUME ServerIsSound, NEW h \in Handler, conn[h].at # "none",
           UNCHANGED <<startup, connects>>, ok \subseteq ok', up' = up,
           NEW status \in {200, 400, 401, 404, 405, 500}, conn' = Reply(h, status),
           status = 200 => MayBeAnswered(h),
           thread'[h].at = "free", \A g \in Handler : g # h => thread'[g] = thread[g]
    PROVE  ServerIsSound'
  <1>1. /\ conn \in [Handler -> Connection] /\ ConnectionIsSound(h)
        /\ connects \in 0..MaxConnects
    BY SoundParts
  <1>2. /\ conn' \in [Handler -> Connection]
        /\ conn'[h].at = "write" /\ conn'[h].parts = conn[h].parts /\ conn'[h].status = status
        /\ conn'[h].request = conn[h].request
        /\ \A g \in Handler : g # h => conn'[g] = conn[g]
    BY <1>1, ConnectionIsAnswered
  <1>3. AnswerIsEarned(h)'
    BY <1>2 DEF AnswerIsEarned, MayBeAnswered, Entitled, startup
  <1>4. PushIsWhole(h)' /\ up' = "serving"
    BY <1>1, ConnectionIsServed DEF PushIsWhole
  <1>5. ConnectionIsSound(h)'
    BY <1>1, <1>2, <1>3, <1>4 DEF ConnectionIsSound, MayBeAnswered
  <1> QED
    BY <1>1, <1>2, <1>5, OneConnectionGoesOn

\* A connection that is accepted, or read, is sound.
LEMMA ReadingKeeps ==
    ASSUME ServerIsSound, NEW h \in Handler, conn[h].at \notin {"none", "ingest"},
           UNCHANGED <<vars, startup, connects>>,
           NEW at \in {"read", "handle"}, conn' = [conn EXCEPT ![h].at = at],
           at = "handle" => Readable(conn[h].parts)
    PROVE  ServerIsSound'
  <1>1. /\ conn \in [Handler -> Connection] /\ ConnectionIsSound(h)
        /\ connects \in 0..MaxConnects
    BY SoundParts
  <1>2. /\ conn' \in [Handler -> Connection]
        /\ conn'[h].at = at /\ conn'[h].parts = conn[h].parts /\ conn'[h].status = conn[h].status
        /\ conn'[h].request = conn[h].request
    <2>1. at \in {"none", "backlog", "read", "handle", "ingest", "write"}
      OBVIOUS
    <2>2. conn' = [conn EXCEPT ![h].at = at]
      OBVIOUS
    <2> QED
      BY ONLY <1>1, <2>1, <2>2, h \in Handler, ConnectionGoesOn
  <1>3. \A g \in Handler : g # h => conn'[g] = conn[g]
    BY <1>1
  <1>4. /\ ok' = ok /\ thread' = thread /\ creds' = creds /\ up' = up /\ up = "serving"
        /\ thread[h].at = "free"
    BY <1>1, ConnectionIsServed DEF vars, startup, ConnectionIsSound
  <1>5. AnswerIsEarned(h)' /\ PushIsWhole(h)'
    BY <1>1, <1>2, <1>4 DEF ConnectionIsSound, AnswerIsEarned, PushIsWhole, Entitled
  <1>6. ConnectionIsSound(h)'
    BY <1>1, <1>2, <1>4, <1>5 DEF ConnectionIsSound
  <1> QED
    BY <1>1, <1>2, <1>3, <1>4, <1>6, OneConnectionGoesOn

\* A connection is served from its request to its answer.
LEMMA ServingKeeps ==
    ASSUME IngestInv, ServerIsSound, NEW h \in Handler, Serving(h)
    PROVE  ServerIsSound'
  <1>1. /\ conn \in [Handler -> Connection] /\ ConnectionIsSound(h)
        /\ connects \in 0..MaxConnects
    BY SoundParts
  <1>2. conn[h].at # "ingest" => thread[h].at = "free"
    BY <1>1 DEF ConnectionIsSound
  <1>3. ASSUME UNCHANGED vars
        PROVE  ok' = ok /\ up' = up /\ \A g \in Handler : thread'[g] = thread[g]
    BY <1>3 DEF vars
  <1>4. CASE Accept(h)
    BY <1>4, ReadingKeeps DEF Accept
  <1>5. CASE Read(h)
    <2>1. CASE Readable(conn[h].parts)
      BY <1>5, <2>1, ReadingKeeps DEF Read
    <2>2. CASE ~Readable(conn[h].parts)
      BY <1>2, <1>3, <1>5, <2>2, ReplyKeeps DEF Read
    <2> QED
      BY <2>1, <2>2
  <1>6. CASE ReadTimeout(h)
    BY <1>2, <1>3, <1>6, ReplyKeeps DEF ReadTimeout
  <1>7. CASE Refuse(h)
    <2>1. PICK status \in {200, 400, 401, 404, 405, 500} : conn' = Reply(h, status) /\ status # 200
      BY <1>7 DEF Refuse
    <2> QED
      BY <1>2, <1>3, <1>7, <2>1, ReplyKeeps DEF Refuse
  <1>8. CASE Run(h)
    <2>1. /\ conn[h].at = "handle" /\ UNCHANGED <<vars, startup, connects>>
          /\ conn' = Reply(h, 200)
      BY <1>8 DEF Run
    <2>2. PICK r \in conn[h].request :
             r.route \in DOMAIN Routes \ {"ingest"} /\ Authorized(h, Routes[r.route])
      BY <1>8 DEF Run
    <2>3. Entitled(conn[h], r) /\ r.route # "ingest" /\ Readable(conn[h].parts)
      BY <1>1, <2>1, <2>2, AuthorizedIsEntitled DEF ConnectionIsSound
    <2>4. MayBeAnswered(h)
      BY <2>3 DEF MayBeAnswered
    <2> QED
      BY <1>2, <1>3, <2>1, <2>4, ReplyKeeps
  <1>9. CASE Push(h)
    <2>1. conn[h].at = "handle" /\ UNCHANGED <<startup, connects>> /\ thread[h].at = "free"
      BY <1>2, <1>9 DEF Push
    <2>2. PICK r \in conn[h].request :
             /\ r.route = "ingest" /\ Authorized(h, "basic")
             /\ IF "body" \in conn[h].parts
                THEN (\E b \in r.body : Begin(h, b)) /\ conn' = [conn EXCEPT ![h].at = "ingest"]
                ELSE conn' = Reply(h, 200) /\ UNCHANGED vars
      BY <1>9 DEF Push
    <2>3. Routes[r.route] = "basic" /\ r.route \in DOMAIN Routes
      BY <2>2 DEF Routes
    <2>4. Entitled(conn[h], r) /\ Readable(conn[h].parts) /\ "envSensors" \in creds
      BY <1>1, <2>1, <2>2, <2>3, AuthorizedIsEntitled DEF ConnectionIsSound, Authorized
    <2>5. CASE "body" \notin conn[h].parts
      <3>1. MayBeAnswered(h)
        BY <2>4, <2>5 DEF MayBeAnswered, Readable
      <3> QED
        BY <1>3, <2>1, <2>2, <2>5, <3>1, ReplyKeeps
    <2>6. CASE "body" \in conn[h].parts
      <3>1. PICK b \in r.body : Begin(h, b) /\ conn' = [conn EXCEPT ![h].at = "ingest"]
        BY <2>2, <2>6
      <3>2. /\ conn' \in [Handler -> Connection]
            /\ conn'[h].at = "ingest" /\ conn'[h].parts = conn[h].parts
            /\ conn'[h].status = conn[h].status /\ conn'[h].request = conn[h].request
        BY <1>1, <3>1, ConnectionGoesOn
      <3>3. /\ thread'[h].at = "lookup" /\ thread'[h].body = {b} /\ ok' = ok /\ up' = up
            /\ \A g \in Handler : g # h => thread'[g] = thread[g] /\ conn'[g] = conn[g]
        BY <1>1, <3>1 DEF Begin, IngestInv, TypeOK
      <3>4. r.body = {b}
        BY <1>1, <2>1, <3>1, ServerAssumption DEF ConnectionIsSound
      <3>5. creds' = creds
        BY <2>1 DEF startup
      <3>6. PushIsWhole(h)'
        BY <2>2, <2>4, <2>6, <3>2, <3>3, <3>4, <3>5 DEF PushIsWhole, Entitled
      <3>7. AnswerIsEarned(h)'
        BY <1>1, <3>2, <3>3, <3>5 DEF ConnectionIsSound, AnswerIsEarned, Entitled
      <3>8. up = "serving"
        BY <1>1, <2>1, ConnectionIsServed
      <3>9. ConnectionIsSound(h)'
        <4>1. \E q \in Request : conn'[h].request = {q}
          BY <1>1, <2>1, <3>2 DEF ConnectionIsSound
        <4>2. thread'[h].at # "free" /\ Readable(conn'[h].parts) /\ up' = "serving"
          BY <2>4, <3>2, <3>3, <3>8
        <4> QED
          BY <3>2, <3>6, <3>7, <4>1, <4>2 DEF ConnectionIsSound
      <3> QED
        BY <1>1, <2>1, <3>2, <3>3, <3>9, OneConnectionGoesOn
    <2> QED
      BY <2>5, <2>6
  <1>10. CASE PushOn(h)
    <2>1. /\ thread[h].at # "free" /\ thread'[h].at # "free"
          /\ thread'[h].body = thread[h].body /\ ok' = ok /\ up' = up
          /\ \A g \in Handler : g # h => thread'[g] = thread[g]
      BY <1>10, LoopIsAtWork DEF PushOn, IngestInv
    <2>2. conn' = conn /\ creds' = creds /\ connects' = connects /\ UNCHANGED startup
      BY <1>10 DEF PushOn, startup
    <2>3. PushIsWhole(h)' /\ AnswerIsEarned(h)'
      BY <1>1, <2>1, <2>2 DEF ConnectionIsSound, PushIsWhole, AnswerIsEarned, Entitled
    <2>4. ConnectionIsSound(h)'
      BY <1>1, <2>1, <2>2, <2>3 DEF ConnectionIsSound
    <2> QED
      BY <1>1, <2>1, <2>2, <2>4, OneConnectionGoesOn
  <1>11. CASE PushEnd(h)
    <2>1. /\ conn[h].at = "ingest" /\ UNCHANGED <<startup, connects>>
          /\ thread' = [thread EXCEPT ![h] = Free] /\ ok \subseteq ok' /\ up' = up
      BY <1>11 DEF PushEnd, Answer, Error
    <2>2. thread'[h].at = "free" /\ \A g \in Handler : g # h => thread'[g] = thread[g]
      BY <2>1 DEF IngestInv, TypeOK, Free
    <2>3. CASE Answer(h) /\ conn' = Reply(h, 200)
      <3>1. PICK r \in conn[h].request :
               /\ Entitled(conn[h], r) /\ thread[h].body = r.body
               /\ "body" \in conn[h].parts /\ "envSensors" \in creds
        BY <1>1, <2>1 DEF ConnectionIsSound, PushIsWhole
      <3>2. r.body \subseteq ok'
        BY <2>3, <3>1 DEF Answer
      <3>3. MayBeAnswered(h)
        BY <1>1, <2>1, <3>1, <3>2 DEF MayBeAnswered, ConnectionIsSound
      <3> QED
        BY <2>1, <2>2, <2>3, <3>3, ReplyKeeps
    <2>4. CASE conn' = Reply(h, 500)
      BY <2>1, <2>2, <2>4, ReplyKeeps
    <2> QED
      BY <1>11, <2>3, <2>4 DEF PushEnd
  <1>12. CASE Write(h)
    <2>1. NoConn \in Connection /\ NoConn.at = "none" /\ NoConn.status = 0
      BY DEF NoConn, Connection
    <2>2. /\ conn' = [conn EXCEPT ![h] = NoConn] /\ conn[h].at = "write"
          /\ UNCHANGED <<vars, startup, connects>>
      BY <1>12 DEF Write
    <2>3. /\ conn' \in [Handler -> Connection] /\ conn'[h] = NoConn
          /\ \A g \in Handler : g # h => conn'[g] = conn[g]
      BY <1>1, <2>1, <2>2
    <2>4. thread'[h].at = "free"
      BY <1>2, <1>3, <2>2
    <2>5. ConnectionIsSound(h)'
      BY <2>1, <2>3, <2>4 DEF ConnectionIsSound, PushIsWhole, AnswerIsEarned
    <2> QED
      BY <1>1, <1>3, <2>2, <2>3, <2>5, OneConnectionGoesOn
  <1> QED
    BY <1>4, <1>5, <1>6, <1>7, <1>8, <1>9, <1>10, <1>11, <1>12 DEF Serving

\* A connection is made, with a part of a request or all of it.
LEMMA ConnectKeeps ==
    ASSUME ServerIsSound, NEW h \in Handler, NEW r \in Request, Connect(h, r)
    PROVE  ServerIsSound'
  <1>1. /\ conn \in [Handler -> Connection] /\ ConnectionIsSound(h)
        /\ connects \in 0..MaxConnects
    BY SoundParts
  <1>2. PICK n \in 0..Len(Parts(r)), end \in {"reads", "closes", "silent"} :
          conn' = [conn EXCEPT ![h] = [at |-> "backlog", request |-> {r}, end |-> end,
                                       parts |-> Range(SubSeq(Parts(r), 1, n)), status |-> 0]]
    BY DEF Connect
  <1> DEFINE made == [at |-> "backlog", request |-> {r}, end |-> end,
                      parts |-> Range(SubSeq(Parts(r), 1, n)), status |-> 0]
  <1>3. Range(SubSeq(Parts(r), 1, n)) \subseteq {"line", "auth", "length", "body"}
    <2> DEFINE S == {"line", "auth", "length", "body"}
    <2>1. "line" \in S /\ "auth" \in S /\ "length" \in S /\ "body" \in S
      OBVIOUS
    <2> HIDE DEF S
    <2>2. <<"line", "auth">> \in Seq(S) /\ <<"line", "auth", "length", "body">> \in Seq(S)
      BY <2>1
    <2>3. Parts(r) \in Seq(S)
      BY <2>2 DEF Parts
    <2>4. SubSeq(Parts(r), 1, n) \in Seq(S)
      BY <2>3
    <2>5. Range(SubSeq(Parts(r), 1, n)) \subseteq S
      BY <2>4 DEF Range
    <2> QED
      BY <2>5 DEF S
  <1>4. made \in Connection
    BY <1>3 DEF Connection
  <1>5. made.at = "backlog" /\ made.status = 0 /\ made.request = {r}
    OBVIOUS
  <1> HIDE DEF made
  <1>6. conn' \in [Handler -> Connection] /\ conn'[h] = made
        /\ \A g \in Handler : g # h => conn'[g] = conn[g]
    BY <1>1, <1>2, <1>4 DEF made
  <1>7. /\ thread[h].at = "free" /\ UNCHANGED <<vars, startup>> /\ connects' \in 0..MaxConnects
        /\ up = "serving"
    <2>1. NoConn.at = "none"
      BY DEF NoConn
    <2> QED
      BY <1>1, <2>1, ServerAssumption DEF Connect, ConnectionIsSound
  <1>8. ConnectionIsSound(h)'
    BY <1>5, <1>6, <1>7 DEF ConnectionIsSound, PushIsWhole, AnswerIsEarned, vars
  <1> QED
    BY <1>6, <1>7, <1>8, OneConnectionGoesOn DEF vars

\* The starts and ends of the process.
LEMMA ProcessKeeps ==
    ASSUME IngestInv, ServerIsSound,
           Startup \/ StartFails \/ Stop \/ Upload \/ \E u \in Units : TokenCut(u)
    PROVE  ServerIsSound'
  <1>1. CASE \E u \in Units : TokenBegin(u) \/ TokenEnd(u) \/ TokenCut(u)
    BY <1>1, ConnectionsStay DEF TokenBegin, TokenEnd, TokenCut, vars
  <1>2. CASE StartOn
    BY <1>2, ConnectionsStay DEF StartOn, StartPoller, Serve, startup
  <1>3. CASE StartFails \/ Upload
    BY <1>3, ConnectionsStay DEF StartFails, OpenFails, Upload, startup, vars
  <1>4. CASE Start
    <2>1. config' = {configFile} /\ Parsed[configFile].ok /\ configFile \in DOMAIN Configs
      BY <1>4, SoundParts DEF Start, FilesGood, FilesAreSound
    <2>2. FilesAreSound'
      BY <2>1, <1>4 DEF FilesAreSound, Start
    <2>3. up = "down" /\ UNCHANGED <<thread, conn, connects, ok>>
      BY <1>4 DEF Start, Open
    <2>4. \A h \in Handler : thread[h].at = "free"
      BY <2>3 DEF IngestInv, ThreadsAreSound
    <2>5. NoConn.at = "none" /\ NoConn.status = 0
      BY DEF NoConn
    <2>6. \A h \in Handler : conn[h] = NoConn
      BY <2>3, SoundParts DEF ConnectionIsSound
    <2>7. \A h \in Handler : ConnectionIsSound(h)'
      BY <2>3, <2>4, <2>5, <2>6 DEF ConnectionIsSound, PushIsWhole, AnswerIsEarned
    <2>8. conn' \in [Handler -> Connection] /\ connects' \in 0..MaxConnects
      BY <2>3, SoundParts
    <2> QED
      BY <2>2, <2>7, <2>8
         DEF ServerIsSound, ConnectionsAreSound, FilesAreSound, Connection, ConnectionIsSound
  <1>5. CASE Stop
    <2>1. NoConn \in Connection /\ NoConn.at = "none" /\ NoConn.status = 0
      BY DEF NoConn, Connection
    <2>2. /\ conn' = [h \in Handler |-> NoConn] /\ thread' = [h \in Handler |-> Free]
          /\ config' = {} /\ configFile' \in DOMAIN Configs /\ connects' = connects
      BY <1>5 DEF Stop, Crash
    <2>3. \A h \in Handler : ConnectionIsSound(h)'
      BY <2>1, <2>2 DEF ConnectionIsSound, PushIsWhole, AnswerIsEarned, Free
    <2> QED
      BY <2>1, <2>2, <2>3 DEF ServerIsSound, ConnectionsAreSound, Connection, ConnectionIsSound
  <1> QED
    BY <1>1, <1>2, <1>3, <1>4, <1>5 DEF Startup

\* Before the first start there is no connection.
LEMMA ServerStarts == AInit => ServerIsSound
  <1> SUFFICES ASSUME AInit
               PROVE  ServerIsSound
    OBVIOUS
  <1>1. NoConn \in Connection /\ NoConn.at = "none" /\ NoConn.status = 0
    BY DEF NoConn, Connection
  <1>2. conn \in [Handler -> Connection] /\ \A h \in Handler : conn[h] = NoConn
    BY <1>1 DEF AInit
  <1>3. \A h \in Handler : ConnectionIsSound(h)
    BY <1>1, <1>2 DEF AInit, Init, Free, ConnectionIsSound, PushIsWhole, AnswerIsEarned
  <1>4. FilesAreSound /\ connects \in 0..MaxConnects
    BY ServerAssumption DEF AInit, FilesAreSound
  <1> QED
    BY <1>2, <1>3, <1>4, SoundParts

\* What the invariants say of the answers and of the files a process runs with.
LEMMA SoundIsWhole ==
    ASSUME IngestInv, ServerIsSound
    PROVE  WholePushes
  <1>1. ASSUME NEW name \in config, NEW m \in polled
        PROVE  Parsed[name].value[PollerOf[m]].poll_interval_seconds >= 1
    <2>1. PollerOf[m] \in {"env", "kasa"}
      BY ServerAssumption DEF IngestInv, TypeOK
    <2>2. name \in DOMAIN Configs /\ Parsed[name].ok
      BY SoundParts DEF FilesAreSound
    <2>3. Parsed[name] = config_from_json(Configs[name])
      BY <2>2 DEF Parsed
    <2> QED
      BY <2>1, <2>2, <2>3, IntervalsAreClamped
  <1> QED
    BY <1>1 DEF WholePushes, ServerIsSound

\* Whatever arrives of a request, whenever the process stops, and whatever its
\* files hold: the set of spools is sound (IngestSafe) under the accept loop and
\* the starts of the process too; only the whole body of a push with the right
\* password is stored; and a 200 answers a request of a route there is, with the
\* token of that route, and, if it is a push with a body, a stored one
\* (read_request in http.rs, handle and ingest in api.rs, main.rs).  A push whose
\* stream ends before its length is answered 200 and stores nothing.
THEOREM ServerSafe == ASpec => [](IngestInv /\ WholePushes)
  <1>1. AInit => IngestInv /\ ServerIsSound
    BY IngestStarts, ServerStarts DEF AInit
  <1>2. ASSUME IngestInv, ServerIsSound, [ANext]_avars
        PROVE  IngestInv' /\ ServerIsSound'
    <2>1. IngestInv'
      BY <1>2, TokenCutKeeps, ServerStepIsIngest, IngestGoesOn
    <2>2. ServerIsSound'
      <3>1. CASE UNCHANGED avars
        BY <1>2, <3>1, ConnectionsStay DEF avars, startup, vars
      <3>2. CASE ANext
        BY <1>2, <3>2, ProcessKeeps, ServingKeeps, ConnectKeeps DEF ANext
      <3> QED
        BY <1>2, <3>1, <3>2
    <2> QED
      BY <2>1, <2>2
  <1>3. IngestInv /\ ServerIsSound => WholePushes
    BY SoundIsWhole
  <1> QED
    BY <1>1, <1>2, <1>3, PTL DEF ASpec

=============================================================================
