-------------------------- MODULE ResearchRowProofs --------------------------
(***************************************************************************)
(* Theorems about the rows of Research: they stay coherent under every     *)
(* interleaving and fault; with one request at a time a settled task is    *)
(* opened again only when it is due, and the pipeline implements           *)
(* ResearchContract; until a fault no row is abandoned and attempts are    *)
(* bounded.                                                                *)
(***************************************************************************)
EXTENDS ResearchProofs

Running(w) == worker[w].pc \in {"claim", "searching"}

\* RowCoherent in two parts: the columns of each row ...
RowsCoherent == \A f \in Facts : Coherent(task[f])

\* ... and what its reference points to.
ResultsStored == \A f \in Facts : task[f].result => f \in stored

\* A batch is a set of open tasks of the run's bike.
BatchOpen ==
    \A w \in Workers : Running(w) => \A f \in worker[w].batch :
        BikeOf[f] = worker[w].bike /\ Open(task[f])

RowInv == RowsCoherent /\ BatchOpen

-----------------------------------------------------------------------------
(* Each writer of a row leaves a coherent row. *)

\* Rows that requests write.
LEMMA RequestRows ==
  /\ Coherent(Absent)
  /\ Coherent(Fresh) /\ Open(Fresh)
  /\ \A row \in RowType : Coherent(Requeued(row)) /\ Open(Requeued(row))
  BY DEF Coherent, Settled, Open, Absent, Fresh, Requeued, KnowledgeReasons, Null, RowType

\* A claim of an open row leaves an open, coherent row.
LEMMA ClaimedRow ==
  ASSUME NEW row \in RowType, Coherent(row), Open(row),
         NEW n \in 0..AttemptCap, NEW age \in 0..Horizon
  PROVE  Coherent(Claimed(row, n, age)) /\ Claimed(row, n, age).state = "searching"
<1>1. (IF age < StaleAfter THEN age ELSE StaleAfter) # Null
  BY TimeAssumption DEF Null
<1> QED
  BY <1>1 DEF Coherent, Settled, Open, Claimed, RowType, KnowledgeReasons

\* A recheck date is missing for not_applicable only.
LEMMA RecheckMissing ==
  ASSUME NEW reason \in Reasons, NEW age \in Nat, NEW release \in Nat
  PROVE  RecheckAfter(reason, age, release) # Null <=> reason # "not_applicable"
<1>1. /\ Remaining(KnowledgeCooldown, age) \in Nat
      /\ Remaining(ExhaustedCooldown, age) \in Nat
  BY TimeAssumption, RemainingType
<1>2. /\ Remaining(KnowledgeCooldown, age) # Null
      /\ Remaining(ExhaustedCooldown, age) # Null
      /\ release # Null
  BY <1>1 DEF Null
<1> QED
  BY <1>2 DEF RecheckAfter, Reasons, KnowledgeReasons

\* A failure memoized with its recheck date is coherent and settled.
LEMMA MemoizedRow ==
  ASSUME NEW row \in RowType, NEW reason \in Reasons,
         NEW recheck \in Nat \cup {Null}, recheck # Null <=> reason # "not_applicable"
  PROVE  Coherent(Memoized(row, reason, recheck)) /\ ~Open(Memoized(row, reason, recheck))
  BY DEF Coherent, Settled, Open, Memoized, RowType, Reasons, KnowledgeReasons

\* A found task is coherent and settled.
LEMMA MarkedFoundRow ==
  ASSUME NEW row \in RowType
  PROVE  Coherent(MarkedFound(row)) /\ ~Open(MarkedFound(row))
  BY DEF Coherent, Settled, Open, MarkedFound, RowType, KnowledgeReasons

\* A failed attempt on an open, coherent row leaves a coherent row that is queued
\* or failed.
LEMMA ExecutionFailedRow ==
  ASSUME NEW row \in RowType, Coherent(row), Open(row),
         NEW n \in 1..AttemptCap, NEW age \in 0..Horizon
  PROVE  /\ Coherent(ExecutionFailed(row, n, age))
         /\ ExecutionFailed(row, n, age).state # "searching"
<1>1. CASE n >= MaxAttempts
  <2>1. "retries_exhausted" \in Reasons /\ "retries_exhausted" # "not_applicable"
    BY DEF Reasons
  <2>2. age \in Nat /\ 0 \in Nat
    BY TimeAssumption
  <2>3. RecheckAfter("retries_exhausted", age, Null)
          = RecheckAfter("retries_exhausted", age, 0)
    BY DEF RecheckAfter
  <2>4. /\ RecheckAfter("retries_exhausted", age, Null) # Null
        /\ RecheckAfter("retries_exhausted", age, Null) \in Nat \cup {Null}
    BY <2>1, <2>2, <2>3, RecheckMissing, RecheckAfterType
  <2>5. /\ Coherent(Memoized(row, "retries_exhausted", RecheckAfter("retries_exhausted", age, Null)))
        /\ ~Open(Memoized(row, "retries_exhausted", RecheckAfter("retries_exhausted", age, Null)))
    BY <2>1, <2>4, MemoizedRow
  <2> QED
    BY <1>1, <2>5 DEF ExecutionFailed, Open
<1>2. CASE ~(n >= MaxAttempts)
  BY <1>2 DEF ExecutionFailed, Coherent, Settled, Open, RowType, KnowledgeReasons
<1> QED
  BY <1>1, <1>2

\* Time passing keeps a row coherent and its state as it is.
LEMMA AgedRow ==
  ASSUME NEW row \in RowType, Coherent(row),
         NEW aged, aged = [row EXCEPT !.recheck = Down(@), !.next = Down(@),
                                      !.attempted = Older(@, StaleAfter)]
  PROVE  Coherent(aged) /\ aged.state = row.state
<1>1. /\ Down(row.recheck) = Null <=> row.recheck = Null
      /\ row.next = Null => Down(row.next) = Null
  BY DEF RowType, Down, Null
<1>2. row.attempted # Null => Older(row.attempted, StaleAfter) # Null
  BY TimeAssumption DEF RowType, Older, Null
<1> QED
  BY <1>1, <1>2 DEF Coherent, Settled, RowType

-----------------------------------------------------------------------------
(* Rows are coherent, and a run's batch stays open until the run settles it. *)

LEMMA RowInit == Init => RowInv
<1> SUFFICES ASSUME Init PROVE RowInv
  OBVIOUS
<1>1. RowsCoherent
  BY RequestRows DEF Init, RowsCoherent
<1>2. BatchOpen
  BY DEF Init, BatchOpen, Running, IdleWorker
<1> QED
  BY <1>1, <1>2 DEF RowInv

\* What the search of a batch may do to a row of it.
LEMMA SearchEndsRows ==
  ASSUME TypeInv, RowInv, NEW w \in Workers, SearchEnds(w), NEW f \in Facts
  PROVE  /\ f \notin worker[w].batch => task'[f] = task[f]
         /\ Coherent(task'[f])
         /\ f \in worker[w].batch => task'[f].state # "searching"
<1>1. /\ worker[w] \in WorkerType /\ worker[w].pc = "searching"
      /\ task[f] \in RowType /\ Coherent(task[f])
      /\ f \in worker[w].batch => Open(task[f])
  BY DEF SearchEnds, Resolve, ExecutionError, TypeInv, TypeOK, RowInv, RowsCoherent,
         BatchOpen, Running
<1>2. worker[w].age \in 0..Horizon /\ worker[w].age \in Nat
  BY <1>1, TimeAssumption DEF WorkerType
<1>3. CASE ExecutionError(w)
  <2>1. CASE f \in worker[w].batch
    <3>1. task'[f] = ExecutionFailed(task[f], worker[w].attempts[f], worker[w].age)
      BY <1>3, <2>1 DEF ExecutionError
    <3>2. worker[w].attempts[f] \in 1..AttemptCap
      BY <1>1, <2>1, AttemptsAssumption DEF WorkerType, TypeInv, ClaimedCounts
    <3> QED
      BY <1>1, <1>2, <2>1, <3>1, <3>2, ExecutionFailedRow
  <2>2. CASE f \notin worker[w].batch
    BY <1>1, <1>3, <2>2 DEF ExecutionError
  <2> QED
    BY <2>1, <2>2
<1>4. CASE Resolve(w)
  <2>1. PICK outcome \in [worker[w].batch -> Outcomes], release \in ReleaseDelays :
           task' = [g \in Facts |->
                IF g \notin worker[w].batch THEN task[g]
                ELSE IF outcome[g] = "found" THEN MarkedFound(task[g])
                ELSE Memoized(task[g], outcome[g],
                              RecheckAfter(outcome[g], worker[w].age, release))]
    BY <1>4 DEF Resolve
  <2>2. CASE f \notin worker[w].batch
    BY <1>1, <2>1, <2>2
  <2>3. CASE f \in worker[w].batch /\ outcome[f] = "found"
    <3>1. task'[f] = MarkedFound(task[f])
      BY <2>1, <2>3
    <3> QED
      BY <1>1, <2>3, <3>1, MarkedFoundRow DEF Open
  <2>4. CASE f \in worker[w].batch /\ outcome[f] # "found"
    <3>1. task'[f] = Memoized(task[f], outcome[f],
                              RecheckAfter(outcome[f], worker[w].age, release))
      BY <2>1, <2>4
    <3>2. outcome[f] \in Reasons /\ release \in Nat
      BY <2>4, OutcomesAssumption, TimeAssumption DEF Reasons
    <3>3. /\ RecheckAfter(outcome[f], worker[w].age, release) \in Nat \cup {Null}
          /\ RecheckAfter(outcome[f], worker[w].age, release) # Null
                <=> outcome[f] # "not_applicable"
      BY <1>2, <3>2, RecheckMissing, RecheckAfterType
    <3> QED
      BY <1>1, <2>4, <3>1, <3>2, <3>3, MemoizedRow DEF Open
  <2> QED
    BY <2>2, <2>3, <2>4
<1> QED
  BY <1>3, <1>4 DEF SearchEnds

LEMMA RowStep == TypeInv /\ PoolInv /\ RowInv /\ [Next]_vars => RowInv'
<1> SUFFICES ASSUME TypeInv, PoolInv, RowInv, [Next]_vars PROVE RowInv'
  OBVIOUS
<1> USE DEF RowInv
<1>type. TypeOK
  BY DEF TypeInv
<1>rows. \A f \in Facts : task[f] \in RowType /\ Coherent(task[f])
  BY DEF TypeInv, TypeOK, RowsCoherent
<1>1. CASE UNCHANGED <<task, worker>>
  BY <1>1 DEF RowsCoherent, BatchOpen, Running
<1>2. ASSUME NEW h \in Handlers, Save(h) PROVE RowInv'
  <2>1. \A f \in Facts : task'[f] = SavedRow(f, handler[h])
    BY <1>2 DEF Save
  <2>2. \A f \in Facts : \/ task'[f] = task[f]
                         \/ Coherent(task'[f]) /\ Open(task'[f])
    BY <1>rows, <2>1, RequestRows DEF SavedRow
  <2>3. RowsCoherent'
    BY <1>rows, <2>2 DEF RowsCoherent
  <2>4. worker' = worker
    BY <1>2 DEF Save
  <2>5. \A w \in Workers : worker[w].batch \in SUBSET Facts
    BY <1>type DEF TypeOK, WorkerType
  <2>6. BatchOpen'
    BY <2>2, <2>4, <2>5 DEF BatchOpen, Running
  <2> QED
    BY <2>3, <2>6
<1>3. ASSUME NEW w \in Workers, NEW wk, ~(wk.pc \in {"claim", "searching"}),
             worker' = [worker EXCEPT ![w] = wk], UNCHANGED task
      PROVE  RowInv'
  BY <1>3, <1>type DEF RowsCoherent, BatchOpen, Running, TypeOK
<1>4. ASSUME NEW w \in Workers, Start(w) PROVE RowInv'
  <2>1. /\ task' = task
        /\ \A v \in Workers : v # w => worker'[v] = worker[v]
        /\ worker'[w].bike = Head(queue)
        /\ worker'[w].batch = {f \in FactsOf(Head(queue)) : Eligible(task[f])}
    <3> DEFINE b == Head(queue)
               batch == {f \in FactsOf(b) : Eligible(task[f])}
               wk == [pc |-> IF batch = {} THEN "finishing" ELSE "claim",
                      bike |-> b, batch |-> batch,
                      attempts |-> [f \in Facts |-> IF f \in batch
                                                      THEN task[f].attempts ELSE 0],
                      age |-> 0]
    <3>1. worker' = [worker EXCEPT ![w] = wk] /\ task' = task
      BY <1>4 DEF Start
    <3>2. wk.bike = b /\ wk.batch = batch
      OBVIOUS
    <3> HIDE DEF wk, batch, b
    <3>3. /\ \A v \in Workers : v # w => worker'[v] = worker[v]
          /\ worker'[w] = wk
      BY <1>type, <3>1 DEF TypeOK
    <3> QED
      BY <3>1, <3>2, <3>3 DEF batch, b
  <2>2. \A f \in worker'[w].batch : BikeOf[f] = worker'[w].bike /\ Open(task[f])
    BY <2>1 DEF FactsOf, Eligible, Open
  <2>3. BatchOpen'
    BY <2>1, <2>2 DEF BatchOpen, Running
  <2> QED
    BY <2>1, <2>3 DEF RowsCoherent
<1>5. ASSUME NEW w \in Workers, Claim(w) PROVE RowInv'
  <2>1. worker[w] \in WorkerType /\ Running(w)
    BY <1>5, <1>type DEF Claim, TypeOK, Running
  <2>2. \A f \in Facts : \/ task'[f] = task[f]
                         \/ Coherent(task'[f]) /\ task'[f].state = "searching"
    <3>1. ASSUME NEW f \in Facts, f \in worker[w].batch
          PROVE  Coherent(task'[f]) /\ task'[f].state = "searching"
      <4>1. task'[f] = Claimed(task[f], worker[w].attempts[f], worker[w].age)
        BY <1>5, <3>1 DEF Claim
      <4>2. worker[w].attempts[f] \in 0..AttemptCap /\ worker[w].age \in 0..Horizon
        BY <2>1 DEF WorkerType
      <4>3. Open(task[f])
        BY <2>1, <3>1 DEF BatchOpen
      <4> QED
        BY <1>rows, <4>1, <4>2, <4>3, ClaimedRow
    <3>2. ASSUME NEW f \in Facts, f \notin worker[w].batch PROVE task'[f] = task[f]
      BY <1>5, <3>2 DEF Claim
    <3> QED
      BY <3>1, <3>2
  <2>3. RowsCoherent'
    BY <1>rows, <2>2 DEF RowsCoherent
  <2>4. /\ \A v \in Workers : v # w => worker'[v] = worker[v]
        /\ worker'[w].bike = worker[w].bike /\ worker'[w].batch = worker[w].batch
    BY <1>5, <1>type, <2>1 DEF Claim, TypeOK, WorkerType
  <2>5. \A v \in Workers : worker[v].batch \in SUBSET Facts
    BY <1>type DEF TypeOK, WorkerType
  <2>6. BatchOpen'
    BY <2>1, <2>2, <2>4, <2>5 DEF BatchOpen, Running, Open
  <2> QED
    BY <2>3, <2>6
<1>6. ASSUME NEW w \in Workers, SearchEnds(w) PROVE RowInv'
  <2>1. RowsCoherent'
    BY <1>6, SearchEndsRows DEF RowsCoherent
  <2>2. /\ Running(w) /\ Busy(w)
        /\ worker' = [worker EXCEPT ![w] = Finishing(worker[w].bike)]
    BY <1>6 DEF SearchEnds, Resolve, ExecutionError, Running, Busy
  <2>3. ASSUME NEW v \in Workers, Running(v)'
        PROVE  v # w /\ worker'[v] = worker[v] /\ Running(v) /\ Busy(v)
    BY <1>type, <2>2, <2>3 DEF TypeOK, Running, Busy, Finishing, IdleWorker
  <2>4. ASSUME NEW v \in Workers, Running(v)', NEW f, f \in worker'[v].batch
        PROVE  BikeOf[f] = worker'[v].bike /\ Open(task'[f])
    <3>1. v # w /\ worker'[v] = worker[v] /\ Running(v) /\ Busy(v)
      BY <2>3, <2>4
    <3>2. BikeOf[f] = worker[v].bike /\ Open(task[f])
      BY <2>4, <3>1 DEF BatchOpen
    <3>3. worker[v].bike # worker[w].bike
      BY <2>2, <3>1 DEF PoolInv, OneRunPerBike
    <3>4. f \notin worker[w].batch
      BY <2>2, <3>2, <3>3 DEF BatchOpen
    <3>5. f \in Facts
      BY <2>4, <3>1, <1>type DEF TypeOK, WorkerType
    <3>6. task'[f] = task[f]
      BY <1>6, <3>4, <3>5, SearchEndsRows
    <3> QED
      BY <3>1, <3>2, <3>6
  <2>5. BatchOpen'
    BY <2>4 DEF BatchOpen
  <2> QED
    BY <2>1, <2>5
<1>7. ASSUME NEW w \in Workers, JobDone(w) PROVE RowInv'
  <2>1. IdleWorker.pc = "idle"
    BY DEF IdleWorker
  <2> QED
    BY <1>3, <1>7, <2>1 DEF JobDone
<1>8. ASSUME NEW w \in Workers, Unexpected(w) PROVE RowInv'
  <2>1. Finishing(worker[w].bike).pc = "finishing"
    BY DEF Finishing, IdleWorker
  <2> QED
    BY <1>3, <1>8, <2>1 DEF Unexpected
<1>9. CASE Crash
  BY <1>9 DEF Crash, RowsCoherent, BatchOpen, Running, IdleWorker
<1>10. CASE Tick
  <2>1. \A f \in Facts : Coherent(task'[f]) /\ task'[f].state = task[f].state
    BY <1>10, <1>rows, AgedRow DEF Tick
  <2>2. \A w \in Workers : /\ worker'[w].pc = worker[w].pc
                           /\ worker'[w].bike = worker[w].bike
                           /\ worker'[w].batch = worker[w].batch
                           /\ worker[w].batch \in SUBSET Facts
    BY <1>10, <1>type DEF Tick, TypeOK, WorkerType
  <2> QED
    BY <2>1, <2>2 DEF RowsCoherent, BatchOpen, Running, Open
<1>11. ASSUME NEW h \in Handlers, NEW f \in Facts, Request(h, f) PROVE RowInv'
  BY <1>1, <1>11 DEF Request
<1>12. ASSUME NEW h \in Handlers, NEW b \in Bikes, Populate(h, b) \/ Poll(h, b)
       PROVE  RowInv'
  BY <1>1, <1>12 DEF Populate, Poll
<1>13. ASSUME NEW h \in Handlers, Find(h) \/ Dispatch(h) PROVE RowInv'
  BY <1>1, <1>13 DEF Find, Dispatch
<1>14. CASE Shutdown \/ Restart \/ UNCHANGED vars
  BY <1>1, <1>14 DEF Shutdown, Restart, vars
<1> QED
  BY <1>2, <1>4, <1>5, <1>6, <1>7, <1>8, <1>9, <1>10, <1>11, <1>12, <1>13, <1>14
     DEF Next, HandlerStep

LEMMA RowInvariant == Spec => [](TypeInv /\ PoolInv /\ RowInv)
<1>1. Spec => [](TypeInv /\ PoolInv)
  BY BaseInvariant
<1>2. Init => RowInv
  BY RowInit
<1>3. (TypeInv /\ PoolInv) /\ RowInv /\ [Next]_vars => RowInv'
  BY RowStep
<1> QED
  BY <1>1, <1>2, <1>3, PTL DEF Spec

-----------------------------------------------------------------------------
(* References are written with the values they point to, and never reset.     *)

\* What a search does to the reference of a row.
LEMMA SearchEndsResults ==
  ASSUME TypeInv, RowInv, NEW w \in Workers, SearchEnds(w), NEW f \in Facts
  PROVE  /\ stored \subseteq stored'
         /\ \/ task'[f] = task[f]
            \/ task'[f].result /\ task'[f].state = "found" /\ f \in stored'
            \/ /\ task'[f].result = task[f].result
               /\ Open(task[f]) /\ task'[f].state # "found"
<1>1. /\ worker[w] \in WorkerType /\ worker[w].pc = "searching"
      /\ task[f] \in RowType
      /\ f \in worker[w].batch => Open(task[f])
  BY DEF SearchEnds, Resolve, ExecutionError, TypeInv, TypeOK, RowInv, BatchOpen, Running
<1>2. CASE f \notin worker[w].batch
  BY <1>2, SearchEndsRows DEF SearchEnds, Resolve, ExecutionError
<1>3. CASE f \in worker[w].batch /\ ExecutionError(w)
  <2>1. task'[f] = ExecutionFailed(task[f], worker[w].attempts[f], worker[w].age)
    BY <1>3 DEF ExecutionError
  <2>2. task'[f].result = task[f].result /\ task'[f].state # "found"
    BY <1>1, <2>1 DEF ExecutionFailed, Memoized, RowType
  <2> QED
    BY <1>1, <1>3, <2>2 DEF ExecutionError
<1>4. CASE f \in worker[w].batch /\ Resolve(w)
  <2>1. PICK outcome \in [worker[w].batch -> Outcomes], release \in ReleaseDelays :
           /\ task' = [g \in Facts |->
                IF g \notin worker[w].batch THEN task[g]
                ELSE IF outcome[g] = "found" THEN MarkedFound(task[g])
                ELSE Memoized(task[g], outcome[g],
                              RecheckAfter(outcome[g], worker[w].age, release))]
           /\ stored' = stored \cup {g \in worker[w].batch : outcome[g] = "found"}
    BY <1>4 DEF Resolve
  <2>2. CASE outcome[f] = "found"
    <3>1. task'[f] = MarkedFound(task[f]) /\ f \in stored'
      BY <1>4, <2>1, <2>2
    <3>2. task'[f].result /\ task'[f].state = "found"
      BY <1>1, <3>1 DEF MarkedFound, RowType
    <3> QED
      BY <2>1, <3>1, <3>2
  <2>3. CASE outcome[f] # "found"
    <3>1. task'[f] = Memoized(task[f], outcome[f],
                              RecheckAfter(outcome[f], worker[w].age, release))
      BY <1>4, <2>1, <2>3
    <3>2. task'[f].result = task[f].result /\ task'[f].state # "found"
      BY <1>1, <3>1 DEF Memoized, RowType
    <3> QED
      BY <1>1, <1>4, <2>1, <3>2
  <2> QED
    BY <2>2, <2>3
<1> QED
  BY <1>2, <1>3, <1>4 DEF SearchEnds

\* What a step does to the reference of a row: it keeps it, on a row that is found or
\* not as before or that is re-queued; or the row is found with a stored result; or a
\* row without a reference is new.
LEMMA ResultStep ==
  ASSUME TypeInv, RowInv, [Next]_vars, NEW f \in Facts
  PROVE  /\ stored \subseteq stored'
         /\ \/ /\ task'[f].result = task[f].result
               /\ task'[f].state = "found" <=> task[f].state = "found"
            \/ task'[f].result /\ task'[f].state = "found" /\ f \in stored'
            \/ /\ task'[f].result = task[f].result
               /\ Settled(task[f]) /\ Open(task'[f])
            \/ ~task'[f].result /\ task'[f].state # "found"
<1>type. TypeOK /\ task[f] \in RowType
  BY DEF TypeInv, TypeOK
<1>1. ASSUME NEW h \in Handlers, Save(h)
      PROVE  \/ /\ task'[f].result = task[f].result
                /\ task'[f].state = "found" <=> task[f].state = "found"
             \/ /\ task'[f].result = task[f].result
                /\ Settled(task[f]) /\ Open(task'[f])
             \/ ~task'[f].result /\ task'[f].state # "found"
  <2>1. \/ task'[f] = task[f]
        \/ task'[f] = Fresh
        \/ task'[f] = Requeued(task[f])
    BY <1>1 DEF Save, SavedRow
  <2>2. CASE task'[f] = Fresh
    BY <2>2 DEF Fresh
  <2>3. CASE task'[f] = Requeued(task[f])
    <3>1. task'[f].result = task[f].result /\ task'[f].state = "queued"
      BY <2>3 DEF Requeued, Fresh
    <3> QED
      BY <3>1 DEF Settled, Open
  <2> QED
    BY <2>1, <2>2, <2>3
<1>2. ASSUME NEW w \in Workers, Claim(w)
      PROVE  /\ task'[f].result = task[f].result
             /\ task'[f].state = "found" <=> task[f].state = "found"
  <2>1. CASE f \in worker[w].batch
    <3>1. task'[f] = Claimed(task[f], worker[w].attempts[f], worker[w].age)
      BY <1>2, <2>1 DEF Claim
    <3>2. task[f].state # "found"
      BY <1>2, <2>1 DEF Claim, RowInv, BatchOpen, Running, Open
    <3> QED
      BY <1>type, <3>1, <3>2 DEF Claimed, RowType
  <2>2. CASE f \notin worker[w].batch
    BY <1>2, <2>2 DEF Claim
  <2> QED
    BY <2>1, <2>2
<1>3. ASSUME Tick
      PROVE  task'[f].result = task[f].result /\ task'[f].state = task[f].state
  BY <1>3, <1>type DEF Tick, RowType
<1>4. ASSUME NEW w \in Workers, SearchEnds(w)
      PROVE  /\ stored \subseteq stored'
             /\ \/ /\ task'[f].result = task[f].result
                   /\ task'[f].state = "found" <=> task[f].state = "found"
                \/ task'[f].result /\ task'[f].state = "found" /\ f \in stored'
  BY <1>4, SearchEndsResults DEF Open
<1>5. (\E w \in Workers : SearchEnds(w)) \/ stored' = stored
  BY DEF Next, HandlerStep, vars, Request, Populate, Poll, Find, Save, Dispatch,
     Start, Claim, JobDone, Unexpected, Crash, Shutdown, Restart, Tick
<1>6. \/ \E h \in Handlers : Save(h)
      \/ \E w \in Workers : Claim(w)
      \/ \E w \in Workers : SearchEnds(w)
      \/ Tick
      \/ task' = task
  BY DEF Next, HandlerStep, vars, Request, Populate, Poll, Find, Dispatch,
     Start, JobDone, Unexpected, Crash, Shutdown, Restart
<1> QED
  BY <1>1, <1>2, <1>3, <1>4, <1>5, <1>6

LEMMA ResultsInit == Init => ResultsStored
  BY DEF Init, ResultsStored, Absent, Fresh

LEMMA ResultsStep ==
  ASSUME TypeInv, RowInv, ResultsStored, [Next]_vars
  PROVE  ResultsStored'
<1> SUFFICES ASSUME NEW f \in Facts, task'[f].result PROVE f \in stored'
  BY DEF ResultsStored
<1>1. task[f].result => f \in stored
  BY DEF ResultsStored
<1> QED
  BY <1>1, ResultStep

\* The columns of every row agree with its state, a found row has its reference, and
\* every reference points to a stored fact, for any number of requests, runs and faults.
THEOREM RowsStayCoherent == Spec => []RowCoherent
<1>1. RowInv /\ ResultsStored => RowCoherent
  BY DEF RowInv, RowsCoherent, ResultsStored, RowCoherent
<1>2. TypeInv /\ RowInv /\ ResultsStored /\ [Next]_vars => ResultsStored'
  BY ResultsStep
<1> QED
  BY <1>1, <1>2, ResultsInit, RowInvariant, PTL DEF Spec


-----------------------------------------------------------------------------
(* With one request at a time, what a request found expired stays expired    *)
(* until it writes, so it opens a settled task only when that one is due.    *)

OneRequestAtATime == \A g, h \in Handlers : g = h

ExpiredKept ==
    \A h \in Handlers : handler[h].pc = "save" =>
        \A f \in handler[h].expired : Expired(task[f])

\* A run writes only to open rows.
LEMMA RunsWriteOpenRows ==
  ASSUME TypeInv, RowInv, NEW w \in Workers, Claim(w) \/ SearchEnds(w), NEW f \in Facts
  PROVE  task'[f] = task[f] \/ Open(task[f])
<1>1. CASE Claim(w)
  <2>1. f \in worker[w].batch => Open(task[f])
    BY <1>1 DEF Claim, RowInv, BatchOpen, Running
  <2>2. f \notin worker[w].batch => task'[f] = task[f]
    BY <1>1 DEF Claim, TypeInv, TypeOK
  <2> QED
    BY <2>1, <2>2
<1>2. CASE SearchEnds(w)
  <2>1. f \in worker[w].batch => Open(task[f])
    BY <1>2 DEF SearchEnds, Resolve, ExecutionError, RowInv, BatchOpen, Running
  <2> QED
    BY <1>2, <2>1, SearchEndsRows
<1> QED
  BY <1>1, <1>2

LEMMA ExpiredStep ==
  ASSUME OneRequestAtATime, TypeInv, RowInv, ExpiredKept, [Next]_vars
  PROVE  ExpiredKept'
<1>type. TypeOK
  BY DEF TypeInv
<1>1. CASE UNCHANGED <<task, handler>>
  BY <1>1 DEF ExpiredKept
<1>2. ASSUME NEW h \in Handlers, UNCHANGED task, NEW hd,
             handler' = [handler EXCEPT ![h] = hd],
             hd.pc = "save" => \A f \in hd.expired : Expired(task[f])
      PROVE  ExpiredKept'
  BY <1>2, <1>type DEF ExpiredKept, TypeOK
<1>3. ASSUME NEW b, NEW want
      PROVE  \A f \in Loaded(b, want).expired : Expired(task[f])
  BY DEF Loaded
<1>4. ASSUME NEW h \in Handlers, NEW f \in Facts, Request(h, f) PROVE ExpiredKept'
  BY <1>2, <1>3, <1>4 DEF Request
<1>5. ASSUME NEW h \in Handlers, Find(h) PROVE ExpiredKept'
  BY <1>2, <1>3, <1>5 DEF Find
<1>6. ASSUME NEW h \in Handlers, NEW b \in Bikes, Populate(h, b) \/ Poll(h, b)
      PROVE  ExpiredKept'
  <2> DEFINE hd == handler'[h]
  <2>1. UNCHANGED task /\ handler' = [handler EXCEPT ![h] = hd] /\ hd.pc # "save"
    BY <1>6, <1>type DEF Populate, Poll, IdleHandler, TypeOK
  <2> HIDE DEF hd
  <2> QED
    BY <1>2, <2>1
<1>7. ASSUME NEW h \in Handlers, Save(h) PROVE ExpiredKept'
  <2>1. handler'[h].pc # "save"
    BY <1>7, <1>type DEF Save, IdleHandler, TypeOK
  <2> QED
    BY <2>1 DEF ExpiredKept, OneRequestAtATime
<1>8. ASSUME NEW h \in Handlers, Dispatch(h) PROVE ExpiredKept'
  <2>1. IdleHandler.pc # "save" /\ UNCHANGED task
    BY <1>8 DEF IdleHandler, Dispatch
  <2> QED
    BY <1>2, <1>8, <2>1 DEF Dispatch
<1>9. ASSUME NEW w \in Workers, Claim(w) \/ SearchEnds(w) PROVE ExpiredKept'
  <2>1. handler' = handler
    BY <1>9 DEF Claim, SearchEnds, Resolve, ExecutionError
  <2>2. \A h \in Handlers : handler[h].expired \in SUBSET Facts
    BY <1>type DEF TypeOK, HandlerType
  <2>3. \A f \in Facts : Expired(task[f]) => task'[f] = task[f]
    BY <1>9, RunsWriteOpenRows DEF Expired, Open
  <2> QED
    BY <2>1, <2>2, <2>3 DEF ExpiredKept
<1>10. ASSUME NEW w \in Workers, Start(w) \/ JobDone(w) \/ Unexpected(w) PROVE ExpiredKept'
  BY <1>1, <1>10 DEF Start, JobDone, Unexpected
<1>11. CASE Crash
  BY <1>11 DEF Crash, ExpiredKept, IdleHandler
<1>12. CASE Tick
  BY <1>12 DEF Tick, Prompt, ExpiredKept
<1>13. CASE Shutdown \/ Restart \/ UNCHANGED vars
  BY <1>1, <1>13 DEF Shutdown, Restart, vars
<1> QED
  BY <1>4, <1>5, <1>6, <1>7, <1>8, <1>9, <1>10, <1>11, <1>12, <1>13 DEF Next, HandlerStep

\* A step opens a settled row only if its recheck date has passed.
LEMMA ReopenStep ==
  ASSUME TypeInv, RowInv, ExpiredKept, [Next]_vars, NEW f \in Facts,
         Settled(task[f]), Open(task'[f])
  PROVE  task[f].recheck = 0
<1>type. TypeOK
  BY DEF TypeInv
<1>1. task'[f] # task[f] /\ ~Open(task[f])
  BY DEF Settled, Open
<1>2. ASSUME NEW h \in Handlers, Save(h) PROVE task[f].recheck = 0
  <2>1. task'[f] = SavedRow(f, handler[h])
    BY <1>2 DEF Save
  <2>2. f \in handler[h].expired
    BY <1>1, <2>1 DEF SavedRow, Settled
  <2> QED
    BY <1>2, <2>2 DEF Save, ExpiredKept, Expired
<1>3. ASSUME NEW w \in Workers, Claim(w) \/ SearchEnds(w) PROVE FALSE
  BY <1>1, <1>3, RunsWriteOpenRows
<1>4. ASSUME Tick PROVE FALSE
  <2>1. task'[f].state = task[f].state
    BY <1>4, <1>type DEF Tick, TypeOK, RowType
  <2> QED
    BY <1>1, <2>1 DEF Open
<1>5. ~UNCHANGED task
  BY <1>1
<1> QED
  BY <1>2, <1>3, <1>4, <1>5 DEF Next, HandlerStep, vars, Request, Populate, Poll, Find,
     Dispatch, Start, JobDone, Unexpected, Crash, Shutdown, Restart

\* Research once: served one request at a time, what was found is never searched
\* again and a memoized failure not before its recheck date, whatever runs fail.
THEOREM ResearchedOnce ==
  ASSUME OneRequestAtATime
  PROVE  Spec => ReopenedOnlyWhenDue
<1>1. Init => ExpiredKept
  BY DEF Init, ExpiredKept, IdleHandler
<1>2. TypeInv /\ RowInv /\ ExpiredKept /\ [Next]_vars => ExpiredKept'
  BY ExpiredStep
<1>3. TypeInv /\ RowInv /\ ExpiredKept /\ [Next]_vars
        => [\A f \in Facts : Settled(task[f]) /\ Open(task'[f])
                => task[f].recheck = 0]_vars
  BY ReopenStep
<1> QED
  BY <1>1, <1>2, <1>3, RowInvariant, PTL DEF Spec, ReopenedOnlyWhenDue

\* Only found rows refer to a result: the rows that may be re-queued have none.
LEMMA CurrentStep ==
  ASSUME TypeInv, RowInv, ExpiredKept, ResultsAreCurrent, [Next]_vars
  PROVE  ResultsAreCurrent'
<1> SUFFICES ASSUME NEW f \in Facts
             PROVE  task'[f].result <=> task'[f].state = "found"
  BY DEF ResultsAreCurrent
<1>1. task[f] \in RowType /\ task'[f] \in RowType
  BY TypeStep DEF TypeInv, TypeOK
<1>2. task[f].result <=> task[f].state = "found"
  BY DEF ResultsAreCurrent
<1>3. ASSUME Settled(task[f]), Open(task'[f])
      PROVE  task[f].state # "found" /\ task'[f].state # "found"
  <2>1. task[f].recheck = 0
    BY <1>3, ReopenStep
  <2>2. Coherent(task[f]) /\ task[f].recheck # Null
    BY <2>1 DEF RowInv, RowsCoherent, Null
  <2> QED
    BY <1>3, <2>2 DEF Coherent, Open
<1> QED
  BY <1>1, <1>2, <1>3, ResultStep

\* Served one request at a time, exactly the rows that are found refer to a result,
\* whatever runs fail.
THEOREM ReferencesStayCurrent ==
  ASSUME OneRequestAtATime
  PROVE  Spec => []ResultsAreCurrent
<1>1. Init => ExpiredKept
  BY DEF Init, ExpiredKept, IdleHandler
<1>2. TypeInv /\ RowInv /\ ExpiredKept /\ [Next]_vars => ExpiredKept'
  BY ExpiredStep
<1>3. Init => ResultsAreCurrent
  BY DEF Init, ResultsAreCurrent, Absent, Fresh
<1>4. TypeInv /\ RowInv /\ ExpiredKept /\ ResultsAreCurrent /\ [Next]_vars
        => ResultsAreCurrent'
  BY CurrentStep
<1> QED
  BY <1>1, <1>2, <1>3, <1>4, RowInvariant, PTL DEF Spec

-----------------------------------------------------------------------------
(* Until a fault no row is abandoned, so no attempt goes uncounted.           *)

AllOwned ==
    \A f \in Facts : task[f].state = "searching" =>
        \E w \in Workers : worker[w].pc = "searching" /\ f \in worker[w].batch

\* The counts of the table stay below those of the runs, and a run is started
\* only for a task that may be tried once more.
AttemptInv ==
    /\ \A f \in Facts : task[f].state = "queued" => task[f].attempts < MaxAttempts
    /\ \A w \in Workers : worker[w].pc = "claim" => \A f \in worker[w].batch :
          task[f].state = "queued" /\ worker[w].attempts[f] < MaxAttempts
    /\ \A w \in Workers : worker[w].pc = "searching" => \A f \in worker[w].batch :
          worker[w].attempts[f] <= MaxAttempts /\ task[f].attempts <= worker[w].attempts[f]

OwnInv == AllOwned /\ AttemptsBounded /\ AttemptInv

LEMMA OwnInit == Init => OwnInv
<1> SUFFICES ASSUME Init PROVE OwnInv
  OBVIOUS
<1>1. \A f \in Facts : task[f].state = "absent" /\ task[f].attempts = 0
  BY DEF Init, Absent, Fresh
<1>2. \A w \in Workers : worker[w].pc = "idle"
  BY DEF Init, IdleWorker
<1> QED
  BY <1>1, <1>2, AttemptsAssumption DEF OwnInv, AllOwned, AttemptsBounded, AttemptInv

\* What the end of a search does to the attempt count and the state of a row.
LEMMA SearchEndsAttempts ==
  ASSUME TypeInv, OwnInv, NEW w \in Workers, SearchEnds(w),
         NEW f \in Facts, f \in worker[w].batch
  PROVE  /\ task'[f].attempts = task[f].attempts
         /\ task'[f].state = "queued" => task'[f].attempts < MaxAttempts
<1>1. task[f] \in RowType /\ worker[w] \in WorkerType /\ worker[w].pc = "searching"
  BY DEF SearchEnds, Resolve, ExecutionError, TypeInv, TypeOK
<1>2. CASE ExecutionError(w)
  <2> DEFINE n == worker[w].attempts[f]
  <2>1. task'[f] = ExecutionFailed(task[f], n, worker[w].age)
    BY <1>2 DEF ExecutionError
  <2>2. task[f].attempts <= n /\ n \in Nat /\ task[f].attempts \in Nat
    BY <1>1, AttemptsAssumption DEF OwnInv, AttemptInv, WorkerType, RowType
  <2> HIDE DEF n
  <2>3. CASE n >= MaxAttempts
    BY <1>1, <2>1, <2>3 DEF ExecutionFailed, Memoized, RowType
  <2>4. CASE ~(n >= MaxAttempts)
    BY <1>1, <2>1, <2>2, <2>4, AttemptsAssumption DEF ExecutionFailed, RowType
  <2> QED
    BY <2>3, <2>4
<1>3. CASE Resolve(w)
  <2>1. PICK outcome \in [worker[w].batch -> Outcomes], release \in ReleaseDelays :
           task' = [g \in Facts |->
                IF g \notin worker[w].batch THEN task[g]
                ELSE IF outcome[g] = "found" THEN MarkedFound(task[g])
                ELSE Memoized(task[g], outcome[g],
                              RecheckAfter(outcome[g], worker[w].age, release))]
    BY <1>3 DEF Resolve
  <2> QED
    BY <1>1, <2>1 DEF MarkedFound, Memoized, RowType
<1> QED
  BY <1>2, <1>3 DEF SearchEnds

LEMMA OwnStep ==
  ASSUME faults' = 0, TypeInv, PoolInv, RowInv, OwnInv, [Next]_vars
  PROVE  OwnInv'
<1>type. TypeOK
  BY DEF TypeInv
<1>rows. \A f \in Facts : task[f] \in RowType /\ task[f].attempts \in Nat
  BY <1>type, AttemptsAssumption DEF TypeOK, RowType
<1>batch. \A w \in Workers : worker[w] \in WorkerType /\ worker[w].batch \in SUBSET Facts
  BY <1>type DEF TypeOK, WorkerType
<1> USE DEF OwnInv
<1>1. CASE UNCHANGED <<task, worker>>
  BY <1>1 DEF AllOwned, AttemptsBounded, AttemptInv
<1>2. ASSUME NEW h \in Handlers, Save(h) PROVE OwnInv'
  <2>1. \A f \in Facts : task'[f] = SavedRow(f, handler[h])
    BY <1>2 DEF Save
  <2>2. /\ Fresh.state = "queued" /\ Fresh.attempts = 0
        /\ \A row : Requeued(row).state = "queued" /\ Requeued(row).attempts = 0
    BY DEF Fresh, Requeued
  <2>3. \A f \in Facts :
           task'[f] = task[f] \/ (task'[f].state = "queued" /\ task'[f].attempts = 0)
    BY <2>1, <2>2 DEF SavedRow
  <2>4. worker' = worker
    BY <1>2 DEF Save
  <2>5. AllOwned'
    BY <2>3, <2>4 DEF AllOwned
  <2>6. AttemptsBounded'
    BY <2>3, AttemptsAssumption DEF AttemptsBounded
  <2>7. \A f \in Facts : task'[f].state = "queued" => task'[f].attempts < MaxAttempts
    BY <2>3, AttemptsAssumption DEF AttemptInv
  <2>8. \A w \in Workers : worker[w].pc = "searching" => \A f \in worker[w].batch :
           worker[w].attempts[f] <= MaxAttempts /\ task'[f].attempts <= worker[w].attempts[f]
    <3>1. ASSUME NEW w \in Workers, worker[w].pc = "searching", NEW f, f \in worker[w].batch
          PROVE  /\ worker[w].attempts[f] <= MaxAttempts
                 /\ task'[f].attempts <= worker[w].attempts[f]
      <4>1. f \in Facts /\ worker[w].attempts[f] \in Nat
        BY <1>batch, <3>1, AttemptsAssumption DEF WorkerType
      <4>2. /\ worker[w].attempts[f] <= MaxAttempts
            /\ task[f].attempts <= worker[w].attempts[f]
        BY <3>1 DEF AttemptInv
      <4> QED
        BY <2>3, <4>1, <4>2
    <3> QED
      BY <3>1
  <2>9. AttemptInv'
    BY <1>batch, <2>3, <2>4, <2>7, <2>8 DEF AttemptInv
  <2> QED
    BY <2>5, <2>6, <2>9
<1>3. ASSUME NEW w \in Workers, Start(w) PROVE OwnInv'
  <2> DEFINE b == Head(queue)
             batch == {f \in FactsOf(b) : Eligible(task[f])}
             counts == [f \in Facts |-> IF f \in batch THEN task[f].attempts ELSE 0]
  <2>1. /\ task' = task
        /\ worker' = [worker EXCEPT ![w] =
               [pc |-> IF batch = {} THEN "finishing" ELSE "claim",
                bike |-> b, batch |-> batch, attempts |-> counts, age |-> 0]]
        /\ worker[w].pc = "idle"
    BY <1>3 DEF Start
  <2>2. /\ \A v \in Workers : v # w => worker'[v] = worker[v]
        /\ worker'[w].pc \in {"finishing", "claim"}
        /\ worker'[w].batch = batch /\ worker'[w].attempts = counts
    <3> HIDE DEF batch, b, counts
    <3> QED
      BY <1>type, <2>1 DEF TypeOK
  <2>3. jobs[b] = "pending" /\ b \in Bikes
    <3>1. queue \in Seq(Bikes) /\ queue # <<>>
      BY <1>3, <1>type DEF Start, TypeOK
    <3>2. 1 \in 1..Len(queue) /\ queue[1] = b /\ b \in Bikes
      BY <3>1
    <3> QED
      BY <3>2 DEF PoolInv, JobsAreLive
  <2>4. ASSUME NEW f \in Facts, f \in batch PROVE task[f].state = "queued"
    <3>1. BikeOf[f] = b
      BY <2>4 DEF FactsOf
    <3>2. ASSUME task[f].state = "searching" PROVE FALSE
      <4>1. PICK v \in Workers : worker[v].pc = "searching" /\ f \in worker[v].batch
        BY <3>2 DEF AllOwned
      <4>2. worker[v].bike = b /\ Busy(v)
        BY <3>1, <4>1 DEF RowInv, BatchOpen, Running, Busy
      <4> QED
        BY <2>3, <4>2 DEF PoolInv, JobsAreLive
    <3> QED
      BY <2>4, <3>2 DEF Eligible
  <2>5. \A f \in batch : f \in Facts /\ counts[f] = task[f].attempts
    BY DEF FactsOf
  <2> HIDE DEF batch, b, counts
  <2>6. \A f \in batch : task[f].state = "queued" /\ counts[f] < MaxAttempts
    BY <2>4, <2>5 DEF AttemptInv
  <2>7. AttemptInv'
    BY <2>1, <2>2, <2>6 DEF AttemptInv
  <2>8. AllOwned'
    BY <2>1, <2>2 DEF AllOwned
  <2> QED
    BY <2>1, <2>7, <2>8 DEF AttemptsBounded
<1>4. ASSUME NEW w \in Workers, Claim(w) PROVE OwnInv'
  <2> DEFINE row(f) == Claimed(task[f], worker[w].attempts[f], worker[w].age)
  <2>1. worker[w].pc = "claim"
    BY <1>4 DEF Claim
  <2>2. /\ \A f \in Facts : f \in worker[w].batch => task'[f] = row(f)
        /\ \A f \in Facts : f \notin worker[w].batch => task'[f] = task[f]
    BY <1>4 DEF Claim
  <2>3. /\ \A v \in Workers : v # w => worker'[v] = worker[v]
        /\ worker'[w].pc = "searching" /\ worker'[w].batch = worker[w].batch
        /\ \A f \in worker[w].batch : worker'[w].attempts[f] = row(f).attempts
    BY <1>4, <1>type, <1>batch DEF Claim, TypeOK, WorkerType
  <2>4. \A f \in worker[w].batch :
           /\ row(f).state = "searching"
           /\ row(f).attempts \in Nat /\ row(f).attempts <= MaxAttempts
    <3>1. ASSUME NEW f, f \in worker[w].batch
          PROVE  /\ row(f).state = "searching"
                 /\ row(f).attempts \in Nat /\ row(f).attempts <= MaxAttempts
      <4>1. f \in Facts /\ worker[w].attempts[f] \in Nat /\ worker[w].attempts[f] < MaxAttempts
        BY <1>batch, <2>1, <3>1, AttemptsAssumption DEF AttemptInv, WorkerType
      <4>2. worker[w].attempts[f] < AttemptCap
        BY <4>1, AttemptsAssumption
      <4>3. row(f).state = "searching" /\ row(f).attempts = worker[w].attempts[f] + 1
        BY <1>rows, <4>1, <4>2 DEF Claimed, RowType
      <4> QED
        BY <4>1, <4>3, AttemptsAssumption
    <3> QED
      BY <3>1
  <2> HIDE DEF row
  <2>5. AllOwned'
    BY <2>1, <2>2, <2>3 DEF AllOwned
  <2>6. AttemptsBounded'
    BY <2>2, <2>4 DEF AttemptsBounded
  <2>7. ASSUME NEW v \in Workers, v # w, Running(v), NEW f, f \in worker[v].batch
        PROVE  f \notin worker[w].batch
    <3>1. Busy(v) /\ Busy(w) /\ Running(w)
      BY <2>1, <2>7 DEF Busy, Running
    <3>2. worker[v].bike # worker[w].bike
      BY <2>7, <3>1 DEF PoolInv, OneRunPerBike
    <3> QED
      BY <2>7, <3>1, <3>2 DEF RowInv, BatchOpen
  <2>8. \A f \in Facts : task'[f].state = "queued" => task'[f].attempts < MaxAttempts
    BY <2>2, <2>4 DEF AttemptInv
  <2>9. \A v \in Workers : worker'[v].pc = "claim" => \A f \in worker'[v].batch :
           task'[f].state = "queued" /\ worker'[v].attempts[f] < MaxAttempts
    BY <1>batch, <2>2, <2>3, <2>7 DEF AttemptInv, Running
  <2>10. \A v \in Workers : worker'[v].pc = "searching" => \A f \in worker'[v].batch :
            /\ worker'[v].attempts[f] <= MaxAttempts
            /\ task'[f].attempts <= worker'[v].attempts[f]
    <3>1. \A f \in worker[w].batch : /\ worker'[w].attempts[f] <= MaxAttempts
                                     /\ task'[f].attempts <= worker'[w].attempts[f]
      BY <1>batch, <2>2, <2>3, <2>4
    <3>2. ASSUME NEW v \in Workers, v # w, worker[v].pc = "searching",
                 NEW f, f \in worker[v].batch
          PROVE  task'[f] = task[f]
      BY <1>batch, <2>2, <2>7, <3>2 DEF Running
    <3> QED
      BY <2>3, <3>1, <3>2 DEF AttemptInv
  <2> QED
    BY <2>5, <2>6, <2>8, <2>9, <2>10 DEF AttemptInv
<1>5. ASSUME NEW w \in Workers, SearchEnds(w) PROVE OwnInv'
  <2>1. /\ worker[w].pc = "searching"
        /\ worker' = [worker EXCEPT ![w] = Finishing(worker[w].bike)]
    BY <1>5 DEF SearchEnds, Resolve, ExecutionError
  <2>2. /\ \A v \in Workers : v # w => worker'[v] = worker[v]
        /\ worker'[w].pc = "finishing"
    BY <1>type, <2>1 DEF TypeOK, Finishing, IdleWorker
  <2>3. \A f \in Facts : f \notin worker[w].batch => task'[f] = task[f]
    BY <1>5, SearchEndsRows
  <2>4. \A f \in Facts : f \in worker[w].batch =>
           /\ task'[f].state # "searching"
           /\ task'[f].attempts = task[f].attempts
           /\ task'[f].state = "queued" => task'[f].attempts < MaxAttempts
    BY <1>5, SearchEndsRows, SearchEndsAttempts
  <2>5. AllOwned'
    BY <2>2, <2>3, <2>4 DEF AllOwned
  <2>6. AttemptsBounded'
    BY <2>3, <2>4 DEF AttemptsBounded
  <2>7. ASSUME NEW v \in Workers, v # w, Running(v), NEW f, f \in worker[v].batch
        PROVE  task'[f] = task[f]
    <3>1. Busy(v) /\ Busy(w) /\ Running(w)
      BY <2>1, <2>7 DEF Busy, Running
    <3>2. worker[v].bike # worker[w].bike
      BY <2>7, <3>1 DEF PoolInv, OneRunPerBike
    <3>3. f \in Facts /\ f \notin worker[w].batch
      BY <1>batch, <2>7, <3>1, <3>2 DEF RowInv, BatchOpen
    <3> QED
      BY <2>3, <3>3
  <2>8. AttemptInv'
    BY <2>2, <2>3, <2>4, <2>7 DEF AttemptInv, Running
  <2> QED
    BY <2>5, <2>6, <2>8
<1>6. ASSUME NEW w \in Workers, JobDone(w) PROVE OwnInv'
  <2>1. /\ \A v \in Workers : v # w => worker'[v] = worker[v]
        /\ worker[w].pc = "finishing" /\ worker'[w].pc = "idle" /\ task' = task
    BY <1>6, <1>type DEF JobDone, TypeOK, IdleWorker
  <2> QED
    BY <2>1 DEF AllOwned, AttemptsBounded, AttemptInv
<1>7. CASE Tick
  <2>1. \A f \in Facts : /\ task'[f].state = task[f].state
                         /\ task'[f].attempts = task[f].attempts
    BY <1>7, <1>rows DEF Tick, RowType
  <2>2. \A w \in Workers : /\ worker'[w].pc = worker[w].pc
                           /\ worker'[w].batch = worker[w].batch
                           /\ worker'[w].attempts = worker[w].attempts
    BY <1>7, <1>batch DEF Tick, WorkerType
  <2> QED
    BY <1>batch, <2>1, <2>2 DEF AllOwned, AttemptsBounded, AttemptInv
<1>8. ASSUME NEW kind, Fault(kind) PROVE FALSE
  BY <1>8, <1>type DEF Fault, TypeOK
<1>9. ASSUME NEW h \in Handlers, NEW f \in Facts, Request(h, f) PROVE OwnInv'
  BY <1>1, <1>9 DEF Request
<1>10. ASSUME NEW h \in Handlers, NEW b \in Bikes, Populate(h, b) \/ Poll(h, b)
       PROVE  OwnInv'
  BY <1>1, <1>10 DEF Populate, Poll
<1>11. ASSUME NEW h \in Handlers, Find(h) \/ Dispatch(h) PROVE OwnInv'
  BY <1>1, <1>11 DEF Find, Dispatch
<1>12. CASE Restart \/ UNCHANGED vars
  BY <1>1, <1>12 DEF Restart, vars
<1> QED
  BY <1>2, <1>3, <1>4, <1>5, <1>6, <1>7, <1>8, <1>9, <1>10, <1>11, <1>12
     DEF Next, HandlerStep, Crash, Shutdown, Unexpected

\* A fault cannot be taken back, so what holds until one needs no more than that.
UntilFault == faults = 0 => OwnInv

LEMMA UntilFaultStep ==
  ASSUME TypeInv, PoolInv, RowInv, UntilFault, [Next]_vars
  PROVE  UntilFault'
<1> SUFFICES ASSUME faults' = 0 PROVE OwnInv'
  BY DEF UntilFault
<1>type. faults \in Nat
  BY AttemptsAssumption DEF TypeInv, TypeOK
<1>1. ASSUME NEW kind, Fault(kind) PROVE FALSE
  BY <1>1, <1>type DEF Fault
<1>2. UNCHANGED faults
  BY <1>1 DEF Next, HandlerStep, SearchEnds, vars, Request, Populate, Poll, Find, Save,
     Dispatch, Start, Claim, Resolve, ExecutionError, JobDone, Unexpected, Crash, Shutdown,
     Restart, Tick
<1> QED
  BY <1>2, OwnStep DEF UntilFault

LEMMA OwnInvariant == Spec => []UntilFault
<1>1. Init => UntilFault
  BY OwnInit DEF UntilFault
<1>2. TypeInv /\ PoolInv /\ RowInv /\ UntilFault /\ [Next]_vars => UntilFault'
  BY UntilFaultStep
<1> QED
  BY <1>1, <1>2, RowInvariant, PTL DEF Spec

\* Until a fault every searching row has its run.
THEOREM NoAbandonedSearch == Spec => []SearchingIsOwned
<1>1. UntilFault => SearchingIsOwned
  BY DEF UntilFault, OwnInv, AllOwned, SearchingIsOwned
<1> QED
  BY <1>1, OwnInvariant, PTL

\* Until a fault no fact is searched more than max_attempts times in a row, although
\* requests may reset a count that a run is working with.
THEOREM TriesStayBounded == Spec => []TriesBounded
<1>1. UntilFault => TriesBounded
  BY DEF UntilFault, OwnInv, TriesBounded
<1> QED
  BY <1>1, OwnInvariant, PTL

-----------------------------------------------------------------------------
(* Served one request at a time, Research implements ResearchContract: its   *)
(* initial state maps to the contract's, and each of its steps to a step of  *)
(* the contract or to none.                                                  *)

\* What the mapping makes of a row.
LEMMA AnswerOfRow ==
  ASSUME NEW row
  PROVE  /\ row.state = "absent" => AnswerOf(row) = "unasked"
         /\ Open(row) => AnswerOf(row) = "researching"
         /\ row.state = "found" => AnswerOf(row) = "found"
         /\ row.state \in {"not_found", "failed"} => AnswerOf(row) \in Contract!Failures
         /\ Expired(row) => AnswerOf(row) = "expired"
<1>1. CASE row.state = "absent"
  BY <1>1 DEF AnswerOf, Open, Expired
<1>2. CASE Open(row)
  BY <1>2 DEF AnswerOf, Open, Expired
<1>3. CASE row.state = "found"
  BY <1>3 DEF AnswerOf, Open, Expired
<1>4. CASE row.state \in {"not_found", "failed"}
  <2>1. row.state # "absent" /\ ~Open(row) /\ row.state # "found"
    BY <1>4 DEF Open
  <2>2. AnswerOf(row) = IF row.recheck = Null THEN "never"
                        ELSE IF row.recheck = 0 THEN "expired" ELSE "memoized"
    BY <1>4, <2>1 DEF AnswerOf
  <2>3. 0 # Null
    BY DEF Null
  <2> QED
    BY <2>1, <2>2, <2>3 DEF Contract!Failures, Expired
<1> QED
  BY <1>1, <1>2, <1>3, <1>4 DEF Expired

-----------------------------------------------------------------------------
(* Steps of the contract, recognised by what they do to each answer.         *)

LEMMA StutterStep ==
  ASSUME UNCHANGED stored, \A f \in Facts : AnswerOf(task'[f]) = AnswerOf(task[f])
  PROVE  UNCHANGED Contract!vars
BY DEF Contract!vars

LEMMA AskStep ==
  ASSUME UNCHANGED stored,
         \A f \in Facts : \/ AnswerOf(task'[f]) = AnswerOf(task[f])
                          \/ /\ AnswerOf(task[f]) \in {"unasked", "expired"}
                             /\ AnswerOf(task'[f]) = "researching"
  PROVE  Contract!Next
<1> DEFINE S == {f \in Facts : AnswerOf(task'[f]) # AnswerOf(task[f])}
<1>1. Contract!Ask(S)
  BY DEF Contract!Ask
<1> QED
  BY <1>1 DEF Contract!Next

LEMMA ExpireStep ==
  ASSUME UNCHANGED stored,
         \A f \in Facts : \/ AnswerOf(task'[f]) = AnswerOf(task[f])
                          \/ /\ AnswerOf(task[f]) = "memoized"
                             /\ AnswerOf(task'[f]) = "expired"
  PROVE  Contract!Next
<1> DEFINE S == {f \in Facts : AnswerOf(task'[f]) # AnswerOf(task[f])}
<1>1. Contract!Expire(S)
  BY DEF Contract!Expire
<1> QED
  BY <1>1 DEF Contract!Next

LEMMA SettleStep ==
  ASSUME NEW S \in SUBSET Facts,
         \A f \in S : /\ AnswerOf(task[f]) = "researching"
                      /\ AnswerOf(task'[f]) \in Contract!Failures \cup {"found"},
         \A f \in Facts \ S : AnswerOf(task'[f]) = AnswerOf(task[f]),
         stored' = stored \cup {f \in S : AnswerOf(task'[f]) = "found"}
  PROVE  Contract!Next
<1> DEFINE result == [f \in S |-> AnswerOf(task'[f])]
<1>1. result \in [S -> Contract!Failures \cup {"found"}]
  OBVIOUS
<1>2. {f \in S : result[f] = "found"} = {f \in S : AnswerOf(task'[f]) = "found"}
  OBVIOUS
<1>3. \A f \in Facts : AnswerOf(task'[f]) = IF f \in S THEN result[f] ELSE AnswerOf(task[f])
  OBVIOUS
<1> HIDE DEF result
<1>4. Contract!Settle(S)
  BY <1>1, <1>2, <1>3 DEF Contract!Settle
<1> QED
  BY <1>4 DEF Contract!Next

-----------------------------------------------------------------------------
(* Each step of Research is a step of the contract.                          *)

LEMMA ContractInit == Init => Contract!Init
<1>1. Absent.state = "absent"
  BY DEF Absent, Fresh
<1>2. AnswerOf(Absent) = "unasked"
  BY <1>1, AnswerOfRow
<1> QED
  BY <1>2 DEF Init, Contract!Init

\* A request opens rows that were absent or expired: it asks.
LEMMA SaveAsks ==
  ASSUME TypeInv, ExpiredKept, NEW h \in Handlers, Save(h)
  PROVE  Contract!Next
<1>1. \A f \in Facts : task'[f] = SavedRow(f, handler[h])
  BY DEF Save
<1>2. AnswerOf(Fresh) = "researching" /\ \A row : AnswerOf(Requeued(row)) = "researching"
  <2>1. Open(Fresh) /\ \A row : Open(Requeued(row))
    BY DEF Open, Fresh, Requeued
  <2> QED
    BY <2>1, AnswerOfRow
<1>3. \A f \in Facts : f \in handler[h].expired => AnswerOf(task[f]) = "expired"
  BY AnswerOfRow DEF Save, ExpiredKept
<1>4. ASSUME NEW f \in Facts
      PROVE  \/ AnswerOf(task'[f]) = AnswerOf(task[f])
             \/ /\ AnswerOf(task[f]) \in {"unasked", "expired"}
                /\ AnswerOf(task'[f]) = "researching"
  <2>1. CASE f \in handler[h].missing /\ task[f].state = "absent"
    BY <1>1, <1>2, <2>1, AnswerOfRow DEF SavedRow
  <2>2. CASE ~(f \in handler[h].missing /\ task[f].state = "absent")
    BY <1>1, <1>2, <1>3, <2>2 DEF SavedRow
  <2> QED
    BY <2>1, <2>2
<1> QED
  BY <1>4, AskStep DEF Save

\* A claim leaves open rows open: the contract does not see it.
LEMMA ClaimStutters ==
  ASSUME TypeInv, RowInv, NEW w \in Workers, Claim(w)
  PROVE  UNCHANGED Contract!vars
<1>1. ASSUME NEW f \in Facts PROVE AnswerOf(task'[f]) = AnswerOf(task[f])
  <2>1. /\ worker[w] \in WorkerType /\ task[f] \in RowType /\ Coherent(task[f])
        /\ f \in worker[w].batch => Open(task[f])
    BY DEF Claim, TypeInv, TypeOK, RowInv, RowsCoherent, BatchOpen, Running
  <2>2. CASE f \in worker[w].batch
    <3>1. task'[f] = Claimed(task[f], worker[w].attempts[f], worker[w].age)
      BY <2>2 DEF Claim
    <3>2. worker[w].attempts[f] \in 0..AttemptCap /\ worker[w].age \in 0..Horizon
      BY <2>1 DEF WorkerType
    <3>3. Open(task[f]) /\ Open(task'[f])
      BY <2>1, <2>2, <3>1, <3>2, ClaimedRow DEF Open
    <3> QED
      BY <3>3, AnswerOfRow
  <2>3. CASE f \notin worker[w].batch
    BY <2>3 DEF Claim
  <2> QED
    BY <2>2, <2>3
<1> QED
  BY <1>1, StutterStep DEF Claim

\* The findings of a batch settle it, and what they find becomes known.
LEMMA ResolveSettles ==
  ASSUME TypeInv, RowInv, NEW w \in Workers, Resolve(w)
  PROVE  Contract!Next
<1> DEFINE S == worker[w].batch
<1>1. /\ S \in SUBSET Facts
      /\ \A f \in S : Open(task[f])
  BY DEF Resolve, TypeInv, TypeOK, WorkerType, RowInv, BatchOpen, Running
<1>2. PICK outcome \in [S -> Outcomes], release \in ReleaseDelays :
        /\ task' = [f \in Facts |->
                IF f \notin S THEN task[f]
                ELSE IF outcome[f] = "found" THEN MarkedFound(task[f])
                ELSE Memoized(task[f], outcome[f],
                              RecheckAfter(outcome[f], worker[w].age, release))]
        /\ stored' = stored \cup {f \in S : outcome[f] = "found"}
  BY DEF Resolve
<1>3. ASSUME NEW f \in S
      PROVE  /\ AnswerOf(task[f]) = "researching"
             /\ AnswerOf(task'[f]) \in Contract!Failures \cup {"found"}
             /\ AnswerOf(task'[f]) = "found" <=> outcome[f] = "found"
  <2>1. f \in Facts /\ Open(task[f]) /\ task[f] \in RowType
    BY <1>1 DEF TypeInv, TypeOK
  <2>2. CASE outcome[f] = "found"
    <3>1. task'[f] = MarkedFound(task[f])
      BY <1>2, <2>1, <2>2
    <3>2. task'[f].state = "found"
      BY <2>1, <3>1 DEF MarkedFound, RowType
    <3> QED
      BY <2>1, <2>2, <3>2, AnswerOfRow
  <2>3. CASE outcome[f] # "found"
    <3>1. task'[f] = Memoized(task[f], outcome[f],
                              RecheckAfter(outcome[f], worker[w].age, release))
      BY <1>2, <2>1, <2>3
    <3>2. task'[f].state \in {"not_found", "failed"}
      BY <2>1, <3>1 DEF Memoized, RowType
    <3>3. AnswerOf(task'[f]) \in Contract!Failures
      BY <3>2, AnswerOfRow
    <3> QED
      BY <2>1, <2>3, <3>3, AnswerOfRow DEF Contract!Failures
  <2> QED
    BY <2>2, <2>3
<1>4. \A f \in Facts \ S : AnswerOf(task'[f]) = AnswerOf(task[f])
  BY <1>2
<1>5. stored' = stored \cup {f \in S : AnswerOf(task'[f]) = "found"}
  BY <1>2, <1>3
<1> HIDE DEF S
<1> QED
  BY <1>1, <1>3, <1>4, <1>5, SettleStep

\* A failed attempt settles the tasks that have no attempt left, as failures; to
\* the contract the others are still being researched.
LEMMA ExecutionErrorSettles ==
  ASSUME TypeInv, RowInv, NEW w \in Workers, ExecutionError(w)
  PROVE  Contract!Next
<1> DEFINE S == {f \in worker[w].batch : ~Open(task'[f])}
<1>1. /\ worker[w] \in WorkerType
      /\ \A f \in worker[w].batch : Open(task[f])
  BY DEF ExecutionError, TypeInv, TypeOK, RowInv, BatchOpen, Running
<1>2. S \in SUBSET Facts
  BY <1>1 DEF WorkerType
<1>3. ASSUME NEW f \in worker[w].batch
      PROVE  Open(task'[f]) \/ task'[f].state = "failed"
  <2>1. /\ f \in Facts /\ task[f] \in RowType
        /\ task'[f] = ExecutionFailed(task[f], worker[w].attempts[f], worker[w].age)
    BY <1>1 DEF ExecutionError, TypeInv, TypeOK, WorkerType
  <2> QED
    BY <2>1 DEF ExecutionFailed, Memoized, RowType, Open
<1>4. ASSUME NEW f \in S
      PROVE  /\ AnswerOf(task[f]) = "researching"
             /\ AnswerOf(task'[f]) \in Contract!Failures
  BY <1>1, <1>3, AnswerOfRow
<1>5. ASSUME NEW f \in Facts \ S PROVE AnswerOf(task'[f]) = AnswerOf(task[f])
  <2>1. CASE f \in worker[w].batch
    BY <1>1, <2>1, AnswerOfRow
  <2>2. CASE f \notin worker[w].batch
    BY <2>2 DEF ExecutionError
  <2> QED
    BY <2>1, <2>2
<1>6. stored' = stored \cup {f \in S : AnswerOf(task'[f]) = "found"}
  BY <1>4 DEF ExecutionError, Contract!Failures
<1> HIDE DEF S
<1> QED
  BY <1>2, <1>4, <1>5, <1>6, SettleStep

\* Time passing can only expire failures.
LEMMA TickExpires ==
  ASSUME TypeInv, Tick
  PROVE  Contract!Next
<1>1. ASSUME NEW f \in Facts
      PROVE  \/ AnswerOf(task'[f]) = AnswerOf(task[f])
             \/ /\ AnswerOf(task[f]) = "memoized"
                /\ AnswerOf(task'[f]) = "expired"
  <2>1. task[f] \in RowType
    BY DEF TypeInv, TypeOK
  <2>2. task'[f].state = task[f].state /\ task'[f].recheck = Down(task[f].recheck)
    BY <2>1 DEF Tick, RowType
  <2>3. /\ Down(task[f].recheck) = Null <=> task[f].recheck = Null
        /\ task[f].recheck = 0 => Down(task[f].recheck) = 0
        /\ 0 # Null
    BY <2>1 DEF RowType, Down, Null
  <2> QED
    BY <2>1, <2>2, <2>3 DEF AnswerOf, Open
<1> QED
  BY <1>1, ExpireStep DEF Tick

LEMMA ContractStep ==
  ASSUME TypeInv, RowInv, ExpiredKept, [Next]_vars
  PROVE  [Contract!Next]_(Contract!vars)
<1>1. ASSUME NEW h \in Handlers, Save(h) PROVE Contract!Next
  BY <1>1, SaveAsks
<1>2. ASSUME NEW w \in Workers, Claim(w) PROVE UNCHANGED Contract!vars
  BY <1>2, ClaimStutters
<1>3. ASSUME NEW w \in Workers, SearchEnds(w) PROVE Contract!Next
  BY <1>3, ResolveSettles, ExecutionErrorSettles DEF SearchEnds
<1>4. ASSUME Tick PROVE Contract!Next
  BY <1>4, TickExpires
<1>5. ASSUME UNCHANGED <<task, stored>> PROVE UNCHANGED Contract!vars
  BY <1>5, StutterStep
<1> QED
  BY <1>1, <1>2, <1>3, <1>4, <1>5 DEF Next, HandlerStep, vars, Request, Populate, Poll,
     Find, Dispatch, Start, JobDone, Unexpected, Crash, Shutdown, Restart

\* Served one request at a time, the pipeline implements its contract: whatever
\* runs fail and whenever the process dies, a fact is searched once, its answer is
\* kept until it expires, and what is found is known from then on.
THEOREM ResearchImplementsContract ==
  ASSUME OneRequestAtATime
  PROVE  Spec => ResearchOnce
<1>1. Init => ExpiredKept
  BY DEF Init, ExpiredKept, IdleHandler
<1>2. TypeInv /\ RowInv /\ ExpiredKept /\ [Next]_vars => ExpiredKept'
  BY ExpiredStep
<1>3. Init => Contract!Init
  BY ContractInit
<1>4. TypeInv /\ RowInv /\ ExpiredKept /\ [Next]_vars => [Contract!Next]_(Contract!vars)
  BY ContractStep
<1> QED
  BY <1>1, <1>2, <1>3, <1>4, RowInvariant, PTL DEF Spec, ResearchOnce, Contract!Spec

=============================================================================
