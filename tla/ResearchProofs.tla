--------------------------- MODULE ResearchProofs ---------------------------
(***************************************************************************)
(* Theorems about Research, for every value of its constants.              *)
(***************************************************************************)
EXTENDS Research, TLAPS

-----------------------------------------------------------------------------
(* The operators on rows keep the type of a row. *)

\* A commit that re-queues a row leaves a row.
LEMMA RequeuedType ==
  ASSUME NEW row \in RowType
  PROVE  Requeued(row) \in RowType
<1>1. 0 \in 0..AttemptCap
  BY AttemptsAssumption
<1> QED
  BY <1>1 DEF Requeued, Fresh, RowType, Reasons, Null

\* A claim leaves a row, its attempt count below the cap.
LEMMA ClaimedType ==
  ASSUME NEW row \in RowType, NEW n \in 0..AttemptCap, NEW age \in 0..Horizon
  PROVE  Claimed(row, n, age) \in RowType
<1>1. (IF age < StaleAfter THEN age ELSE StaleAfter) \in 0..StaleAfter
  BY TimeAssumption
<1>2. (IF n < AttemptCap THEN n + 1 ELSE AttemptCap) \in 0..AttemptCap
  BY AttemptsAssumption
<1> QED
  BY <1>1, <1>2 DEF Claimed, RowType

\* A memoized failure is a row.
LEMMA MemoizedType ==
  ASSUME NEW row \in RowType, NEW reason \in Reasons, NEW recheck \in Nat \cup {Null}
  PROVE  Memoized(row, reason, recheck) \in RowType
  BY DEF Memoized, RowType, Null

\* A found task is a row.
LEMMA MarkedFoundType ==
  ASSUME NEW row \in RowType
  PROVE  MarkedFound(row) \in RowType
  BY DEF MarkedFound, RowType, Null

\* What is left of a delay is a number of ticks.
LEMMA RemainingType ==
  ASSUME NEW delay \in Nat, NEW age \in Nat
  PROVE  Remaining(delay, age) \in Nat
  BY DEF Remaining

\* The recheck date of a failure is a number of ticks or NULL.
LEMMA RecheckAfterType ==
  ASSUME NEW reason \in Reasons, NEW age \in Nat, NEW release \in Nat \cup {Null}
  PROVE  RecheckAfter(reason, age, release) \in Nat \cup {Null}
  BY TimeAssumption, RemainingType DEF RecheckAfter, Reasons, KnowledgeReasons

\* The backoff after an attempt is one of the delays of the schedule.
LEMMA BackoffAfterType ==
  ASSUME NEW n \in Nat \ {0}
  PROVE  BackoffAfter(n) \in Nat
<1>1. (IF n < Len(Backoff) THEN n ELSE Len(Backoff)) \in 1..Len(Backoff)
  BY BackoffAssumption
<1> QED
  BY <1>1, BackoffAssumption DEF BackoffAfter

\* A failed attempt leaves a row.
LEMMA ExecutionFailedType ==
  ASSUME NEW row \in RowType, NEW n \in 1..AttemptCap, NEW age \in 0..Horizon
  PROVE  ExecutionFailed(row, n, age) \in RowType
<1>1. CASE n >= MaxAttempts
  <2>1. "retries_exhausted" \in Reasons
    BY DEF Reasons
  <2>2. RecheckAfter("retries_exhausted", age, Null) \in Nat \cup {Null}
    <3>1. age \in Nat /\ Null \in Nat \cup {Null}
      BY TimeAssumption
    <3> QED
      BY <2>1, <3>1, RecheckAfterType
  <2> QED
    BY <1>1, <2>1, <2>2, MemoizedType DEF ExecutionFailed
<1>2. CASE ~(n >= MaxAttempts)
  <2>1. n \in Nat \ {0} /\ age \in Nat
    BY TimeAssumption, AttemptsAssumption
  <2>2. BackoffAfter(n) \in Nat
    BY <2>1, BackoffAfterType
  <2>3. Remaining(BackoffAfter(n), age) \in Nat
    BY <2>1, <2>2, RemainingType
  <2> QED
    BY <1>2, <2>3 DEF ExecutionFailed, RowType
<1> QED
  BY <1>1, <1>2

\* Time passing leaves a row.
LEMMA AgedType ==
  ASSUME NEW row \in RowType
  PROVE  [row EXCEPT !.recheck = Down(@), !.next = Down(@),
                     !.attempted = Older(@, StaleAfter)] \in RowType
<1>1. /\ Down(row.recheck) \in Nat \cup {Null}
      /\ Down(row.next) \in Nat \cup {Null}
  BY DEF RowType, Down, Null
<1>2. Older(row.attempted, StaleAfter) \in 0..StaleAfter \cup {Null}
  BY TimeAssumption DEF RowType, Older, Null
<1> QED
  BY <1>1, <1>2 DEF RowType

-----------------------------------------------------------------------------
(* Type correctness. *)

\* An idle handler and an idle worker have their types.
LEMMA IdleType ==
  /\ IdleHandler \in HandlerType
  /\ IdleWorker \in WorkerType
  /\ \A b \in Bikes : Finishing(b) \in WorkerType
<1>1. 0 \in 0..AttemptCap /\ 0 \in 0..Horizon
  BY AttemptsAssumption, TimeAssumption
<1> QED
  BY <1>1 DEF IdleHandler, IdleWorker, Finishing, HandlerType, WorkerType, Null

\* What a handler has loaded has the type of a handler.
LEMMA LoadedType ==
  ASSUME NEW b \in Bikes, NEW want \in SUBSET Facts
  PROVE  Loaded(b, want) \in HandlerType
  BY DEF Loaded, HandlerType

\* A batch that ran its search has been claimed: its counts are positive.
ClaimedCounts ==
    \A w \in Workers : worker[w].pc = "searching" =>
        \A f \in worker[w].batch : worker[w].attempts[f] >= 1

\* A process that is not idle works for a bike.
BikesKnown ==
    /\ \A w \in Workers : worker[w].pc # "idle" => worker[w].bike \in Bikes
    /\ \A h \in Handlers : handler[h].pc # "idle" => handler[h].bike \in Bikes

TypeInv == TypeOK /\ ClaimedCounts /\ BikesKnown

LEMMA TypeInit == Init => TypeInv
<1> SUFFICES ASSUME Init PROVE TypeInv
  OBVIOUS
<1>1. Absent \in RowType
  <2>1. 0 \in 0..AttemptCap
    BY AttemptsAssumption
  <2> QED
    BY <2>1 DEF Absent, Fresh, RowType, Null
<1>2. TypeOK
  BY <1>1, IdleType, FactsAssumption, AttemptsAssumption DEF Init, TypeOK
<1>3. ClaimedCounts /\ BikesKnown
  BY DEF Init, ClaimedCounts, BikesKnown, IdleWorker, IdleHandler
<1> QED
  BY <1>2, <1>3 DEF TypeInv

LEMMA TypeStep == TypeInv /\ [Next]_vars => TypeInv'
<1> SUFFICES ASSUME TypeInv, [Next]_vars PROVE TypeInv'
  OBVIOUS
<1> USE DEF TypeInv
<1>rows. \A f \in Facts : task[f] \in RowType
  BY DEF TypeOK
<1>facts. BikeOf \in [Facts -> Bikes]
  BY FactsAssumption
<1>1. ASSUME NEW h \in Handlers, NEW f \in Facts, Request(h, f) PROVE TypeInv'
  <2>1. Loaded(BikeOf[f], {f}) \in HandlerType
    BY <1>facts, LoadedType
  <2>2. Loaded(BikeOf[f], {f}).bike \in Bikes
    BY <1>facts DEF Loaded
  <2> QED
    BY <1>1, <2>1, <2>2 DEF Request, TypeOK, ClaimedCounts, BikesKnown
<1>2. ASSUME NEW h \in Handlers, NEW b \in Bikes, Populate(h, b) PROVE TypeInv'
  <2> DEFINE hd == [IdleHandler EXCEPT !.pc = "find", !.bike = b,
                        !.want = (FactsOf(b) \cap CoreFacts) \ stored]
  <2>1. hd \in HandlerType /\ hd.bike = b
    BY IdleType DEF HandlerType, IdleHandler, FactsOf
  <2>2. handler' = [handler EXCEPT ![h] = hd]
    BY <1>2 DEF Populate
  <2> HIDE DEF hd
  <2> QED
    BY <1>2, <2>1, <2>2 DEF Populate, TypeOK, ClaimedCounts, BikesKnown
<1>3. ASSUME NEW h \in Handlers, NEW b \in Bikes, Poll(h, b) PROVE TypeInv'
  <2> DEFINE hd == [IdleHandler EXCEPT !.pc = "dispatch", !.bike = b]
  <2>1. hd \in HandlerType /\ hd.bike = b
    BY IdleType DEF HandlerType, IdleHandler
  <2>2. handler' = [handler EXCEPT ![h] = hd]
    BY <1>3 DEF Poll
  <2> HIDE DEF hd
  <2> QED
    BY <1>3, <2>1, <2>2 DEF Poll, TypeOK, ClaimedCounts, BikesKnown
<1>4. ASSUME NEW h \in Handlers, Find(h) PROVE TypeInv'
  <2>1. handler[h] \in HandlerType /\ handler[h].bike \in Bikes
    BY <1>4 DEF Find, TypeOK, BikesKnown
  <2>2. /\ Loaded(handler[h].bike, handler[h].want) \in HandlerType
        /\ Loaded(handler[h].bike, handler[h].want).bike \in Bikes
    BY <2>1, LoadedType DEF HandlerType, Loaded
  <2> QED
    BY <1>4, <2>2 DEF Find, TypeOK, ClaimedCounts, BikesKnown
<1>5. ASSUME NEW h \in Handlers, Save(h) PROVE TypeInv'
  <2> DEFINE hd == IF DueAfterSave(handler[h])
                     THEN [IdleHandler EXCEPT !.pc = "dispatch", !.bike = handler[h].bike]
                     ELSE IdleHandler
  <2>1. handler[h].bike \in Bikes
    BY <1>5 DEF Save, BikesKnown
  <2>2. hd \in HandlerType /\ (hd.pc # "idle" => hd.bike \in Bikes)
    BY <2>1, IdleType DEF HandlerType, IdleHandler
  <2>3. handler' = [handler EXCEPT ![h] = hd]
    BY <1>5 DEF Save
  <2>4. \A f \in Facts : SavedRow(f, handler[h]) \in RowType
    <3>1. Fresh \in RowType
      <4>1. 0 \in 0..AttemptCap
        BY AttemptsAssumption
      <4> QED
        BY <4>1 DEF Fresh, RowType, Null
    <3> QED
      BY <3>1, <1>rows, RequeuedType DEF SavedRow
  <2>5. task' \in [Facts -> RowType]
    BY <1>5, <2>4 DEF Save
  <2> HIDE DEF hd
  <2> QED
    BY <1>5, <2>2, <2>3, <2>5 DEF Save, TypeOK, ClaimedCounts, BikesKnown
<1>6. ASSUME NEW h \in Handlers, Dispatch(h) PROVE TypeInv'
  <2>1. handler[h].bike \in Bikes
    BY <1>6 DEF Dispatch, BikesKnown
  <2>2. jobs' \in [Bikes -> {"none", "pending", "running", "done"}] /\ queue' \in Seq(Bikes)
    <3>1. Submit(handler[h].bike)
      BY <1>6 DEF Dispatch
    <3> HIDE <1>6
    <3>2. CASE jobs[handler[h].bike] \in {"pending", "running"}
      BY <3>1, <3>2 DEF Submit, TypeOK
    <3>3. CASE jobs[handler[h].bike] \notin {"pending", "running"}
      <4>1. queue' = Append(queue, handler[h].bike)
        BY <3>1, <3>3 DEF Submit
      <4>2. jobs' = [jobs EXCEPT ![handler[h].bike] = "pending"]
        BY <3>1, <3>3 DEF Submit
      <4> QED
        BY <2>1, <4>1, <4>2 DEF TypeOK
    <3> QED
      BY <3>2, <3>3
  <2>3. handler' \in [Handlers -> HandlerType]
    BY <1>6, IdleType DEF Dispatch, TypeOK
  <2> QED
    BY <1>6, <2>2, <2>3 DEF Dispatch, TypeOK, ClaimedCounts, BikesKnown, IdleHandler
<1>7. ASSUME NEW w \in Workers, Start(w) PROVE TypeInv'
  <2> DEFINE b == Head(queue)
             batch == {f \in FactsOf(b) : Eligible(task[f])}
             wk == [pc |-> IF batch = {} THEN "finishing" ELSE "claim",
                    bike |-> b, batch |-> batch,
                    attempts |-> [f \in Facts |-> IF f \in batch THEN task[f].attempts ELSE 0],
                    age |-> 0]
  <2>1. b \in Bikes /\ queue' \in Seq(Bikes)
    BY <1>7 DEF Start, TypeOK
  <2>2. worker' = [worker EXCEPT ![w] = wk]
    BY <1>7 DEF Start
  <2>3. batch \in SUBSET Facts
    BY DEF FactsOf
  <2>4. [f \in Facts |-> IF f \in batch THEN task[f].attempts ELSE 0]
          \in [Facts -> 0..AttemptCap]
    <3>1. \A f \in Facts : task[f].attempts \in 0..AttemptCap
      BY <1>rows DEF RowType
    <3>2. 0 \in 0..AttemptCap
      BY AttemptsAssumption
    <3> HIDE DEF batch
    <3> QED
      BY <3>1, <3>2
  <2>5. wk \in WorkerType /\ wk.bike = b /\ wk.pc \in {"claim", "finishing"}
    <3>1. 0 \in 0..Horizon
      BY TimeAssumption
    <3> HIDE DEF batch, b
    <3> QED
      BY <2>1, <2>3, <2>4, <3>1 DEF WorkerType
  <2>6. jobs' \in [Bikes -> {"none", "pending", "running", "done"}]
    BY <1>7, <2>1 DEF Start, TypeOK
  <2> HIDE DEF wk, b, batch
  <2>7. worker' \in [Workers -> WorkerType]
    BY <2>2, <2>5 DEF TypeOK
  <2> QED
    BY <1>7, <2>1, <2>2, <2>5, <2>6, <2>7 DEF Start, TypeOK, ClaimedCounts, BikesKnown
<1>8. ASSUME NEW w \in Workers, Claim(w) PROVE TypeInv'
  <2> DEFINE row(f) == Claimed(task[f], worker[w].attempts[f], worker[w].age)
             counts == [f \in Facts |-> IF f \in worker[w].batch THEN row(f).attempts ELSE 0]
             wk == [worker[w] EXCEPT !.pc = "searching", !.attempts = counts]
  <2>1. worker[w] \in WorkerType /\ worker[w].bike \in Bikes
    BY <1>8 DEF Claim, TypeOK, BikesKnown
  <2>2. \A f \in Facts : row(f) \in RowType
    BY <2>1, <1>rows, ClaimedType DEF WorkerType
  <2>3. task' \in [Facts -> RowType]
    BY <1>8, <2>2, <1>rows DEF Claim
  <2>4. \A f \in Facts : row(f).attempts >= 1
    BY <2>1, AttemptsAssumption DEF Claimed, WorkerType
  <2>5. worker' = [worker EXCEPT ![w] = wk]
    BY <1>8 DEF Claim
  <2>6. counts \in [Facts -> 0..AttemptCap]
    <3>1. \A f \in Facts : row(f).attempts \in 0..AttemptCap
      BY <2>2 DEF RowType
    <3>2. 0 \in 0..AttemptCap
      BY AttemptsAssumption
    <3> HIDE DEF row
    <3> QED
      BY <3>1, <3>2
  <2>7. \A f \in worker[w].batch : counts[f] >= 1
    BY <2>1, <2>4 DEF WorkerType
  <2> HIDE DEF counts, row
  <2>8. /\ wk \in WorkerType
        /\ wk.bike \in Bikes
        /\ wk.batch = worker[w].batch
        /\ wk.attempts = counts
    BY <2>1, <2>6 DEF WorkerType
  <2> HIDE DEF wk
  <2>9. TypeOK'
    BY <1>8, <2>3, <2>5, <2>8 DEF Claim, TypeOK
  <2>10. ClaimedCounts'
    BY <2>5, <2>7, <2>8 DEF ClaimedCounts, TypeOK
  <2>11. BikesKnown'
    BY <1>8, <2>5, <2>8 DEF Claim, BikesKnown, TypeOK
  <2> QED
    BY <2>9, <2>10, <2>11
<1>9. ASSUME NEW w \in Workers, worker[w].bike \in Bikes,
             worker' = [worker EXCEPT ![w] = Finishing(worker[w].bike)]
      PROVE  /\ worker' \in [Workers -> WorkerType]
             /\ \A v \in Workers : worker'[v].pc # "idle" => worker'[v].bike \in Bikes
             /\ ClaimedCounts'
  <2>1. /\ Finishing(worker[w].bike) \in WorkerType
        /\ Finishing(worker[w].bike).bike = worker[w].bike
        /\ Finishing(worker[w].bike).pc = "finishing"
    BY <1>9, IdleType DEF Finishing, IdleWorker
  <2> QED
    BY <1>9, <2>1 DEF TypeOK, ClaimedCounts, BikesKnown
<1>10. ASSUME NEW w \in Workers, Resolve(w) PROVE TypeInv'
  <2>1. worker[w] \in WorkerType /\ worker[w].bike \in Bikes /\ worker[w].age \in Nat
    BY <1>10, TimeAssumption DEF Resolve, TypeOK, BikesKnown, WorkerType
  <2>2. PICK outcome \in [worker[w].batch -> Outcomes], release \in ReleaseDelays :
           /\ task' = [f \in Facts |->
                IF f \notin worker[w].batch THEN task[f]
                ELSE IF outcome[f] = "found" THEN MarkedFound(task[f])
                ELSE Memoized(task[f], outcome[f],
                              RecheckAfter(outcome[f], worker[w].age, release))]
           /\ stored' = stored \cup {f \in worker[w].batch : outcome[f] = "found"}
    BY <1>10 DEF Resolve
  <2>3. release \in Nat \cup {Null}
    BY TimeAssumption
  <2>4. ASSUME NEW f \in Facts, f \in worker[w].batch, outcome[f] # "found"
        PROVE  Memoized(task[f], outcome[f],
                        RecheckAfter(outcome[f], worker[w].age, release)) \in RowType
    <3>1. outcome[f] \in Reasons
      BY <2>4, OutcomesAssumption DEF Reasons
    <3>2. RecheckAfter(outcome[f], worker[w].age, release) \in Nat \cup {Null}
      BY <2>1, <2>3, <3>1, RecheckAfterType
    <3> QED
      BY <3>1, <3>2, <1>rows, MemoizedType
  <2>5. \A f \in Facts : MarkedFound(task[f]) \in RowType
    BY <1>rows, MarkedFoundType
  <2>6. task' \in [Facts -> RowType]
    BY <2>2, <2>4, <2>5, <1>rows
  <2>7. stored' \in SUBSET Facts
    BY <2>1, <2>2 DEF TypeOK, WorkerType
  <2> QED
    BY <1>9, <1>10, <2>1, <2>6, <2>7 DEF Resolve, TypeOK, BikesKnown
<1>11. ASSUME NEW w \in Workers, ExecutionError(w) PROVE TypeInv'
  <2>1. worker[w] \in WorkerType /\ worker[w].bike \in Bikes
    BY <1>11 DEF ExecutionError, TypeOK, BikesKnown
  <2>2. ASSUME NEW f \in Facts, f \in worker[w].batch
        PROVE  ExecutionFailed(task[f], worker[w].attempts[f], worker[w].age) \in RowType
    <3>1. worker[w].attempts[f] \in 1..AttemptCap
      BY <1>11, <2>1, <2>2, AttemptsAssumption
         DEF ExecutionError, ClaimedCounts, WorkerType
    <3>2. worker[w].age \in 0..Horizon
      BY <2>1 DEF WorkerType
    <3> QED
      BY <3>1, <3>2, <1>rows, ExecutionFailedType
  <2>3. task' \in [Facts -> RowType]
    BY <1>11, <2>2, <1>rows DEF ExecutionError
  <2> QED
    BY <1>9, <1>11, <2>1, <2>3 DEF ExecutionError, TypeOK, BikesKnown
<1>12. ASSUME NEW w \in Workers, JobDone(w) PROVE TypeInv'
  <2>1. worker' \in [Workers -> WorkerType]
    BY <1>12, IdleType DEF JobDone, TypeOK
  <2>2. jobs' \in [Bikes -> {"none", "pending", "running", "done"}]
    BY <1>12 DEF JobDone, TypeOK
  <2> QED
    BY <1>12, <2>1, <2>2 DEF JobDone, TypeOK, ClaimedCounts, BikesKnown, IdleWorker
<1>13. ASSUME NEW w \in Workers, Unexpected(w) PROVE TypeInv'
  <2>1. worker[w].bike \in Bikes
    BY <1>13 DEF Unexpected, BikesKnown
  <2>2. faults' \in 0..MaxFaults
    BY <1>13, AttemptsAssumption DEF Unexpected, Fault, TypeOK
  <2> QED
    BY <1>9, <1>13, <2>1, <2>2 DEF Unexpected, TypeOK, BikesKnown
<1>14. CASE Crash
  <2>1. faults' \in 0..MaxFaults
    BY <1>14, AttemptsAssumption DEF Crash, Fault, TypeOK
  <2> QED
    BY <1>14, <2>1, IdleType
       DEF Crash, TypeOK, ClaimedCounts, BikesKnown, IdleWorker, IdleHandler
<1>15. CASE Shutdown
  <2>1. faults' \in 0..MaxFaults
    BY <1>15, AttemptsAssumption DEF Shutdown, Fault, TypeOK
  <2>2. jobs' \in [Bikes -> {"none", "pending", "running", "done"}]
    <3>1. \A b \in Bikes : jobs[b] \in {"none", "pending", "running", "done"}
      BY DEF TypeOK
    <3>2. jobs' = [b \in Bikes |-> IF jobs[b] = "pending" THEN "done" ELSE jobs[b]]
      BY <1>15 DEF Shutdown
    <3> QED
      BY <3>1, <3>2
  <2>3. TypeOK'
    <3>1. queue' = <<>> /\ up' = FALSE /\ UNCHANGED <<task, stored, worker, handler>>
      BY <1>15 DEF Shutdown
    <3>2. queue' \in Seq(Bikes)
      BY <3>1
    <3> QED
      BY <2>1, <2>2, <3>1, <3>2 DEF TypeOK
  <2>4. ClaimedCounts' /\ BikesKnown'
    BY <1>15 DEF Shutdown, ClaimedCounts, BikesKnown
  <2> QED
    BY <2>3, <2>4
<1>16. CASE Restart
  BY <1>16 DEF Restart, TypeOK, ClaimedCounts, BikesKnown
<1>17. CASE Tick
  <2>1. task' \in [Facts -> RowType]
    BY <1>17, <1>rows, AgedType DEF Tick
  <2>2. \A w \in Workers : Older(worker[w].age, Horizon) \in 0..Horizon
    BY TimeAssumption DEF TypeOK, WorkerType, Older, Null
  <2>3. \A w \in Workers :
           [worker[w] EXCEPT !.age = Older(worker[w].age, Horizon)] \in WorkerType
    BY <2>2 DEF TypeOK, WorkerType
  <2>4. worker' \in [Workers -> WorkerType]
    BY <1>17, <2>3 DEF Tick, TypeOK
  <2>5. \A w \in Workers : /\ worker'[w].pc = worker[w].pc
                           /\ worker'[w].bike = worker[w].bike
                           /\ worker'[w].batch = worker[w].batch
                           /\ worker'[w].attempts = worker[w].attempts
    BY <1>17 DEF Tick, TypeOK, WorkerType
  <2> QED
    BY <1>17, <2>1, <2>4, <2>5 DEF Tick, TypeOK, ClaimedCounts, BikesKnown
<1>18. CASE UNCHANGED vars
  BY <1>18 DEF vars, TypeOK, ClaimedCounts, BikesKnown
<1> QED
  BY <1>1, <1>2, <1>3, <1>4, <1>5, <1>6, <1>7, <1>8, <1>10, <1>11, <1>12, <1>13,
     <1>14, <1>15, <1>16, <1>17, <1>18 DEF Next, HandlerStep, SearchEnds

\* Every variable keeps its type, whatever the interleaving and the faults.
THEOREM TypeCorrect == Spec => []TypeOK
<1>1. Spec => []TypeInv
  BY TypeInit, TypeStep, PTL DEF Spec
<1>2. TypeInv => TypeOK
  BY DEF TypeInv
<1> QED
  BY <1>1, <1>2, PTL

-----------------------------------------------------------------------------
(* The pool: one run per bike, and a job for each. *)

\* The members of a queue after one more was appended.
LEMMA AppendMembers ==
  ASSUME NEW q \in Seq(Bikes), NEW b \in Bikes, NEW c \in Bikes,
         \A i \in 1..Len(q) : q[i] # b
  PROVE  /\ (\E i \in 1..Len(Append(q, b)) : Append(q, b)[i] = c)
               <=> (\E i \in 1..Len(q) : q[i] = c) \/ c = b
         /\ (\A i, j \in 1..Len(q) : q[i] = c /\ q[j] = c => i = j)
               => \A i, j \in 1..Len(Append(q, b)) :
                     Append(q, b)[i] = c /\ Append(q, b)[j] = c => i = j
<1>1. /\ Len(Append(q, b)) = Len(q) + 1
      /\ Append(q, b)[Len(q) + 1] = b
      /\ \A i \in 1..Len(q) : Append(q, b)[i] = q[i]
  OBVIOUS
<1>2. Len(q) \in Nat
  OBVIOUS
<1> QED
  BY <1>1, <1>2

\* The members of a queue without repetitions after its head was taken.
LEMMA TailMembers ==
  ASSUME NEW q \in Seq(Bikes), q # <<>>, NEW c \in Bikes,
         \A b \in Bikes : \A i, j \in 1..Len(q) : q[i] = b /\ q[j] = b => i = j
  PROVE  /\ (\E i \in 1..Len(Tail(q)) : Tail(q)[i] = c)
               <=> (\E i \in 1..Len(q) : q[i] = c) /\ c # Head(q)
         /\ \A i, j \in 1..Len(Tail(q)) : Tail(q)[i] = c /\ Tail(q)[j] = c => i = j
<1>1. /\ Len(q) \in Nat \ {0}
      /\ Len(Tail(q)) = Len(q) - 1
      /\ Head(q) = q[1]
      /\ \A i \in 1..Len(Tail(q)) : Tail(q)[i] = q[i + 1]
  OBVIOUS
<1>2. \A i \in 1..Len(Tail(q)) : i + 1 \in 1..Len(q) /\ i + 1 # 1
  BY <1>1
<1>3. \A i \in 1..Len(q) : i # 1 => i - 1 \in 1..Len(Tail(q)) /\ Tail(q)[i - 1] = q[i]
  BY <1>1
<1>4. ASSUME NEW i \in 1..Len(Tail(q)), Tail(q)[i] = c
      PROVE  (\E k \in 1..Len(q) : q[k] = c) /\ c # Head(q)
  <2>1. q[i + 1] = c /\ i + 1 \in 1..Len(q) /\ i + 1 # 1 /\ 1 \in 1..Len(q)
    BY <1>1, <1>2, <1>4
  <2> QED
    BY <1>1, <2>1
<1>5. ASSUME NEW i \in 1..Len(q), q[i] = c, c # Head(q)
      PROVE  \E k \in 1..Len(Tail(q)) : Tail(q)[k] = c
  BY <1>1, <1>3, <1>5
<1>6. ASSUME NEW i \in 1..Len(Tail(q)), NEW j \in 1..Len(Tail(q)),
             Tail(q)[i] = c, Tail(q)[j] = c
      PROVE  i = j
  <2>1. q[i + 1] = c /\ q[j + 1] = c /\ i + 1 \in 1..Len(q) /\ j + 1 \in 1..Len(q)
    BY <1>1, <1>2, <1>6
  <2>2. i + 1 = j + 1
    BY <2>1
  <2> QED
    BY <2>2
<1> QED
  BY <1>4, <1>5, <1>6

\* After shutdown no request is open and nothing is queued.
DownIsQuiet ==
    ~up => queue = <<>> /\ \A h \in Handlers : handler[h].pc = "idle"

PoolInv == OneRunPerBike /\ JobsAreLive /\ DownIsQuiet

LEMMA PoolInit == Init => PoolInv
<1> SUFFICES ASSUME Init PROVE PoolInv
  OBVIOUS
<1>1. \A w \in Workers : ~Busy(w)
  BY DEF Init, Busy, IdleWorker
<1>2. queue = <<>> /\ Len(queue) = 0 /\ up = TRUE /\ \A b \in Bikes : jobs[b] = "none"
  BY DEF Init
<1>3. ~\E i \in 1..Len(queue) : TRUE
  BY <1>2
<1> QED
  BY <1>1, <1>2, <1>3 DEF PoolInv, OneRunPerBike, JobsAreLive, DownIsQuiet

\* A step that keeps the jobs, the queue and what each thread works for keeps
\* the pool as it is.
LEMMA PoolStutter ==
  ASSUME OneRunPerBike, JobsAreLive, UNCHANGED <<jobs, queue>>,
         \A w \in Workers : Busy(w)' = Busy(w) /\ (worker[w].bike)' = worker[w].bike
  PROVE  (OneRunPerBike /\ JobsAreLive)'
  BY DEF OneRunPerBike, JobsAreLive

LEMMA PoolStep == TypeInv /\ PoolInv /\ [Next]_vars => PoolInv'
<1> SUFFICES ASSUME TypeInv, PoolInv, [Next]_vars PROVE PoolInv'
  OBVIOUS
<1> USE DEF PoolInv
<1>type. TypeOK
  BY DEF TypeInv
<1>1. ASSUME NEW h \in Handlers, up,
             UNCHANGED <<jobs, queue, worker, up>>
      PROVE  PoolInv'
  BY <1>1, PoolStutter DEF Busy, DownIsQuiet
<1>2. ASSUME NEW h \in Handlers, handler[h].pc # "idle" PROVE up
  BY <1>2, <1>type DEF DownIsQuiet, TypeOK
<1>3. ASSUME NEW h \in Handlers, Dispatch(h) PROVE PoolInv'
  <2> DEFINE b == handler[h].bike
  <2>1. b \in Bikes /\ up
    BY <1>2, <1>3 DEF Dispatch, TypeInv, BikesKnown
  <2>2. Submit(b) /\ UNCHANGED <<worker, up>>
    BY <1>3 DEF Dispatch
  <2>3. CASE jobs[b] \in {"pending", "running"}
    BY <1>1, <2>1, <2>2, <2>3 DEF Submit
  <2>4. CASE jobs[b] \notin {"pending", "running"}
    <3>1. jobs' = [jobs EXCEPT ![b] = "pending"] /\ queue' = Append(queue, b)
      BY <2>2, <2>4 DEF Submit
    <3>2. /\ \A i \in 1..Len(queue) : queue[i] # b
          /\ \A w \in Workers : ~(Busy(w) /\ worker[w].bike = b)
      BY <2>1, <2>4 DEF JobsAreLive
    <3>3. OneRunPerBike'
      BY <2>2 DEF OneRunPerBike, Busy
    <3>4. ASSUME NEW c \in Bikes
          PROVE  /\ jobs'[c] = "pending" <=> \E i \in 1..Len(queue') : queue'[i] = c
                 /\ jobs'[c] = "running" <=> \E w \in Workers : Busy(w)' /\ worker'[w].bike = c
                 /\ \A i, j \in 1..Len(queue') : queue'[i] = c /\ queue'[j] = c => i = j
      <4>1. /\ jobs[c] = "pending" <=> \E i \in 1..Len(queue) : queue[i] = c
            /\ jobs[c] = "running" <=> \E w \in Workers : Busy(w) /\ worker[w].bike = c
            /\ \A i, j \in 1..Len(queue) : queue[i] = c /\ queue[j] = c => i = j
        BY DEF JobsAreLive
      <4>2. jobs'[c] = IF c = b THEN "pending" ELSE jobs[c]
        BY <3>1, <1>type DEF TypeOK
      <4>3. /\ (\E i \in 1..Len(queue') : queue'[i] = c)
                  <=> (\E i \in 1..Len(queue) : queue[i] = c) \/ c = b
            /\ \A i, j \in 1..Len(queue') : queue'[i] = c /\ queue'[j] = c => i = j
        BY <1>type, <2>1, <3>1, <3>2, <4>1, AppendMembers DEF TypeOK
      <4>4. (\E w \in Workers : Busy(w)' /\ worker'[w].bike = c)
              <=> (\E w \in Workers : Busy(w) /\ worker[w].bike = c)
        BY <2>2 DEF Busy
      <4> QED
        BY <3>2, <4>1, <4>2, <4>3, <4>4
    <3>5. JobsAreLive'
      BY <3>4 DEF JobsAreLive
    <3> QED
      BY <2>1, <2>2, <3>3, <3>5 DEF DownIsQuiet
  <2> QED
    BY <2>3, <2>4
<1>4. ASSUME NEW w \in Workers, Start(w) PROVE PoolInv'
  <2> DEFINE b == Head(queue)
  <2>1. b \in Bikes /\ queue \in Seq(Bikes) /\ queue # <<>> /\ queue' = Tail(queue)
    BY <1>4, <1>type DEF Start, TypeOK
  <2>2. 1 \in 1..Len(queue) /\ queue[1] = b
    BY <2>1
  <2>3. jobs[b] = "pending"
    BY <2>1, <2>2 DEF JobsAreLive
  <2>4. \A v \in Workers : ~(Busy(v) /\ worker[v].bike = b)
    BY <2>1, <2>3 DEF JobsAreLive
  <2>5. /\ ~Busy(w) /\ Busy(w)' /\ worker'[w].bike = b
        /\ \A v \in Workers : v # w => worker'[v] = worker[v]
    BY <1>4, <1>type DEF Start, TypeOK, Busy
  <2>6. OneRunPerBike'
    BY <2>4, <2>5 DEF OneRunPerBike, Busy
  <2>7. ASSUME NEW c \in Bikes
        PROVE  /\ jobs'[c] = "pending" <=> \E i \in 1..Len(queue') : queue'[i] = c
               /\ jobs'[c] = "running" <=> \E v \in Workers : Busy(v)' /\ worker'[v].bike = c
               /\ \A i, j \in 1..Len(queue') : queue'[i] = c /\ queue'[j] = c => i = j
    <3>1. /\ jobs[c] = "pending" <=> \E i \in 1..Len(queue) : queue[i] = c
          /\ jobs[c] = "running" <=> \E v \in Workers : Busy(v) /\ worker[v].bike = c
      BY DEF JobsAreLive
    <3>2. jobs'[c] = IF c = b THEN "running" ELSE jobs[c]
      BY <1>4, <1>type DEF Start, TypeOK
    <3>3. \A d \in Bikes : \A i, j \in 1..Len(queue) : queue[i] = d /\ queue[j] = d => i = j
      BY DEF JobsAreLive
    <3>4. /\ (\E i \in 1..Len(queue') : queue'[i] = c)
                <=> (\E i \in 1..Len(queue) : queue[i] = c) /\ c # b
          /\ \A i, j \in 1..Len(queue') : queue'[i] = c /\ queue'[j] = c => i = j
      BY <2>1, <3>3, TailMembers
    <3>5. (\E v \in Workers : Busy(v)' /\ worker'[v].bike = c)
            <=> (\E v \in Workers : Busy(v) /\ worker[v].bike = c) \/ c = b
      BY <2>5 DEF Busy
    <3> QED
      BY <2>4, <3>1, <3>2, <3>4, <3>5
  <2>8. JobsAreLive'
    BY <2>7 DEF JobsAreLive
  <2>9. DownIsQuiet'
    BY <1>4, <2>1 DEF DownIsQuiet, Start
  <2> QED
    BY <2>6, <2>8, <2>9
<1>5. ASSUME NEW w \in Workers, worker[w].pc # "idle",
             NEW wk, wk.pc # "idle", wk.bike = worker[w].bike,
             worker' = [worker EXCEPT ![w] = wk],
             UNCHANGED <<jobs, queue, handler, up>>
      PROVE  PoolInv'
  <2>1. \A v \in Workers : Busy(v)' = Busy(v) /\ worker'[v].bike = worker[v].bike
    BY <1>5, <1>type DEF Busy, TypeOK
  <2>2. (OneRunPerBike /\ JobsAreLive)'
    BY <1>5, <2>1, PoolStutter
  <2> QED
    BY <1>5, <2>2 DEF DownIsQuiet
<1>6. ASSUME NEW w \in Workers, Claim(w) PROVE PoolInv'
  <2> DEFINE wk == worker'[w]
  <2>1. worker[w] \in WorkerType /\ worker[w].pc = "claim"
    BY <1>6, <1>type DEF Claim, TypeOK
  <2>2. /\ worker' = [worker EXCEPT ![w] = wk]
        /\ wk.pc = "searching" /\ wk.bike = worker[w].bike
    BY <1>6, <1>type, <2>1 DEF Claim, TypeOK, WorkerType
  <2>3. UNCHANGED <<jobs, queue, handler, up>>
    BY <1>6 DEF Claim
  <2> QED
    BY <1>5, <2>1, <2>2, <2>3
<1>7. ASSUME NEW w \in Workers, SearchEnds(w) \/ Unexpected(w) PROVE PoolInv'
  <2>1. /\ worker[w].pc # "idle"
        /\ worker' = [worker EXCEPT ![w] = Finishing(worker[w].bike)]
        /\ UNCHANGED <<jobs, queue, handler, up>>
    BY <1>7 DEF SearchEnds, Resolve, ExecutionError, Unexpected
  <2>2. /\ Finishing(worker[w].bike).pc # "idle"
        /\ Finishing(worker[w].bike).bike = worker[w].bike
    BY DEF Finishing, IdleWorker
  <2> QED
    BY <1>5, <2>1, <2>2
<1>8. ASSUME NEW w \in Workers, JobDone(w) PROVE PoolInv'
  <2> DEFINE b == worker[w].bike
  <2>1. Busy(w) /\ b \in Bikes
    BY <1>8 DEF JobDone, Busy, TypeInv, BikesKnown
  <2>2. /\ ~Busy(w)'
        /\ \A v \in Workers : v # w => worker'[v] = worker[v]
    BY <1>8, <1>type DEF JobDone, TypeOK, Busy, IdleWorker
  <2>3. jobs[b] = "running"
    BY <2>1 DEF JobsAreLive
  <2>4. \A c \in Bikes : jobs'[c] = IF c = b THEN "done" ELSE jobs[c]
    BY <1>8, <1>type DEF JobDone, TypeOK
  <2>5. \A v \in Workers : Busy(v) /\ worker[v].bike = b => v = w
    BY <2>1 DEF OneRunPerBike
  <2>6. OneRunPerBike'
    BY <2>2 DEF OneRunPerBike, Busy
  <2>7. \A c \in Bikes : (\E v \in Workers : Busy(v)' /\ worker'[v].bike = c)
                          <=> (\E v \in Workers : Busy(v) /\ worker[v].bike = c) /\ c # b
    BY <2>1, <2>2, <2>5 DEF Busy
  <2>8. queue' = queue /\ DownIsQuiet'
    BY <1>8 DEF JobDone, DownIsQuiet
  <2>9. JobsAreLive'
    BY <2>1, <2>3, <2>4, <2>7, <2>8 DEF JobsAreLive
  <2> QED
    BY <2>6, <2>8, <2>9
<1>9. ASSUME \A w \in Workers : worker'[w].pc = "idle",
             queue' = <<>>,
             \A b \in Bikes : jobs'[b] \notin {"pending", "running"}
      PROVE  (OneRunPerBike /\ JobsAreLive)'
  <2>1. ~\E i \in 1..Len(queue') : TRUE
    BY <1>9
  <2> QED
    BY <1>9, <2>1 DEF OneRunPerBike, JobsAreLive, Busy
<1>10. CASE Crash
  BY <1>9, <1>10 DEF Crash, IdleWorker, DownIsQuiet
<1>11. CASE Shutdown
  <2>1. UNCHANGED <<worker, handler>> /\ queue' = <<>>
    BY <1>11 DEF Shutdown
  <2>2. \A h \in Handlers : handler'[h].pc = "idle"
    BY <1>11 DEF Shutdown
  <2>3. \A b \in Bikes : jobs'[b] = IF jobs[b] = "pending" THEN "done" ELSE jobs[b]
    BY <1>11 DEF Shutdown
  <2>4. ~\E i \in 1..Len(queue') : TRUE
    BY <2>1
  <2>5. OneRunPerBike'
    BY <2>1 DEF OneRunPerBike, Busy
  <2>6. JobsAreLive'
    BY <2>1, <2>3, <2>4 DEF JobsAreLive, Busy
  <2> QED
    BY <2>1, <2>2, <2>5, <2>6 DEF DownIsQuiet
<1>12. CASE Restart
  <2>1. queue' = <<>> /\ worker' = worker /\ up' = TRUE
    BY <1>12 DEF Restart, DownIsQuiet
  <2> QED
    BY <1>9, <1>12, <2>1 DEF Restart, DownIsQuiet
<1>13. CASE Tick
  <2>1. \A w \in Workers : worker'[w].pc = worker[w].pc /\ worker'[w].bike = worker[w].bike
    BY <1>13, <1>type DEF Tick, TypeOK, WorkerType
  <2>2. UNCHANGED <<jobs, queue, handler, up>>
    BY <1>13 DEF Tick
  <2>3. (OneRunPerBike /\ JobsAreLive)'
    BY <2>1, <2>2, PoolStutter DEF Busy
  <2> QED
    BY <2>2, <2>3 DEF DownIsQuiet
<1>14. CASE UNCHANGED vars
  BY <1>14, PoolStutter DEF vars, Busy, DownIsQuiet
<1>15. ASSUME NEW h \in Handlers, NEW f \in Facts, Request(h, f) PROVE PoolInv'
  BY <1>1, <1>15 DEF Request
<1>16. ASSUME NEW h \in Handlers, NEW b \in Bikes, Populate(h, b) \/ Poll(h, b)
       PROVE PoolInv'
  BY <1>1, <1>16 DEF Populate, Poll
<1>17. ASSUME NEW h \in Handlers, Find(h) \/ Save(h) PROVE PoolInv'
  <2>1. up /\ UNCHANGED <<jobs, queue, worker, up>>
    BY <1>2, <1>17 DEF Find, Save
  <2> QED
    BY <1>1, <2>1
<1> QED
  BY <1>3, <1>4, <1>6, <1>7, <1>8, <1>10, <1>11, <1>12, <1>13, <1>14, <1>15, <1>16, <1>17
     DEF Next, HandlerStep

\* The types and the pool's invariant together, the base of every later proof.
LEMMA BaseInvariant == Spec => [](TypeInv /\ PoolInv)
<1>1. Init => TypeInv /\ PoolInv
  BY TypeInit, PoolInit
<1>2. TypeInv /\ PoolInv /\ [Next]_vars => (TypeInv /\ PoolInv)'
  BY TypeStep, PoolStep
<1> QED
  BY <1>1, <1>2, PTL DEF Spec

\* No bike is ever worked on by two runs, for any pool and any faults.
THEOREM NoOverlappingRuns == Spec => []OneRunPerBike
<1>1. TypeInv /\ PoolInv => OneRunPerBike
  BY DEF PoolInv
<1> QED
  BY <1>1, BaseInvariant, PTL

\* No job is left undone without a thread or a place in the queue, so no bike is
\* refused for ever.
THEOREM NoStrandedJob == Spec => []JobsAreLive
<1>1. TypeInv /\ PoolInv => JobsAreLive
  BY DEF PoolInv
<1> QED
  BY <1>1, BaseInvariant, PTL

=============================================================================
