------------------------- MODULE ChatResearchProofs -------------------------
(***************************************************************************)
(* Theorems about ChatResearch: a turn of the chat does nothing to the     *)
(* pipeline that Research does not allow, so whatever is proved of         *)
(* Research holds beside the chat; what it reports as found is stored, and *)
(* what it reports as pending after a full wait goes on.                   *)
(***************************************************************************)
EXTENDS ChatResearch, ResearchRowProofs

TurnType ==
    [pc : {"idle", "request", "wait", "reread", "report"}, bike : Bikes \cup {Null},
     keys : SUBSET Facts, left : SUBSET Facts, waited : SUBSET Facts,
     woken : BOOLEAN, timedOut : BOOLEAN,
     found : SUBSET Facts, pending : SUBSET Facts]

\* The application serves the turn until its end, and while the turn waits and
\* reads the tasks again its thread is in no request.
TurnInv ==
    /\ turn \in TurnType
    /\ turn.pc # "idle" => turn.bike \in Bikes
    /\ up
    /\ turn.pc \in {"wait", "reread"} => handler[Chatter].pc = "idle"

FoundKnown == \A f \in Facts : task[f].state = "found" => f \in stored

-----------------------------------------------------------------------------
(* Each step of the chat is a step of Research, or none. *)

LEMMA BesideIsNext == Beside => Next
BY DEF Beside, Next, HandlerStep

LEMMA RereadIsPoll ==
  ASSUME TypeInv, TurnInv, Reread
  PROVE  [Next]_vars
<1> DEFINE b == turn.bike
<1>1. up /\ handler[Chatter].pc = "idle" /\ b \in Bikes
  BY DEF Reread, TurnInv
<1>2. handler \in [Handlers -> HandlerType]
  BY DEF TypeInv, TypeOK
<1>3. CASE \E f \in FactsOf(b) : Eligible(task[f])
  <2>1. Poll(Chatter, b)
    BY <1>1, <1>3 DEF Reread, Poll
  <2> QED
    BY <1>1, <2>1, ChatterAssumption DEF Next
<1>4. CASE ~\E f \in FactsOf(b) : Eligible(task[f])
  <2>1. handler' = handler
    BY <1>2, <1>4 DEF Reread
  <2> QED
    BY <2>1 DEF Reread, vars
<1> QED
  BY <1>3, <1>4

LEMMA ChatStep ==
  ASSUME TypeInv, TurnInv, [ChatNext]_chatVars
  PROVE  [Next]_vars
<1>1. ASSUME NEW b \in Bikes, NEW S \in SUBSET FactsOf(b), Trigger(b, S) PROVE UNCHANGED vars
  BY <1>1 DEF Trigger
<1>2. ASSUME NEW f \in Facts, RequestKey(f) PROVE Next
  BY <1>2, ChatterAssumption DEF RequestKey, Next
<1>3. ASSUME Look \/ Woken \/ TimedOut \/ Report PROVE UNCHANGED vars
  BY <1>3 DEF Look, Woken, TimedOut, Report
<1>4. UNCHANGED chatVars => UNCHANGED vars
  BY DEF chatVars, vars
<1> QED
  BY <1>1, <1>2, <1>3, <1>4, BesideIsNext, RereadIsPoll DEF ChatNext, TurnStep

-----------------------------------------------------------------------------
(* What a turn knows. *)

LEMMA TurnInit == ChatInit => TurnInv
BY DEF ChatInit, Init, TurnInv, TurnType, NoTurn, Null

\* The steps of the turn itself.
LEMMA TurnStepInv ==
  ASSUME TypeInv, TurnInv, TurnStep
  PROVE  TurnInv'
<1>type. turn \in TurnType /\ up /\ (turn.pc # "idle" => turn.bike \in Bikes)
  BY DEF TurnInv
<1>1. ASSUME NEW f \in Facts, RequestKey(f) PROVE TurnInv'
  <2>1. /\ turn' = [turn EXCEPT !.left = @ \ {f}]
        /\ turn.pc = "request" /\ up' = up
    BY <1>1 DEF RequestKey, Request
  <2>2. turn' \in TurnType /\ turn'.pc = "request" /\ turn'.bike = turn.bike
    BY <1>type, <2>1 DEF TurnType
  <2> QED
    BY <1>type, <2>1, <2>2 DEF TurnInv
<1>2. CASE Look
  <2> DEFINE p == IF jobs[turn.bike] \in {"pending", "running"} THEN "wait" ELSE "reread"
             open == {f \in turn.keys : Open(task[f])}
  <2>1. /\ turn' = [turn EXCEPT !.pc = p, !.waited = open]
        /\ turn.pc = "request" /\ handler[Chatter].pc = "idle" /\ UNCHANGED vars
    BY <1>2 DEF Look
  <2>2. p \in {"wait", "reread"} /\ open \in SUBSET Facts
    BY <1>type DEF TurnType
  <2> HIDE DEF p, open
  <2>3. turn' \in TurnType /\ turn'.pc = p /\ turn'.bike = turn.bike
    BY <1>type, <2>1, <2>2 DEF TurnType
  <2> QED
    BY <1>type, <2>1, <2>2, <2>3 DEF TurnInv, vars
<1>3. CASE Woken \/ TimedOut
  <2>1. /\ turn.pc = "wait" /\ UNCHANGED vars
        /\ turn'.pc = "reread" /\ turn'.bike = turn.bike /\ turn' \in TurnType
    BY <1>type, <1>3 DEF Woken, TimedOut, TurnType
  <2> QED
    BY <1>type, <2>1 DEF TurnInv, vars
<1>4. CASE Reread
  <2>1. /\ turn' = Reading /\ turn.pc = "reread" /\ up' = up
    BY <1>4 DEF Reread
  <2>2. /\ {f \in turn.keys : task[f].state = "found"} \in SUBSET Facts
        /\ {f \in turn.keys : Open(task[f])} \in SUBSET Facts
    BY <1>type DEF TurnType
  <2>3. turn' \in TurnType /\ turn'.pc = "report" /\ turn'.bike = turn.bike
    BY <1>type, <2>1, <2>2 DEF Reading, TurnType
  <2> QED
    BY <1>type, <2>1, <2>3 DEF TurnInv
<1>5. CASE Report
  <2>1. turn' = NoTurn /\ up' = up
    BY <1>5 DEF Report, vars
  <2> QED
    BY <1>type, <2>1 DEF TurnInv, TurnType, NoTurn
<1> QED
  BY <1>1, <1>2, <1>3, <1>4, <1>5 DEF TurnStep

\* What goes on beside a turn that waits leaves its thread alone.
LEMMA BesideInv ==
  ASSUME TypeInv, TurnInv, Beside, turn' = Heard
  PROVE  TurnInv'
<1>1. /\ turn'.pc = turn.pc /\ turn'.bike = turn.bike /\ turn' \in TurnType
      /\ turn'.found = turn.found
  BY DEF TurnInv, TurnType, Heard
<1>2. up' = up
  BY DEF Beside, HandlerStep, SearchEnds, Request, Populate, Poll, Find, Save, Dispatch,
         Start, Claim, Resolve, ExecutionError, JobDone, Tick
<1>3. ASSUME handler[Chatter].pc = "idle" PROVE handler'[Chatter] = handler[Chatter]
  <2>1. handler \in [Handlers -> HandlerType]
    BY DEF TypeInv, TypeOK
  <2>2. ASSUME NEW h \in Handlers \ {Chatter}, NEW hd, handler' = [handler EXCEPT ![h] = hd]
        PROVE  handler'[Chatter] = handler[Chatter]
    BY <2>1, <2>2, ChatterAssumption
  <2>3. ASSUME NEW h \in Handlers \ {Chatter}, NEW f \in Facts, Request(h, f)
        PROVE  handler'[Chatter] = handler[Chatter]
    BY <2>2, <2>3 DEF Request
  <2>4. ASSUME NEW h \in Handlers \ {Chatter}, NEW b \in Bikes, Populate(h, b) \/ Poll(h, b)
        PROVE  handler'[Chatter] = handler[Chatter]
    BY <2>2, <2>4 DEF Populate, Poll
  <2>5. ASSUME NEW h \in Handlers, HandlerStep(h)
        PROVE  handler'[Chatter] = handler[Chatter]
    <3>1. h # Chatter
      BY <1>3, <2>5 DEF HandlerStep, Find, Save, Dispatch
    <3> QED
      BY <2>2, <2>5, <3>1 DEF HandlerStep, Find, Save, Dispatch
  <2>6. ASSUME NEW w \in Workers,
               Start(w) \/ Claim(w) \/ SearchEnds(w) \/ JobDone(w)
        PROVE  handler'[Chatter] = handler[Chatter]
    BY <2>6 DEF Start, Claim, SearchEnds, Resolve, ExecutionError, JobDone
  <2>7. ASSUME Tick PROVE handler'[Chatter] = handler[Chatter]
    BY <2>7 DEF Tick
  <2> QED
    BY <2>3, <2>4, <2>5, <2>6, <2>7 DEF Beside
<1> QED
  BY <1>1, <1>2, <1>3 DEF TurnInv

LEMMA TurnStepAny ==
  ASSUME TypeInv, TurnInv, [ChatNext]_chatVars
  PROVE  TurnInv'
<1>1. ASSUME NEW b \in Bikes, NEW S \in SUBSET FactsOf(b), Trigger(b, S) PROVE TurnInv'
  <2>1. /\ turn' = [NoTurn EXCEPT !.pc = "request", !.bike = b, !.keys = S, !.left = S]
        /\ up' = up
    BY <1>1 DEF Trigger, vars
  <2>2. S \in SUBSET Facts
    BY DEF FactsOf
  <2>3. turn' \in TurnType /\ turn'.pc = "request" /\ turn'.bike = b
    BY <2>1, <2>2 DEF TurnType, NoTurn
  <2> QED
    BY <2>1, <2>3 DEF TurnInv
<1>2. ASSUME UNCHANGED chatVars PROVE TurnInv'
  BY <1>2 DEF TurnInv, chatVars
<1> QED
  BY <1>1, <1>2, TurnStepInv, BesideInv DEF ChatNext

-----------------------------------------------------------------------------
(* A found task has its value. *)

LEMMA FoundKnownStep ==
  ASSUME TypeInv, FoundKnown, [Next]_vars
  PROVE  FoundKnown' /\ stored \subseteq stored'
<1>type. \A f \in Facts : task[f] \in RowType
  BY DEF TypeInv, TypeOK
<1>1. ASSUME UNCHANGED <<task, stored>> PROVE FoundKnown' /\ stored \subseteq stored'
  BY <1>1 DEF FoundKnown
<1>2. ASSUME UNCHANGED stored,
             \A f \in Facts : task'[f].state = task[f].state \/ task'[f].state # "found"
      PROVE  FoundKnown' /\ stored \subseteq stored'
  BY <1>2 DEF FoundKnown
<1>3. ASSUME NEW h \in Handlers, Save(h) PROVE FoundKnown' /\ stored \subseteq stored'
  <2>1. Fresh.state = "queued" /\ \A row : Requeued(row).state = "queued"
    BY DEF Fresh, Requeued
  <2> QED
    BY <1>2, <1>3, <2>1 DEF Save, SavedRow
<1>4. ASSUME NEW w \in Workers, Claim(w) PROVE FoundKnown' /\ stored \subseteq stored'
  <2>1. \A f \in Facts : \A n, age : Claimed(task[f], n, age).state = "searching"
    BY <1>type DEF Claimed, RowType
  <2> QED
    BY <1>2, <1>4, <2>1 DEF Claim
<1>5. ASSUME NEW w \in Workers, ExecutionError(w) PROVE FoundKnown' /\ stored \subseteq stored'
  <2>1. \A f \in Facts : \A n, age : ExecutionFailed(task[f], n, age).state # "found"
    BY <1>type DEF ExecutionFailed, Memoized, RowType
  <2> QED
    BY <1>2, <1>5, <2>1 DEF ExecutionError
<1>6. ASSUME NEW w \in Workers, Resolve(w) PROVE FoundKnown' /\ stored \subseteq stored'
  <2>1. PICK outcome \in [worker[w].batch -> Outcomes], release \in ReleaseDelays :
          /\ task' = [f \in Facts |->
                IF f \notin worker[w].batch THEN task[f]
                ELSE IF outcome[f] = "found" THEN MarkedFound(task[f])
                ELSE Memoized(task[f], outcome[f],
                              RecheckAfter(outcome[f], worker[w].age, release))]
          /\ stored' = stored \cup {f \in worker[w].batch : outcome[f] = "found"}
    BY <1>6 DEF Resolve
  <2>2. \A f \in Facts : \A reason, recheck : Memoized(task[f], reason, recheck).state # "found"
    BY <1>type DEF Memoized, RowType
  <2>3. ASSUME NEW f \in Facts, task'[f].state = "found" PROVE f \in stored'
    <3>1. CASE f \notin worker[w].batch
      BY <2>1, <2>3, <3>1 DEF FoundKnown
    <3>2. CASE f \in worker[w].batch /\ outcome[f] # "found"
      <4>1. task'[f] = Memoized(task[f], outcome[f],
                                RecheckAfter(outcome[f], worker[w].age, release))
        BY <2>1, <3>2
      <4> QED
        BY <2>2, <2>3, <4>1
    <3>3. CASE f \in worker[w].batch /\ outcome[f] = "found"
      BY <2>1, <3>3
    <3> QED
      BY <3>1, <3>2, <3>3
  <2>4. stored \subseteq stored'
    BY <2>1
  <2> QED
    BY <2>3, <2>4 DEF FoundKnown
<1>7. ASSUME Tick PROVE FoundKnown' /\ stored \subseteq stored'
  <2>1. \A f \in Facts : task'[f].state = task[f].state
    BY <1>7, <1>type DEF Tick, RowType
  <2> QED
    BY <1>2, <1>7, <2>1 DEF Tick
<1> QED
  BY <1>1, <1>3, <1>4, <1>5, <1>6, <1>7 DEF Next, HandlerStep, SearchEnds, vars, Request,
     Populate, Poll, Find, Dispatch, Start, JobDone, Unexpected, Crash, Shutdown, Restart

LEMMA FoundStep ==
  ASSUME TypeInv, TurnInv, FoundKnown, FoundIsStored, [ChatNext]_chatVars
  PROVE  FoundIsStored'
<1>1. stored \subseteq stored'
  BY ChatStep, FoundKnownStep
<1>2. turn'.found \subseteq turn.found \/ turn'.found \subseteq stored
  <2>1. turn \in TurnType
    BY DEF TurnInv
  <2>2. ASSUME NEW b \in Bikes, NEW S, Trigger(b, S) PROVE turn'.found = {}
    BY <2>2 DEF Trigger, NoTurn
  <2>3. ASSUME NEW f \in Facts, RequestKey(f) PROVE turn'.found = turn.found
    BY <2>1, <2>3 DEF RequestKey, TurnType
  <2>4. ASSUME Look \/ Woken \/ TimedOut PROVE turn'.found = turn.found
    <3>1. CASE Look
      <4> DEFINE p == IF jobs[turn.bike] \in {"pending", "running"} THEN "wait" ELSE "reread"
                 open == {f \in turn.keys : Open(task[f])}
      <4>1. turn' = [turn EXCEPT !.pc = p, !.waited = open]
        BY <3>1 DEF Look
      <4> HIDE DEF p, open
      <4> QED
        BY <2>1, <4>1 DEF TurnType
    <3>2. CASE Woken
      <4>1. turn' = [turn EXCEPT !.pc = "reread"]
        BY <3>2 DEF Woken
      <4> QED
        BY <2>1, <4>1 DEF TurnType
    <3>3. CASE TimedOut
      <4>1. turn' = [turn EXCEPT !.pc = "reread", !.timedOut = TRUE]
        BY <3>3 DEF TimedOut
      <4> QED
        BY <2>1, <4>1 DEF TurnType
    <3> QED
      BY <2>4, <3>1, <3>2, <3>3
  <2>5. ASSUME Reread PROVE turn'.found \subseteq stored
    <3>1. turn'.found = {f \in turn.keys : task[f].state = "found"}
      BY <2>1, <2>5 DEF Reread, Reading, TurnType
    <3>2. turn.keys \subseteq Facts
      BY <2>1 DEF TurnType
    <3> QED
      BY <3>1, <3>2 DEF FoundKnown
  <2>6. ASSUME Report PROVE turn'.found = {}
    BY <2>6 DEF Report, NoTurn
  <2>7. ASSUME turn' = Heard PROVE turn'.found = turn.found
    BY <2>1, <2>7 DEF Heard, TurnType
  <2>8. ASSUME UNCHANGED chatVars PROVE turn'.found = turn.found
    BY <2>8 DEF chatVars
  <2> QED
    BY <2>2, <2>3, <2>4, <2>5, <2>6, <2>7, <2>8 DEF ChatNext, TurnStep
<1> QED
  BY <1>1, <1>2 DEF FoundIsStored

-----------------------------------------------------------------------------
(* Who works on what a turn has waited for.                                  *)

\* The turn has heard of the end of the job it waited for, or found none to wait for.
AfterWait == (turn.pc = "wait" /\ turn.woken) \/ turn.pc \in {"reread", "report"}

\* What a turn waits for, and on what.
WaitInv ==
    /\ turn.keys \subseteq FactsOf(turn.bike)
    /\ turn.waited \subseteq turn.keys
    /\ \A f \in turn.waited : Open(task[f])
    /\ turn.pc = "request" => ~turn.woken
    /\ turn.pc = "wait" /\ ~turn.woken => jobs[turn.bike] \in {"pending", "running"}

\* Every run of the bike has started since, so it knows the tasks that were waited for;
\* and once they are read again they are worked on, or will be by the turn's dispatch.
LaterInv ==
    AfterWait /\ ~turn.timedOut =>
        /\ \A w \in Workers : Busy(w) /\ worker[w].bike = turn.bike => worker[w].age = 0
        /\ jobs[turn.bike] = "running" => \A f \in turn.waited : WorkedOn(f)
        /\ turn.pc = "report" =>
              \/ handler[Chatter].pc = "dispatch" /\ handler[Chatter].bike = turn.bike
              \/ \A f \in turn.waited : WorkedOn(f)

PipelineInv == TypeInv /\ PoolInv /\ RowInv /\ OwnInv

\* What runs beside a turn, but for the clock, which does not move during one.
Busily ==
    \/ \E h \in Handlers \ {Chatter}, f \in Facts : Request(h, f)
    \/ \E h \in Handlers \ {Chatter}, b \in Bikes : Populate(h, b) \/ Poll(h, b)
    \/ \E h \in Handlers : HandlerStep(h)
    \/ \E w \in Workers : Start(w) \/ Claim(w) \/ SearchEnds(w) \/ JobDone(w)

\* A run that starts takes every open task of its bike or leaves it to its schedule.
LEMMA StartAttends ==
  ASSUME PipelineInv, NEW w \in Workers, Start(w),
         NEW f \in Facts, BikeOf[f] = Head(queue), Open(task[f])
  PROVE  WorkedOn(f)'
<1> DEFINE b == Head(queue)
           batch == {g \in FactsOf(b) : Eligible(task[g])}
<1>type. task[f] \in RowType /\ worker \in [Workers -> WorkerType]
  BY DEF PipelineInv, TypeInv, TypeOK
<1>start. /\ worker[w].pc = "idle" /\ task' = task
          /\ worker'[w].pc = IF batch = {} THEN "finishing" ELSE "claim"
          /\ worker'[w].batch = batch
          /\ \A v \in Workers : v # w => worker'[v] = worker[v]
  BY <1>type DEF Start
<1>1. CASE Eligible(task[f])
  <2>1. f \in batch
    BY <1>1 DEF FactsOf
  <2> HIDE DEF batch
  <2> QED
    BY <1>start, <2>1 DEF WorkedOn
<1>2. CASE ~Eligible(task[f]) /\ task[f].state = "queued"
  <2>1. task[f].next > 0
    BY <1>type, <1>2 DEF Eligible, RowType, Null
  <2> QED
    BY <1>start, <2>1 DEF WorkedOn
<1>3. CASE task[f].state = "searching"
  <2>1. PICK v \in Workers : worker[v].pc = "searching" /\ f \in worker[v].batch
    BY <1>3 DEF PipelineInv, OwnInv, AllOwned
  <2>2. worker'[v] = worker[v]
    BY <1>start, <2>1
  <2> QED
    BY <2>1, <2>2 DEF WorkedOn
<1> QED
  BY <1>1, <1>2, <1>3 DEF Open

\* A run that fails schedules the retry after its own start.
LEMMA FailureIsScheduled ==
  ASSUME NEW row \in RowType, NEW n \in Nat \ {0}
  PROVE  Open(ExecutionFailed(row, n, 0)) => ExecutionFailed(row, n, 0).next > 0
<1>1. BackoffAfter(n) \in Nat /\ BackoffAfter(n) > 0
  BY BackoffAssumption, RetryAssumption DEF BackoffAfter
<1>2. Remaining(BackoffAfter(n), 0) > 0
  BY <1>1 DEF Remaining
<1>3. CASE n >= MaxAttempts
  BY <1>3 DEF ExecutionFailed, Memoized, Open, RowType
<1>4. CASE ~(n >= MaxAttempts)
  <2>1. ExecutionFailed(row, n, 0) =
           [row EXCEPT !.state = "queued", !.next = Remaining(BackoffAfter(n), 0)]
    BY <1>4 DEF ExecutionFailed
  <2> QED
    BY <1>2, <2>1 DEF RowType
<1> QED
  BY <1>3, <1>4

\* What an open row keeps when somebody else writes it.
LEMMA SavedKeepsNext ==
  ASSUME PipelineInv, NEW h \in Handlers, Save(h), NEW f \in Facts, Open(task[f])
  PROVE  task'[f].next = task[f].next
<1>1. task'[f] = SavedRow(f, handler[h])
  BY DEF Save
<1>2. task[f].state # "absent"
  BY DEF Open
<1>3. Requeued(task[f]).next = task[f].next
  BY DEF Requeued, Fresh
<1> QED
  BY <1>1, <1>2, <1>3 DEF SavedRow

LEMMA SearchEndsAttends ==
  ASSUME PipelineInv, NEW w \in Workers, SearchEnds(w),
         NEW f \in Facts, f \in worker[w].batch, worker[w].age = 0
  PROVE  WorkedOn(f)'
<1>type. /\ task[f] \in RowType /\ worker[w] \in WorkerType
         /\ worker[w].pc = "searching"
  BY DEF PipelineInv, TypeInv, TypeOK, SearchEnds, Resolve, ExecutionError
<1> DEFINE n == worker[w].attempts[f]
<1>n. n \in Nat \ {0}
  BY <1>type, AttemptsAssumption DEF PipelineInv, TypeInv, ClaimedCounts, WorkerType
<1>1. CASE ExecutionError(w)
  <2>1. task'[f] = ExecutionFailed(task[f], n, 0)
    BY <1>1 DEF ExecutionError
  <2> HIDE DEF n
  <2> QED
    BY <1>type, <1>n, <2>1, FailureIsScheduled DEF WorkedOn
<1>2. CASE Resolve(w)
  <2>1. PICK result \in [worker[w].batch -> Outcomes], release \in ReleaseDelays :
           task' = [g \in Facts |->
                IF g \notin worker[w].batch THEN task[g]
                ELSE IF result[g] = "found" THEN MarkedFound(task[g])
                ELSE Memoized(task[g], result[g],
                              RecheckAfter(result[g], worker[w].age, release))]
    BY <1>2 DEF Resolve
  <2>2. task'[f].state \in {"found", "failed", "not_found"}
    BY <1>type, <2>1 DEF MarkedFound, Memoized, RowType
  <2> QED
    BY <2>2 DEF WorkedOn, Open
<1> QED
  BY <1>1, <1>2 DEF SearchEnds

\* Whoever works on an open task leaves it settled, scheduled or still worked on.
LEMMA WorkGoesOn ==
  ASSUME PipelineInv, Busily,
         NEW f \in Facts, Open(task[f]), WorkedOn(f),
         \A w \in Workers : Busy(w) /\ worker[w].bike = BikeOf[f] => worker[w].age = 0
  PROVE  WorkedOn(f)'
<1>type. /\ task \in [Facts -> RowType] /\ worker \in [Workers -> WorkerType]
         /\ BikeOf[f] \in Bikes /\ jobs \in [Bikes -> {"none", "pending", "running", "done"}]
         /\ \A w \in Workers : worker[w].pc # "idle" => worker[w].bike \in Bikes
         /\ \A h \in Handlers : handler[h].pc # "idle" => handler[h].bike \in Bikes
  BY FactsAssumption DEF PipelineInv, TypeInv, TypeOK, BikesKnown
<1>1. CASE UNCHANGED <<task, jobs, worker>>
  BY <1>1 DEF WorkedOn
<1>2. ASSUME NEW h \in Handlers, Save(h) PROVE WorkedOn(f)'
  <2>1. task'[f].next = task[f].next /\ UNCHANGED <<jobs, worker>>
    BY <1>2, SavedKeepsNext DEF Save
  <2> QED
    BY <2>1 DEF WorkedOn
<1>3. ASSUME NEW h \in Handlers, Dispatch(h) PROVE WorkedOn(f)'
  <2>1. UNCHANGED <<task, worker>> /\ (jobs[BikeOf[f]] = "pending" => jobs'[BikeOf[f]] = "pending")
    BY <1>type, <1>3 DEF Dispatch, Submit
  <2> QED
    BY <2>1 DEF WorkedOn
<1>4. ASSUME NEW w \in Workers, Start(w) PROVE WorkedOn(f)'
  <2>1. CASE BikeOf[f] = Head(queue)
    BY <1>4, <2>1, StartAttends
  <2>2. CASE BikeOf[f] # Head(queue)
    <3>1. /\ task' = task /\ jobs'[BikeOf[f]] = jobs[BikeOf[f]] /\ worker[w].pc = "idle"
          /\ \A v \in Workers : v # w => worker'[v] = worker[v]
      BY <1>type, <1>4, <2>2 DEF Start
    <3>2. \A v \in Workers : worker[v].pc \in {"claim", "searching"} => worker'[v] = worker[v]
      BY <3>1
    <3> QED
      BY <3>1, <3>2 DEF WorkedOn
  <2> QED
    BY <2>1, <2>2
<1>5. ASSUME NEW w \in Workers, Claim(w) PROVE WorkedOn(f)'
  <2>1. /\ jobs' = jobs
        /\ worker'[w].pc = "searching" /\ worker'[w].batch = worker[w].batch
        /\ \A v \in Workers : v # w => worker'[v] = worker[v]
    BY <1>type, <1>5 DEF Claim, WorkerType
  <2>2. task'[f].next = task[f].next
    <3>1. task[f] \in RowType
      BY <1>type
    <3>2. \A before, age : Claimed(task[f], before, age).next = task[f].next
      BY <3>1 DEF Claimed, RowType
    <3> QED
      BY <1>5, <3>2 DEF Claim
  <2>3. \A v \in Workers : worker[v].pc \in {"claim", "searching"} =>
           worker'[v].pc \in {"claim", "searching"} /\ worker'[v].batch = worker[v].batch
    BY <2>1
  <2> QED
    BY <2>1, <2>2, <2>3 DEF WorkedOn
<1>6. ASSUME NEW w \in Workers, SearchEnds(w) PROVE WorkedOn(f)'
  <2>0. worker[w].pc = "searching"
    BY <1>6 DEF SearchEnds, Resolve, ExecutionError
  <2>1. CASE f \in worker[w].batch
    <3>1. worker[w].bike = BikeOf[f]
      BY <2>0, <2>1 DEF PipelineInv, RowInv, BatchOpen, Running
    <3>2. worker[w].age = 0
      BY <2>0, <3>1 DEF Busy
    <3> QED
      BY <1>6, <2>1, <3>2, SearchEndsAttends
  <2>2. CASE f \notin worker[w].batch
    <3>1. /\ jobs' = jobs /\ task'[f] = task[f]
          /\ \A v \in Workers : v # w => worker'[v] = worker[v]
      BY <1>type, <1>6, <2>2 DEF SearchEnds, Resolve, ExecutionError
    <3> QED
      BY <2>2, <3>1 DEF WorkedOn
  <2> QED
    BY <2>1, <2>2
<1>7. ASSUME NEW w \in Workers, JobDone(w) PROVE WorkedOn(f)'
  <2> DEFINE c == worker[w].bike
  <2>1. /\ worker[w].pc = "finishing" /\ task' = task
        /\ jobs' = [jobs EXCEPT ![c] = "done"]
        /\ \A v \in Workers : v # w => worker'[v] = worker[v]
    BY <1>type, <1>7 DEF JobDone
  <2>2. c \in Bikes /\ jobs[c] = "running"
    BY <1>type, <2>1 DEF PipelineInv, PoolInv, JobsAreLive, Busy
  <2>3. jobs[BikeOf[f]] = "pending" => jobs'[BikeOf[f]] = "pending"
    BY <1>type, <2>1, <2>2
  <2>4. \A v \in Workers : worker[v].pc \in {"claim", "searching"} => worker'[v] = worker[v]
    BY <2>1
  <2> QED
    BY <2>1, <2>3, <2>4 DEF WorkedOn
<1> QED
  BY <1>1, <1>2, <1>3, <1>4, <1>5, <1>6, <1>7
     DEF Busily, HandlerStep, Request, Populate, Poll, Find

\* Only the clock makes a run older.
LEMMA RunsStayYoung ==
  ASSUME PipelineInv, Busily, NEW b,
         \A w \in Workers : Busy(w) /\ worker[w].bike = b => worker[w].age = 0
  PROVE  \A w \in Workers : (Busy(w))' /\ worker'[w].bike = b => worker'[w].age = 0
<1>type. worker \in [Workers -> WorkerType]
  BY DEF PipelineInv, TypeInv, TypeOK
<1>1. CASE UNCHANGED worker
  BY <1>1 DEF Busy
<1>2. ASSUME NEW w \in Workers, \A v \in Workers : v # w => worker'[v] = worker[v],
             \/ worker'[w].age = 0
             \/ /\ worker'[w].age = worker[w].age /\ worker'[w].bike = worker[w].bike
                /\ worker[w].pc # "idle"
      PROVE  \A v \in Workers : (Busy(v))' /\ worker'[v].bike = b => worker'[v].age = 0
  BY <1>2 DEF Busy
<1>3. ASSUME NEW w \in Workers, Start(w)
      PROVE  /\ \A v \in Workers : v # w => worker'[v] = worker[v]
             /\ worker'[w].age = 0
  BY <1>type, <1>3 DEF Start
<1>4. ASSUME NEW w \in Workers, Claim(w)
      PROVE  /\ \A v \in Workers : v # w => worker'[v] = worker[v]
             /\ worker'[w].age = worker[w].age /\ worker'[w].bike = worker[w].bike
             /\ worker[w].pc # "idle"
  BY <1>type, <1>4 DEF Claim, WorkerType
<1>5. ASSUME NEW w \in Workers, SearchEnds(w) \/ JobDone(w)
      PROVE  /\ \A v \in Workers : v # w => worker'[v] = worker[v]
             /\ worker'[w].age = 0
  <2>1. IdleWorker.age = 0 /\ Finishing(worker[w].bike).age = 0
    BY DEF IdleWorker, Finishing
  <2> QED
    BY <1>type, <1>5, <2>1 DEF SearchEnds, Resolve, ExecutionError, JobDone
<1> QED
  BY <1>1, <1>2, <1>3, <1>4, <1>5
     DEF Busily, HandlerStep, Request, Populate, Poll, Find, Save, Dispatch

-----------------------------------------------------------------------------
(* Each step keeps that.                                                     *)

LEMMA BesideIsBusily == Beside /\ turn.pc # "idle" => Busily
BY DEF Beside, Busily

\* What is done beside a turn, as the turn hears it.
LEMMA HeardFacts ==
  ASSUME TurnInv, turn' = Heard
  PROVE  /\ turn'.pc = turn.pc /\ turn'.bike = turn.bike /\ turn'.keys = turn.keys
         /\ turn'.timedOut = turn.timedOut
         /\ turn'.waited = {f \in turn.waited : Open(task'[f])}
         /\ turn'.woken <=> turn.woken \/ (turn.pc = "wait" /\ jobs'[turn.bike] = "done")
BY DEF TurnInv, TurnType, Heard

\* Nobody else touches the thread that serves the turn.
LEMMA ChatterAlone ==
  ASSUME TypeInv, Busily
  PROVE  handler'[Chatter] = handler[Chatter] \/ Find(Chatter) \/ Save(Chatter) \/ Dispatch(Chatter)
<1>1. handler \in [Handlers -> HandlerType]
  BY DEF TypeInv, TypeOK
<1>2. ASSUME NEW h \in Handlers \ {Chatter}, NEW hd, handler' = [handler EXCEPT ![h] = hd]
      PROVE  handler'[Chatter] = handler[Chatter]
  BY <1>1, <1>2, ChatterAssumption
<1>3. ASSUME NEW h \in Handlers \ {Chatter}, NEW f \in Facts, Request(h, f)
      PROVE  handler'[Chatter] = handler[Chatter]
  BY <1>2, <1>3 DEF Request
<1>4. ASSUME NEW h \in Handlers \ {Chatter}, NEW b \in Bikes, Populate(h, b) \/ Poll(h, b)
      PROVE  handler'[Chatter] = handler[Chatter]
  BY <1>2, <1>4 DEF Populate, Poll
<1>5. ASSUME NEW h \in Handlers \ {Chatter}, HandlerStep(h)
      PROVE  handler'[Chatter] = handler[Chatter]
  BY <1>2, <1>5 DEF HandlerStep, Find, Save, Dispatch
<1>6. ASSUME NEW w \in Workers, Start(w) \/ Claim(w) \/ SearchEnds(w) \/ JobDone(w)
      PROVE  handler'[Chatter] = handler[Chatter]
  BY <1>6 DEF Start, Claim, SearchEnds, Resolve, ExecutionError, JobDone
<1> QED
  BY <1>3, <1>4, <1>5, <1>6 DEF Busily, HandlerStep

\* A bike's job ends only with its run, and a new one begins only by a start.
LEMMA JobSteps ==
  ASSUME PipelineInv, Busily, NEW b \in Bikes
  PROVE  /\ jobs[b] \in {"pending", "running"} => jobs'[b] \in {"pending", "running", "done"}
         /\ jobs'[b] = "running" =>
               jobs[b] = "running" \/ \E w \in Workers : Start(w) /\ Head(queue) = b
<1>type. /\ jobs \in [Bikes -> {"none", "pending", "running", "done"}]
         /\ \A h \in Handlers : handler[h].pc # "idle" => handler[h].bike \in Bikes
  BY DEF PipelineInv, TypeInv, TypeOK, BikesKnown
<1>1. CASE UNCHANGED jobs
  BY <1>type, <1>1
<1>2. ASSUME NEW h \in Handlers, Dispatch(h)
      PROVE  jobs' = jobs \/ jobs' = [jobs EXCEPT ![handler[h].bike] = "pending"]
  BY <1>2 DEF Dispatch, Submit
<1>3. ASSUME NEW w \in Workers, Start(w)
      PROVE  jobs' = [jobs EXCEPT ![Head(queue)] = "running"]
  BY <1>3 DEF Start
<1>4. ASSUME NEW w \in Workers, JobDone(w)
      PROVE  jobs' = [jobs EXCEPT ![worker[w].bike] = "done"]
  BY <1>4 DEF JobDone
<1> QED
  BY <1>type, <1>1, <1>2, <1>3, <1>4
     DEF Busily, HandlerStep, Request, Populate, Poll, Find, Save, Claim, SearchEnds,
         Resolve, ExecutionError

LEMMA WaitBeside ==
  ASSUME PipelineInv, TurnInv, WaitInv, Beside, turn' = Heard
  PROVE  WaitInv'
<1>1. /\ turn'.keys \subseteq FactsOf(turn'.bike)
      /\ turn'.waited \subseteq turn'.keys
      /\ \A f \in turn'.waited : Open(task'[f])
      /\ turn'.pc = "request" => ~turn'.woken
  BY HeardFacts DEF WaitInv, FactsOf
<1>2. ASSUME turn'.pc = "wait", ~turn'.woken
      PROVE  jobs'[turn'.bike] \in {"pending", "running"}
  <2>1. /\ turn.pc = "wait" /\ ~turn.woken /\ turn'.bike = turn.bike /\ turn.bike \in Bikes
        /\ jobs'[turn.bike] # "done"
    BY <1>2, HeardFacts DEF TurnInv
  <2>2. Busily /\ jobs[turn.bike] \in {"pending", "running"}
    BY <2>1, BesideIsBusily DEF WaitInv
  <2> QED
    BY <2>1, <2>2, JobSteps
<1> QED
  BY <1>1, <1>2 DEF WaitInv

LEMMA LaterBeside ==
  ASSUME PipelineInv, PipelineInv', TurnInv, WaitInv, LaterInv, Beside, turn' = Heard
  PROVE  LaterInv'
<1> DEFINE b == turn.bike
<1> SUFFICES ASSUME AfterWait', ~turn'.timedOut
             PROVE  /\ \A w \in Workers : (Busy(w))' /\ worker'[w].bike = b => worker'[w].age = 0
                    /\ jobs'[b] = "running" => \A f \in turn'.waited : WorkedOn(f)'
                    /\ turn'.pc = "report" =>
                          \/ handler'[Chatter].pc = "dispatch" /\ handler'[Chatter].bike = b
                          \/ \A f \in turn'.waited : WorkedOn(f)'
  BY HeardFacts DEF LaterInv
<1>heard. /\ turn'.pc = turn.pc /\ ~turn.timedOut
          /\ \A f \in turn'.waited : f \in turn.waited
  BY HeardFacts
<1>b. turn.pc # "idle" /\ b \in Bikes /\ Busily
  BY <1>heard, BesideIsBusily DEF AfterWait, TurnInv
<1>waited. \A f \in turn.waited : f \in Facts /\ BikeOf[f] = b /\ Open(task[f])
  BY DEF WaitInv, FactsOf
<1>1. CASE ~AfterWait
  <2>1. turn'.pc = "wait" /\ jobs'[b] = "done"
    BY <1>1, <1>heard, HeardFacts DEF AfterWait
  <2>2. \A w \in Workers : ~((Busy(w))' /\ worker'[w].bike = b)
    BY <1>b, <2>1 DEF PipelineInv, PoolInv, JobsAreLive
  <2> QED
    BY <2>1, <2>2
<1>2. CASE AfterWait
  <2>young. \A w \in Workers : Busy(w) /\ worker[w].bike = b => worker[w].age = 0
    BY <1>2, <1>heard DEF LaterInv
  <2>known. jobs[b] = "running" => \A f \in turn.waited : WorkedOn(f)
    BY <1>2, <1>heard DEF LaterInv
  <2>on. \A f \in turn.waited : WorkedOn(f) => WorkedOn(f)'
    BY <1>b, <1>waited, <2>young, WorkGoesOn
  <2>1. \A w \in Workers : (Busy(w))' /\ worker'[w].bike = b => worker'[w].age = 0
    BY <1>b, <2>young, RunsStayYoung
  <2>2. ASSUME jobs'[b] = "running", NEW f \in turn'.waited PROVE WorkedOn(f)'
    <3>1. CASE jobs[b] = "running"
      BY <1>heard, <2>2, <2>known, <2>on, <3>1
    <3>2. CASE \E w \in Workers : Start(w) /\ Head(queue) = b
      BY <1>heard, <1>waited, <2>2, <3>2, StartAttends
    <3> QED
      BY <1>b, <2>2, <3>1, <3>2, JobSteps
  <2>3. ASSUME turn'.pc = "report"
        PROVE  \/ handler'[Chatter].pc = "dispatch" /\ handler'[Chatter].bike = b
               \/ \A f \in turn'.waited : WorkedOn(f)'
    <3>1. CASE \A f \in turn.waited : WorkedOn(f)
      BY <1>heard, <2>on, <3>1
    <3>2. CASE handler[Chatter].pc = "dispatch" /\ handler[Chatter].bike = b
      <4>1. handler'[Chatter] = handler[Chatter] \/ Dispatch(Chatter)
        BY <1>b, <3>2, ChatterAlone DEF PipelineInv, Find, Save
      <4>2. CASE Dispatch(Chatter)
        <5>1. Submit(b)
          BY <3>2, <4>2 DEF Dispatch
        <5>2. CASE jobs[b] = "running"
          BY <1>heard, <2>known, <2>on, <5>2
        <5>3. CASE jobs[b] # "running"
          <6>1. jobs'[b] = "pending"
            BY <1>b, <5>1, <5>3 DEF Submit, PipelineInv, TypeInv, TypeOK
          <6> QED
            BY <1>heard, <1>waited, <6>1 DEF WorkedOn
        <5> QED
          BY <5>2, <5>3
      <4> QED
        BY <3>2, <4>1, <4>2
    <3> QED
      BY <1>2, <1>heard, <2>3, <3>1, <3>2 DEF LaterInv
  <2> QED
    BY <2>1, <2>2, <2>3
<1> QED
  BY <1>1, <1>2

\* The steps of the turn itself.
LEMMA TurnStepWaits ==
  ASSUME PipelineInv, TurnInv, WaitInv, LaterInv, TurnStep
  PROVE  WaitInv' /\ LaterInv'
<1> DEFINE b == turn.bike
<1>type. turn \in TurnType /\ (turn.pc # "idle" => b \in Bikes)
  BY DEF TurnInv
<1>jobs. jobs \in [Bikes -> {"none", "pending", "running", "done"}]
  BY DEF PipelineInv, TypeInv, TypeOK
<1>1. ASSUME NEW f \in Facts, RequestKey(f) PROVE WaitInv' /\ LaterInv'
  <2>1. /\ turn.pc = "request" /\ UNCHANGED task
        /\ turn' = [turn EXCEPT !.left = @ \ {f}]
    BY <1>1 DEF RequestKey, Request
  <2>2. /\ turn'.pc = "request" /\ turn'.bike = b /\ turn'.keys = turn.keys
        /\ turn'.waited = turn.waited /\ turn'.woken = turn.woken
    BY <1>type, <2>1 DEF TurnType
  <2> QED
    BY <2>1, <2>2 DEF WaitInv, LaterInv, AfterWait, FactsOf
<1>2. CASE Look
  <2> DEFINE p == IF jobs[b] \in {"pending", "running"} THEN "wait" ELSE "reread"
             open == {f \in turn.keys : Open(task[f])}
  <2>1. /\ turn' = [turn EXCEPT !.pc = p, !.waited = open]
        /\ turn.pc = "request" /\ handler[Chatter].pc = "idle" /\ UNCHANGED vars
    BY <1>2 DEF Look
  <2>2. open \subseteq turn.keys /\ \A f \in open : Open(task[f])
    OBVIOUS
  <2>3. \/ p = "wait" /\ jobs[b] \in {"pending", "running"}
        \/ p = "reread" /\ jobs[b] \notin {"pending", "running"}
    OBVIOUS
  <2> HIDE DEF p, open
  <2>4. /\ turn'.pc = p /\ turn'.bike = b /\ turn'.keys = turn.keys
        /\ turn'.waited = open /\ turn'.woken = turn.woken
    BY <1>type, <2>1 DEF TurnType
  <2>5. UNCHANGED <<task, jobs, worker>> /\ ~turn.woken /\ b \in Bikes
    BY <1>type, <2>1 DEF WaitInv, vars
  <2>6. WaitInv'
    BY <2>2, <2>3, <2>4, <2>5 DEF WaitInv, FactsOf
  <2>7. ASSUME AfterWait'
        PROVE  /\ turn'.pc = "reread" /\ jobs'[turn'.bike] # "running"
               /\ \A w \in Workers : ~((Busy(w))' /\ worker'[w].bike = turn'.bike)
    <3>1. p = "reread" /\ jobs[b] \notin {"pending", "running"}
      BY <2>3, <2>4, <2>5, <2>7 DEF AfterWait
    <3>2. \A w \in Workers : ~(Busy(w) /\ worker[w].bike = b)
      BY <2>5, <3>1 DEF PipelineInv, PoolInv, JobsAreLive
    <3> QED
      BY <2>4, <2>5, <3>1, <3>2 DEF Busy
  <2> QED
    BY <2>6, <2>7 DEF LaterInv
<1>3. CASE Woken
  <2>1. turn.pc = "wait" /\ turn.woken /\ UNCHANGED vars /\ turn' = [turn EXCEPT !.pc = "reread"]
    BY <1>3 DEF Woken
  <2>2. /\ turn'.pc = "reread" /\ turn'.bike = b /\ turn'.keys = turn.keys
        /\ turn'.waited = turn.waited /\ turn'.woken = turn.woken /\ turn'.timedOut = turn.timedOut
    BY <1>type, <2>1 DEF TurnType
  <2> QED
    BY <2>1, <2>2 DEF WaitInv, LaterInv, AfterWait, FactsOf, WorkedOn, Busy, vars
<1>4. CASE TimedOut
  <2>1. turn.pc = "wait" /\ UNCHANGED vars /\ turn' = [turn EXCEPT !.pc = "reread", !.timedOut = TRUE]
    BY <1>4 DEF TimedOut
  <2>2. /\ turn'.pc = "reread" /\ turn'.bike = b /\ turn'.keys = turn.keys
        /\ turn'.waited = turn.waited /\ turn'.timedOut
    BY <1>type, <2>1 DEF TurnType
  <2> QED
    BY <2>1, <2>2 DEF WaitInv, LaterInv, FactsOf, vars
<1>5. CASE Reread
  <2>1. /\ turn.pc = "reread" /\ turn' = Reading /\ UNCHANGED <<task, jobs, worker>>
        /\ handler[Chatter].pc = "idle" /\ b \in Bikes
    BY <1>5, <1>type DEF Reread, TurnInv
  <2>2. /\ turn'.pc = "report" /\ turn'.bike = b /\ turn'.keys = turn.keys
        /\ turn'.waited = turn.waited /\ turn'.timedOut = turn.timedOut
    BY <1>type, <2>1 DEF Reading, TurnType
  <2>3. WaitInv'
    BY <2>1, <2>2 DEF WaitInv, FactsOf
  <2>4. CASE \E f \in FactsOf(b) : Eligible(task[f])
    <3>1. handler'[Chatter].pc = "dispatch" /\ handler'[Chatter].bike = b
      BY <1>5, <2>4, ChatterAssumption
         DEF Reread, PipelineInv, TypeInv, TypeOK, HandlerType, IdleHandler
    <3> QED
      BY <2>1, <2>2, <2>3, <3>1 DEF LaterInv, AfterWait, Busy, WorkedOn
  <2>5. CASE ~\E f \in FactsOf(b) : Eligible(task[f])
    <3>1. ASSUME NEW f \in turn.waited PROVE WorkedOn(f)
      <4>1. f \in Facts /\ f \in FactsOf(b) /\ Open(task[f]) /\ task[f] \in RowType
        BY DEF WaitInv, FactsOf, PipelineInv, TypeInv, TypeOK
      <4>2. CASE task[f].state = "queued"
        BY <2>5, <4>1, <4>2 DEF Eligible, RowType, Null, WorkedOn
      <4>3. CASE task[f].state = "searching"
        BY <4>1, <4>3 DEF PipelineInv, OwnInv, AllOwned, WorkedOn
      <4> QED
        BY <4>1, <4>2, <4>3 DEF Open
    <3> QED
      BY <2>1, <2>2, <2>3, <3>1 DEF LaterInv, AfterWait, Busy, WorkedOn
  <2> QED
    BY <2>4, <2>5
<1>6. CASE Report
  BY <1>6 DEF Report, NoTurn, WaitInv, LaterInv, AfterWait
<1> QED
  BY <1>1, <1>2, <1>3, <1>4, <1>5, <1>6 DEF TurnStep

LEMMA WaitStep ==
  ASSUME PipelineInv, PipelineInv', TurnInv, WaitInv, LaterInv, [ChatNext]_chatVars
  PROVE  WaitInv' /\ LaterInv'
<1>1. ASSUME NEW b \in Bikes, NEW S \in SUBSET FactsOf(b), Trigger(b, S)
      PROVE  WaitInv' /\ LaterInv'
  <2>1. turn' = [NoTurn EXCEPT !.pc = "request", !.bike = b, !.keys = S, !.left = S]
    BY <1>1 DEF Trigger
  <2>2. /\ turn'.pc = "request" /\ turn'.bike = b /\ turn'.keys = S
        /\ turn'.waited = {} /\ turn'.woken = FALSE
    BY <2>1 DEF NoTurn
  <2> QED
    BY <2>2 DEF WaitInv, LaterInv, AfterWait, FactsOf
<1>2. ASSUME UNCHANGED chatVars PROVE WaitInv' /\ LaterInv'
  BY <1>2 DEF chatVars, WaitInv, LaterInv, AfterWait, FactsOf, WorkedOn, Busy
<1> QED
  BY <1>1, <1>2, TurnStepWaits, WaitBeside, LaterBeside DEF ChatNext

-----------------------------------------------------------------------------

\* There are no faults beside a turn, so what Research keeps until one it keeps.
ChatInv ==
    /\ PipelineInv
    /\ faults = 0
    /\ TurnInv
    /\ FoundKnown
    /\ FoundIsStored
    /\ WaitInv
    /\ LaterInv

LEMMA ChatInitInv == ChatInit => ChatInv
<1> SUFFICES ASSUME ChatInit PROVE ChatInv
  OBVIOUS
<1>1. Init /\ turn = NoTurn /\ faults = 0
  BY DEF ChatInit, Init
<1>2. FoundKnown /\ FoundIsStored
  BY <1>1 DEF Init, FoundKnown, FoundIsStored, NoTurn, Absent, Fresh
<1>3. WaitInv /\ LaterInv
  BY <1>1 DEF NoTurn, WaitInv, LaterInv, AfterWait
<1> QED
  BY <1>1, <1>2, <1>3, TypeInit, PoolInit, RowInit, OwnInit, TurnInit
     DEF ChatInv, PipelineInv

LEMMA NoFaultBeside ==
  ASSUME [ChatNext]_chatVars
  PROVE  UNCHANGED faults
BY DEF ChatNext, chatVars, vars, Trigger, TurnStep, RequestKey, Look, Woken, TimedOut, Reread,
   Report, Beside, HandlerStep, SearchEnds, Request, Populate, Poll, Find, Save, Dispatch,
   Start, Claim, Resolve, ExecutionError, JobDone, Tick

LEMMA ChatInvStep == ChatInv /\ [ChatNext]_chatVars => ChatInv'
<1> SUFFICES ASSUME ChatInv, [ChatNext]_chatVars PROVE ChatInv'
  OBVIOUS
<1> USE DEF ChatInv
<1>1. [Next]_vars /\ faults' = 0
  BY ChatStep, NoFaultBeside DEF PipelineInv
<1>2. PipelineInv'
  BY <1>1, TypeStep, PoolStep, RowStep, OwnStep DEF PipelineInv
<1>3. TurnInv' /\ FoundKnown' /\ FoundIsStored'
  BY <1>1, TurnStepAny, FoundKnownStep, FoundStep DEF PipelineInv
<1>4. WaitInv' /\ LaterInv'
  BY <1>2, WaitStep
<1> QED
  BY <1>1, <1>2, <1>3, <1>4

LEMMA ChatInvariant == ChatSpec => []ChatInv
BY ChatInitInv, ChatInvStep, PTL DEF ChatSpec

\* To the pipeline the chat is one more handler: every behaviour with it is one
\* of Research, and has all that is proved of Research.
THEOREM ChatKeepsResearch == ChatSpec => Spec
<1>1. ChatInit => Init
  BY DEF ChatInit
<1>2. ChatInv /\ [ChatNext]_chatVars => [Next]_vars
  BY ChatStep DEF ChatInv, PipelineInv
<1> QED
  BY <1>1, <1>2, ChatInvariant, PTL DEF ChatSpec, Spec

\* What a turn reports as found is in the catalog, whatever runs beside it.
THEOREM FoundAlwaysStored == ChatSpec => []FoundIsStored
<1>1. ChatInv => FoundIsStored
  BY DEF ChatInv
<1> QED
  BY <1>1, ChatInvariant, PTL

\* What a turn reports as pending after a full wait is worked on or scheduled, however
\* many runs, retries and other requests there were in the meantime.
THEOREM PendingGoesOnAfterWait == ChatSpec => []PendingContinuesAfterWait
<1>1. ChatInv => PendingContinuesAfterWait
  BY DEF ChatInv, LaterInv, AfterWait, PendingContinuesAfterWait, Reporting
<1> QED
  BY <1>1, ChatInvariant, PTL

=============================================================================
