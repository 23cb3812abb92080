------------------------------ MODULE Research ------------------------------
(***************************************************************************)
(* The research pipeline of backend/app/research: the research_tasks table *)
(* (models.py), the request handlers that create and re-queue its rows     *)
(* (service.py), the background executor with one job per bike             *)
(* (executor.py) and the batched run that claims, searches and settles     *)
(* them (runner.py).                                                       *)
(*                                                                         *)
(* A fact is a (motorcycle, kind, fact_key) triple, so a function on Facts *)
(* is the table under its unique constraint.  Handlers and pool threads    *)
(* each work in a session of their own: what a step has loaded is kept in  *)
(* the handler's or the worker's record while others change the table, and *)
(* a commit writes the columns its code assigned, on the row as it is then.*)
(*                                                                         *)
(* Time is relative.  A deadline column holds the ticks left before it     *)
(* (0: passed), attempted_at and a run's `now` hold the ticks since, and   *)
(* Tick moves them all; SQL NULL is Null.  A tick stands for a minute.     *)
(*                                                                         *)
(* An operator marked "Mutant of D" is D with a plausible bug.  Nothing    *)
(* uses it: it stands in for D to show that a property can fail.           *)
(***************************************************************************)
EXTENDS Integers, Sequences, FiniteSets

CONSTANTS
    Bikes,              \* motorcycles of the catalog
    Facts,              \* (motorcycle, kind, fact_key) triples
    BikeOf,             \* the motorcycle of a fact
    CoreFacts,          \* core specs and insight topics: what populate asks for
    Seeded,             \* facts the catalog holds before any research
    Handlers,           \* threads serving requests
    Workers,            \* threads of the research pool
    MaxAttempts,        \* settings.research_max_attempts
    Backoff,            \* EXECUTION_BACKOFF, in ticks
    StaleAfter,         \* SEARCHING_STALE_AFTER, in ticks
    KnowledgeCooldown,  \* the 30-day cooldown, in ticks
    ExhaustedCooldown,  \* the 7-day cooldown, in ticks
    ReleaseDelays,      \* ticks to a release date a search may report
    Outcomes,           \* what a search may conclude about a fact
    Faults,             \* the faults considered
    MaxFaults,          \* bound: faults in a behaviour
    AttemptCap,         \* bound: attempt_count saturates here
    Horizon             \* bound: the age of a run saturates here

Null == -1

KnowledgeReasons ==
    {"not_released_yet", "no_reliable_source", "unresolved_conflict", "not_applicable"}

Reasons == KnowledgeReasons \cup {"retries_exhausted"}

ASSUME FactsAssumption ==
    /\ BikeOf \in [Facts -> Bikes]
    /\ CoreFacts \subseteq Facts
    /\ Seeded \subseteq Facts

ASSUME AttemptsAssumption ==
    /\ MaxAttempts \in Nat \ {0}
    /\ AttemptCap \in Nat
    /\ AttemptCap > MaxAttempts
    /\ MaxFaults \in Nat

ASSUME BackoffAssumption ==
    /\ Backoff \in Seq(Nat)
    /\ Len(Backoff) > 0

ASSUME TimeAssumption ==
    /\ StaleAfter \in Nat \ {0}
    /\ KnowledgeCooldown \in Nat
    /\ ExhaustedCooldown \in Nat
    /\ ReleaseDelays \subseteq Nat
    /\ Horizon \in Nat

\* The age of a run is only compared with these delays, so it may saturate.
ASSUME HorizonAssumption ==
    /\ Horizon >= StaleAfter
    /\ Horizon >= KnowledgeCooldown
    /\ Horizon >= ExhaustedCooldown
    /\ \A i \in 1..Len(Backoff) : Horizon >= Backoff[i]

ASSUME OutcomesAssumption == Outcomes \subseteq KnowledgeReasons \cup {"found"}

ASSUME FaultsAssumption == Faults \subseteq {"crash", "shutdown", "unexpected"}

VARIABLES
    task,       \* research_tasks: a row per fact, "absent" when there is none
    stored,     \* facts the catalog has a value or an insight for
    jobs,       \* BackgroundResearchExecutor._jobs: the future of each bike
    queue,      \* bikes submitted to the pool and not yet started
    worker,     \* the runs: what each pool thread is doing
    handler,    \* the requests: what each serving thread is doing
    up,         \* the application is between startup and shutdown
    faults      \* faults so far

vars == <<task, stored, jobs, queue, worker, handler, up, faults>>

-----------------------------------------------------------------------------
(* Rows *)

Fresh == [state |-> "queued", reason |-> "none", recheck |-> Null, attempts |-> 0,
          next |-> Null, attempted |-> Null, completed |-> FALSE, result |-> FALSE]

Absent == [Fresh EXCEPT !.state = "absent"]

Settled(row) == row.state \in {"found", "not_found", "failed"}

Open(row) == row.state \in {"queued", "searching"}

\* Mutant of Eligible: a stale attempt is not reclaimed.
EligibleIfQueued(row) == row.state = "queued" /\ row.next <= 0

\* is_eligible: a comparison with NULL or a passed deadline makes a queued row
\* due; a searching row is due again once its attempt is stale.
Eligible(row) ==
    \/ row.state = "queued" /\ row.next <= 0
    \/ row.state = "searching" /\ (row.attempted = Null \/ row.attempted >= StaleAfter)

\* Mutant of Expired: the recheck date is not looked at.
AnyFailure(row) == row.state \in {"not_found", "failed"}

\* Mutant of Expired: no date counts as a date that has passed.
SettledUndated(row) == Settled(row) /\ row.recheck <= 0

\* A memoized failure whose recheck date has passed.
Expired(row) == row.state \in {"not_found", "failed"} /\ row.recheck = 0

\* Mutant of Requeued: completed_at is not reset.
RequeuedStillCompleted(row) ==
    [Fresh EXCEPT !.next = row.next, !.completed = row.completed, !.result = row.result]

\* _requeue.  The settled row it loaded has no next_attempt_at, so the ORM does
\* not write that column; the result reference is not assigned at all.  Every other
\* column is reset.
Requeued(row) ==
    [Fresh EXCEPT !.next = row.next, !.result = row.result]

\* The claim of run_bike_research; `before` is the attempt count the run loaded.
Claimed(row, before, age) ==
    [row EXCEPT !.state = "searching",
                !.attempted = IF age < StaleAfter THEN age ELSE StaleAfter,
                !.attempts = IF before < AttemptCap THEN before + 1 ELSE AttemptCap]

\* A deadline `delay` after the `now` of a run that started `age` ago.
Remaining(delay, age) == IF delay > age THEN delay - age ELSE 0

\* FAILURE_COOLDOWNS; a release date replaces the cooldown of not_released_yet.
RecheckAfter(reason, age, release) ==
    CASE reason = "not_released_yet"  -> release
      [] reason = "not_applicable"    -> Null
      [] reason = "retries_exhausted" -> Remaining(ExhaustedCooldown, age)
      [] OTHER                        -> Remaining(KnowledgeCooldown, age)

\* Mutant of Memoized: the reason is written into the state column.
MemoizedAsState(row, reason, recheck) ==
    [row EXCEPT !.state = reason, !.reason = reason, !.recheck = recheck,
                !.completed = TRUE, !.next = Null]

\* _memoize_failure
Memoized(row, reason, recheck) ==
    [row EXCEPT !.state = IF reason = "retries_exhausted" THEN "failed" ELSE "not_found",
                !.reason = reason, !.recheck = recheck,
                !.completed = TRUE, !.next = Null]

\* _mark_found, and the reference to the value or the insight that was stored
\* (runner.py:187, 303).
MarkedFound(row) ==
    [row EXCEPT !.state = "found", !.reason = "none", !.recheck = Null,
                !.completed = TRUE, !.next = Null, !.result = TRUE]

\* The delay after the n-th attempt; attempts past the schedule reuse its last.
BackoffAfter(n) == Backoff[IF n < Len(Backoff) THEN n ELSE Len(Backoff)]

\* Mutant of ExecutionFailed: the count is compared before the attempt just made.
ExecutionFailedOnceMore(row, attempts, age) ==
    IF attempts > MaxAttempts
      THEN Memoized(row, "retries_exhausted", RecheckAfter("retries_exhausted", age, Null))
      ELSE [row EXCEPT !.state = "queued", !.next = Remaining(BackoffAfter(attempts), age)]

\* Mutant of ExecutionFailed: the retry is scheduled but the task stays searching.
ExecutionFailedKeepsState(row, attempts, age) ==
    IF attempts >= MaxAttempts
      THEN Memoized(row, "retries_exhausted", RecheckAfter("retries_exhausted", age, Null))
      ELSE [row EXCEPT !.next = Remaining(BackoffAfter(attempts), age)]

\* _record_execution_failure; `attempts` is the count the run holds in memory.
ExecutionFailed(row, attempts, age) ==
    IF attempts >= MaxAttempts
      THEN Memoized(row, "retries_exhausted", RecheckAfter("retries_exhausted", age, Null))
      ELSE [row EXCEPT !.state = "queued", !.next = Remaining(BackoffAfter(attempts), age)]

-----------------------------------------------------------------------------
(* Processes *)

IdleHandler == [pc |-> "idle", bike |-> Null, want |-> {}, missing |-> {},
                expired |-> {}, due |-> FALSE]

IdleWorker == [pc |-> "idle", bike |-> Null, batch |-> {},
               attempts |-> [f \in Facts |-> 0], age |-> 0]

Finishing(b) == [IdleWorker EXCEPT !.pc = "finishing", !.bike = b]

FactsOf(b) == {f \in Facts : BikeOf[f] = b}

\* Mutant of Submit: the running job is not looked at.
SubmitUnlessPending(b) ==
    IF jobs[b] = "pending"
      THEN UNCHANGED <<jobs, queue>>
      ELSE /\ jobs' = [jobs EXCEPT ![b] = "pending"]
           /\ queue' = Append(queue, b)

\* submit_bike, under its lock: a bike whose job is not done gets no second one.
Submit(b) ==
    IF jobs[b] \in {"pending", "running"}
      THEN UNCHANGED <<jobs, queue>>
      ELSE /\ jobs' = [jobs EXCEPT ![b] = "pending"]
           /\ queue' = Append(queue, b)

Init ==
    /\ task = [f \in Facts |-> Absent]
    /\ stored = Seeded
    /\ jobs = [b \in Bikes |-> "none"]
    /\ queue = <<>>
    /\ worker = [w \in Workers |-> IdleWorker]
    /\ handler = [h \in Handlers |-> IdleHandler]
    /\ up = TRUE
    /\ faults = 0

-----------------------------------------------------------------------------
(* Requests *)

\* What a handler holds after _find_task has loaded the rows of `want`: the
\* facts it will insert, those it will re-queue, and whether one is due.
Loaded(b, want) ==
    [pc |-> "save", bike |-> b, want |-> want,
     missing |-> {f \in want : task[f].state = "absent"},
     expired |-> {f \in want : Expired(task[f])},
     due |-> \E f \in want : Eligible(task[f])]

\* request_research: validate, then look the task up.
Request(h, f) ==
    /\ up
    /\ handler[h].pc = "idle"
    /\ handler' = [handler EXCEPT ![h] = Loaded(BikeOf[f], {f})]
    /\ UNCHANGED <<task, stored, jobs, queue, worker, up, faults>>

\* populate_bike reads the coverage of the bike ...
Populate(h, b) ==
    /\ up
    /\ handler[h].pc = "idle"
    /\ handler' = [handler EXCEPT ![h] = [IdleHandler EXCEPT
                        !.pc = "find", !.bike = b,
                        !.want = (FactsOf(b) \cap CoreFacts) \ stored]]
    /\ UNCHANGED <<task, stored, jobs, queue, worker, up, faults>>

\* ... and then looks up a task for each missing fact.
Find(h) ==
    /\ handler[h].pc = "find"
    /\ handler' = [handler EXCEPT ![h] = Loaded(handler[h].bike, handler[h].want)]
    /\ UNCHANGED <<task, stored, jobs, queue, worker, up, faults>>

\* The row the handler leaves for a fact it looked up: a fact that was missing is
\* inserted unless another request won the unique-constraint race, an expired
\* failure is re-queued, any other row is left alone.
SavedRow(f, hd) ==
    IF f \in hd.missing /\ task[f].state = "absent" THEN Fresh
    ELSE IF f \in hd.expired THEN Requeued(task[f])
    ELSE task[f]

\* The due test sees the handler's own objects: a fact it inserted or re-queued
\* is due, and so is the winner's row when that one is eligible.
DueAfterSave(hd) ==
    \/ hd.due
    \/ hd.expired # {}
    \/ \E f \in hd.missing : task[f].state = "absent" \/ Eligible(task[f])

\* The rest of _get_or_create_task, and the commit.
Save(h) ==
    LET hd == handler[h] IN
    /\ hd.pc = "save"
    /\ task' = [f \in Facts |-> SavedRow(f, hd)]
    /\ handler' = [handler EXCEPT ![h] =
                        IF DueAfterSave(hd)
                          THEN [IdleHandler EXCEPT !.pc = "dispatch", !.bike = hd.bike]
                          ELSE IdleHandler]
    /\ UNCHANGED <<stored, jobs, queue, worker, up, faults>>

\* get_tasks_for_bike, the retry pump: due tasks are dispatched again.
Poll(h, b) ==
    /\ up
    /\ handler[h].pc = "idle"
    /\ \E f \in FactsOf(b) : Eligible(task[f])
    /\ handler' = [handler EXCEPT ![h] = [IdleHandler EXCEPT
                        !.pc = "dispatch", !.bike = b]]
    /\ UNCHANGED <<task, stored, jobs, queue, worker, up, faults>>

\* _dispatch, after the commit.
Dispatch(h) ==
    /\ handler[h].pc = "dispatch"
    /\ Submit(handler[h].bike)
    /\ handler' = [handler EXCEPT ![h] = IdleHandler]
    /\ UNCHANGED <<task, stored, worker, up, faults>>

-----------------------------------------------------------------------------
(* Runs *)

\* A pool thread takes the first submitted bike and run_bike_research reads the
\* clock and the bike's eligible rows; with none it returns.
Start(w) ==
    LET b == Head(queue)
        batch == {f \in FactsOf(b) : Eligible(task[f])}
    IN
    /\ worker[w].pc = "idle"
    /\ queue # <<>>
    /\ queue' = Tail(queue)
    /\ jobs' = [jobs EXCEPT ![b] = "running"]
    /\ worker' = [worker EXCEPT ![w] =
            [pc |-> IF batch = {} THEN "finishing" ELSE "claim",
             bike |-> b, batch |-> batch,
             attempts |-> [f \in Facts |-> IF f \in batch THEN task[f].attempts ELSE 0],
             age |-> 0]]
    /\ UNCHANGED <<task, stored, handler, up, faults>>

\* The batch is published as searching before the slow provider call.
Claim(w) ==
    LET wk == worker[w] IN
    /\ wk.pc = "claim"
    /\ task' = [f \in Facts |-> IF f \in wk.batch
                                  THEN Claimed(task[f], wk.attempts[f], wk.age)
                                  ELSE task[f]]
    /\ worker' = [worker EXCEPT ![w] = [wk EXCEPT
            !.pc = "searching",
            !.attempts = [f \in Facts |-> IF f \in wk.batch
                              THEN Claimed(task[f], wk.attempts[f], wk.age).attempts
                              ELSE 0]]]
    /\ UNCHANGED <<stored, jobs, queue, handler, up, faults>>

\* Mutant of Resolve: the tasks are committed, the values and insights are not.
ResolveWithoutValues(w) ==
    LET wk == worker[w] IN
    /\ wk.pc = "searching"
    /\ \E outcome \in [wk.batch -> Outcomes], release \in ReleaseDelays :
        task' = [f \in Facts |->
                IF f \notin wk.batch THEN task[f]
                ELSE IF outcome[f] = "found" THEN MarkedFound(task[f])
                ELSE Memoized(task[f], outcome[f],
                              RecheckAfter(outcome[f], wk.age, release))]
    /\ worker' = [worker EXCEPT ![w] = Finishing(worker[w].bike)]
    /\ UNCHANGED <<stored, jobs, queue, handler, up, faults>>

\* The findings settle every task of the batch, in one commit with the values
\* and insights they store.
Resolve(w) ==
    LET wk == worker[w] IN
    /\ wk.pc = "searching"
    /\ \E outcome \in [wk.batch -> Outcomes], release \in ReleaseDelays :
        /\ task' = [f \in Facts |->
                IF f \notin wk.batch THEN task[f]
                ELSE IF outcome[f] = "found" THEN MarkedFound(task[f])
                ELSE Memoized(task[f], outcome[f],
                              RecheckAfter(outcome[f], wk.age, release))]
        /\ stored' = stored \cup {f \in wk.batch : outcome[f] = "found"}
    /\ worker' = [worker EXCEPT ![w] = Finishing(worker[w].bike)]
    /\ UNCHANGED <<jobs, queue, handler, up, faults>>

\* The provider raises ResearchExecutionError.
ExecutionError(w) ==
    LET wk == worker[w] IN
    /\ wk.pc = "searching"
    /\ task' = [f \in Facts |-> IF f \in wk.batch
                                  THEN ExecutionFailed(task[f], wk.attempts[f], wk.age)
                                  ELSE task[f]]
    /\ worker' = [worker EXCEPT ![w] = Finishing(worker[w].bike)]
    /\ UNCHANGED <<stored, jobs, queue, handler, up, faults>>

\* The future is done only after _run returned, that is after the last commit.
JobDone(w) ==
    /\ worker[w].pc = "finishing"
    /\ jobs' = [jobs EXCEPT ![worker[w].bike] = "done"]
    /\ worker' = [worker EXCEPT ![w] = IdleWorker]
    /\ UNCHANGED <<task, stored, queue, handler, up, faults>>

-----------------------------------------------------------------------------
(* Faults and time *)

Fault(kind) == kind \in Faults /\ faults < MaxFaults /\ faults' = faults + 1

\* Any other exception ends the run in _run's except clause: the session closes
\* without a commit and the batch stays as it was last committed.
Unexpected(w) ==
    /\ Fault("unexpected")
    /\ worker[w].pc \in {"claim", "searching"}
    /\ worker' = [worker EXCEPT ![w] = Finishing(worker[w].bike)]
    /\ UNCHANGED <<task, stored, jobs, queue, handler, up>>

\* The process dies and is started again: only the database survives.
Crash ==
    /\ Fault("crash")
    /\ jobs' = [b \in Bikes |-> "none"]
    /\ queue' = <<>>
    /\ worker' = [w \in Workers |-> IdleWorker]
    /\ handler' = [h \in Handlers |-> IdleHandler]
    /\ up' = TRUE
    /\ UNCHANGED <<task, stored>>

\* Mutant of Shutdown: the cancelled futures are not done.
ShutdownKeepsPending ==
    /\ Fault("shutdown")
    /\ up
    /\ \A h \in Handlers : handler[h].pc = "idle"
    /\ up' = FALSE
    /\ queue' = <<>>
    /\ UNCHANGED <<task, stored, jobs, worker, handler>>

\* The lifespan ends once the open requests are answered: futures that have not
\* started are cancelled, the runs that have are not waited for.
Shutdown ==
    /\ Fault("shutdown")
    /\ up
    /\ \A h \in Handlers : handler[h].pc = "idle"
    /\ up' = FALSE
    /\ queue' = <<>>
    /\ jobs' = [b \in Bikes |-> IF jobs[b] = "pending" THEN "done" ELSE jobs[b]]
    /\ UNCHANGED <<task, stored, worker, handler>>

\* The interpreter joins the pool's threads before it exits; the next process
\* starts with an executor of its own.
Restart ==
    /\ ~up
    /\ \A w \in Workers : worker[w].pc = "idle"
    /\ up' = TRUE
    /\ jobs' = [b \in Bikes |-> "none"]
    /\ UNCHANGED <<task, stored, queue, worker, handler, faults>>

\* Only a provider call takes minutes: no request and no database step of a run
\* lasts a tick.
Prompt ==
    /\ \A h \in Handlers : handler[h].pc = "idle"
    /\ \A w \in Workers : worker[w].pc \in {"idle", "searching"}

Down(t) == IF t > 0 THEN t - 1 ELSE t

Older(t, cap) == IF t = Null \/ t >= cap THEN t ELSE t + 1

Tick ==
    /\ Prompt
    /\ task' = [f \in Facts |-> [task[f] EXCEPT !.recheck = Down(@), !.next = Down(@),
                                    !.attempted = Older(@, StaleAfter)]]
    /\ worker' = [w \in Workers |-> IF worker[w].pc = "searching"
                        THEN [worker[w] EXCEPT !.age = Older(@, Horizon)]
                        ELSE worker[w]]
    /\ UNCHANGED <<stored, jobs, queue, handler, up, faults>>

-----------------------------------------------------------------------------

HandlerStep(h) == Find(h) \/ Save(h) \/ Dispatch(h)

SearchEnds(w) == Resolve(w) \/ ExecutionError(w)

Next ==
    \/ \E h \in Handlers, f \in Facts : Request(h, f)
    \/ \E h \in Handlers, b \in Bikes : Populate(h, b)
    \/ \E h \in Handlers, b \in Bikes : Poll(h, b)
    \/ \E h \in Handlers : HandlerStep(h)
    \/ \E w \in Workers : Start(w)
    \/ \E w \in Workers : Claim(w)
    \/ \E w \in Workers : SearchEnds(w)
    \/ \E w \in Workers : JobDone(w)
    \/ \E w \in Workers : Unexpected(w)
    \/ Crash
    \/ Shutdown
    \/ Restart
    \/ Tick

Spec == Init /\ [][Next]_vars

\* Threads run, time passes (requests leave gaps between them) and a page that shows
\* a bike goes on polling it.  Nothing makes a search end: the provider's client has
\* no timeout.
Fairness ==
    /\ []<>Prompt
    /\ \A h \in Handlers : WF_vars(HandlerStep(h))
    /\ \A w \in Workers : WF_vars(Start(w)) /\ WF_vars(Claim(w)) /\ WF_vars(JobDone(w))
    /\ WF_vars(Restart)
    /\ SF_vars(Tick)
    /\ \A b \in Bikes : SF_vars(\E h \in Handlers : Poll(h, b))

FairSpec == Spec /\ Fairness

-----------------------------------------------------------------------------
(* Properties *)

RowType ==
    [state : {"absent", "queued", "searching", "found", "not_found", "failed"},
     reason : Reasons \cup {"none"},
     recheck : Nat \cup {Null},
     attempts : 0..AttemptCap,
     next : Nat \cup {Null},
     attempted : 0..StaleAfter \cup {Null},
     completed : BOOLEAN,
     result : BOOLEAN]

HandlerType ==
    [pc : {"idle", "find", "save", "dispatch"}, bike : Bikes \cup {Null},
     want : SUBSET Facts, missing : SUBSET Facts, expired : SUBSET Facts,
     due : BOOLEAN]

WorkerType ==
    [pc : {"idle", "claim", "searching", "finishing"}, bike : Bikes \cup {Null},
     batch : SUBSET Facts, attempts : [Facts -> 0..AttemptCap], age : 0..Horizon]

\* The shape of every variable.
TypeOK ==
    /\ task \in [Facts -> RowType]
    /\ stored \in SUBSET Facts
    /\ jobs \in [Bikes -> {"none", "pending", "running", "done"}]
    /\ queue \in Seq(Bikes)
    /\ worker \in [Workers -> WorkerType]
    /\ handler \in [Handlers -> HandlerType]
    /\ up \in BOOLEAN
    /\ faults \in 0..MaxFaults

Busy(w) == worker[w].pc # "idle"

\* Two runs of one bike never overlap: not when requests and polls submit it
\* together, not across a restart, not when a stale attempt is reclaimed
\* (submit_bike, executor.py:41-46).
OneRunPerBike ==
    \A v, w \in Workers : Busy(v) /\ Busy(w) /\ worker[v].bike = worker[w].bike => v = w

\* A job that is not done has a place in the pool, and only one: if a future were
\* left undone by no thread, submit_bike would refuse the bike for ever
\* (executor.py:41-46, 60-76).
JobsAreLive ==
    \A b \in Bikes :
        /\ jobs[b] = "pending" <=> \E i \in 1..Len(queue) : queue[i] = b
        /\ jobs[b] = "running" <=> \E w \in Workers : Busy(w) /\ worker[w].bike = b
        /\ \A i, j \in 1..Len(queue) : queue[i] = b /\ queue[j] = b => i = j

\* A row whose columns agree with its state.
Coherent(row) ==
    /\ row.completed <=> Settled(row)
    /\ Settled(row) => row.next = Null
    /\ row.state = "failed" <=> row.reason = "retries_exhausted"
    /\ row.state = "not_found" <=> row.reason \in KnowledgeReasons
    /\ row.recheck # Null <=>
          row.state \in {"not_found", "failed"} /\ row.reason # "not_applicable"
    /\ row.state = "searching" => row.attempted # Null
    /\ row.state = "found" => row.result

\* The columns of a row agree with its state although requests and runs write
\* them from different sessions: a settled row has no retry left, a failure has
\* its reason and the recheck date that goes with it, an open row has neither, a
\* found one refers to its result.  A reference that racing requests have left on a
\* row that is no longer found still refers to a fact the catalog holds
\* (models.py:50-79 and every writer of a row).
RowCoherent ==
    \A f \in Facts : Coherent(task[f]) /\ (task[f].result => f \in stored)

\* Served one request at a time, exactly the rows that are found refer to a result: no
\* task is re-queued, or memoized as a failure, with the reference of an earlier answer,
\* although _requeue does not reset it (service.py:150-177, runner.py:187, 303).
ResultsAreCurrent == \A f \in Facts : task[f].result <=> task[f].state = "found"

\* Until something fails, a row stays searching only as long as a run is working
\* on it: no path through a run leaves one behind (runner.py:60-104).
SearchingIsOwned ==
    faults = 0 => \A f \in Facts : task[f].state = "searching" =>
        \E w \in Workers : worker[w].pc = "searching" /\ f \in worker[w].batch

\* No fact is searched more than max_attempts times between two settlements
\* (docs/modules/research.md:33).
AttemptsBounded == \A f \in Facts : task[f].attempts <= MaxAttempts

\* Until something fails, attempts are bounded, although requests reset a count
\* that a run is working with (runner.py:64-67, 120-131).
TriesBounded == faults = 0 => AttemptsBounded

\* A settled task is opened again only when its recheck date has passed: what
\* was found, and what does not apply, is never searched again, a memoized
\* failure not before its time (service.py:150-154).
ReopenedOnlyWhenDue ==
    [][\A f \in Facts : Settled(task[f]) /\ Open(task'[f]) => task[f].recheck = 0]_vars

\* A call to the provider for a bike is under way.
InCall(b) == \E w \in Workers : worker[w].pc = "searching" /\ worker[w].bike = b

\* The application is up, with a pool thread that no call holds.
Serving == up /\ \E w \in Workers : worker[w].pc # "searching"

\* Every requested fact of a bike whose own calls return is settled in the end, whatever
\* faults hit the runs that were to settle it and although calls for other bikes may
\* hang for ever: a hung call costs the others its thread, and no more until a shutdown,
\* which waits for it (executor.py:41-46, 60-76).
RequestsSettle ==
    \A f \in Facts :
        []<>~InCall(BikeOf[f]) /\ []<>Serving => (Open(task[f]) ~> Settled(task[f]))

-----------------------------------------------------------------------------
(* The contract this pipeline implements *)

\* What a row says about the research of its fact.
AnswerOf(row) ==
    CASE row.state = "absent" -> "unasked"
      [] Open(row)            -> "researching"
      [] row.state = "found"  -> "found"
      [] row.state \in {"not_found", "failed"} ->
            IF row.recheck = Null THEN "never"
            ELSE IF row.recheck = 0 THEN "expired" ELSE "memoized"

Contract == INSTANCE ResearchContract
    WITH answer <- [f \in Facts |-> AnswerOf(task[f])], known <- stored

\* Served one request at a time, the pipeline with its rows, retries, crashes and
\* clocks does only what the contract of ResearchContract allows: a fact is searched
\* once, its answer is kept, and a found fact is known from that moment on
\* (request_research and run_bike_research, docs/modules/research.md:39).
ResearchOnce == Contract!Spec

=============================================================================
