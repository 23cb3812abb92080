---------------------------- MODULE ChatResearch ----------------------------
(***************************************************************************)
(* The chat's trigger_research (backend/app/chat/tools.py) beside the      *)
(* pipeline of Research: request the facts one by one, wait on the bike's  *)
(* job within the inline budget, read the tasks again, report.             *)
(*                                                                         *)
(* A turn runs in a serving thread, Chatter, and uses Research's handler   *)
(* steps for its requests.  Keys the service refuses are left out.  The    *)
(* budget is shorter than a tick.  The faults are Research's: nothing fails *)
(* here but searches.                                                      *)
(***************************************************************************)
EXTENDS Research

CONSTANT Chatter    \* the thread that serves the chat

ASSUME ChatterAssumption == Chatter \in Handlers

\* No attempt that fails is tried again at once (EXECUTION_BACKOFF).
ASSUME RetryAssumption == \A i \in DOMAIN Backoff : Backoff[i] > 0

VARIABLE turn       \* the call of trigger_research under way

chatVars == <<task, stored, jobs, queue, worker, handler, up, faults, turn>>

NoTurn == [pc |-> "idle", bike |-> Null, keys |-> {}, left |-> {},
           waited |-> {}, woken |-> FALSE, timedOut |-> FALSE,
           found |-> {}, pending |-> {}]

ChatInit == Init /\ turn = NoTurn

-----------------------------------------------------------------------------
(* The call *)

Trigger(b, S) ==
    /\ turn.pc = "idle"
    /\ up
    /\ handler[Chatter].pc = "idle"
    /\ turn' = [NoTurn EXCEPT !.pc = "request", !.bike = b, !.keys = S, !.left = S]
    /\ UNCHANGED vars

\* request_research for the next key; the handler saves and dispatches it.
RequestKey(f) ==
    /\ turn.pc = "request"
    /\ f \in turn.left
    /\ Request(Chatter, f)
    /\ turn' = [turn EXCEPT !.left = @ \ {f}]

\* wait_for_bike takes the bike's future under the lock: no wait without one, or
\* on one that is done.
Look ==
    /\ turn.pc = "request"
    /\ turn.left = {}
    /\ handler[Chatter].pc = "idle"
    /\ turn' = [turn EXCEPT !.pc = IF jobs[turn.bike] \in {"pending", "running"}
                                     THEN "wait" ELSE "reread",
                           !.waited = {f \in turn.keys : Open(task[f])}]
    /\ UNCHANGED vars

\* The future the turn holds is done, even if the bike has a newer one by now.
Woken ==
    /\ turn.pc = "wait"
    /\ turn.woken
    /\ turn' = [turn EXCEPT !.pc = "reread"]
    /\ UNCHANGED vars

\* Mutant of TimedOut: job.result() is called without the timeout.
TimedOutNever ==
    /\ turn.pc = "wait"
    /\ turn.woken
    /\ turn' = [turn EXCEPT !.pc = "reread", !.timedOut = TRUE]
    /\ UNCHANGED vars

\* The inline budget is spent.
TimedOut ==
    /\ turn.pc = "wait"
    /\ turn' = [turn EXCEPT !.pc = "reread", !.timedOut = TRUE]
    /\ UNCHANGED vars

\* What the turn makes of the rows it reads.
Reading ==
    [turn EXCEPT !.pc = "report",
                 !.found = {f \in turn.keys : task[f].state = "found"},
                 !.pending = {f \in turn.keys : Open(task[f])}]

\* Mutant of Reread: the rows are selected without the retry pump.
RereadOnly ==
    /\ turn.pc = "reread"
    /\ turn' = Reading
    /\ UNCHANGED vars

\* get_tasks_for_bike after expire_all: every due task of the bike is dispatched
\* by the way.
Reread ==
    /\ turn.pc = "reread"
    /\ turn' = Reading
    /\ handler' = [handler EXCEPT ![Chatter] =
            IF \E f \in FactsOf(turn.bike) : Eligible(task[f])
              THEN [IdleHandler EXCEPT !.pc = "dispatch", !.bike = turn.bike]
              ELSE @]
    /\ UNCHANGED <<task, stored, jobs, queue, worker, up, faults>>

\* The content and the cards go to the agent.
Report ==
    /\ turn.pc = "report"
    /\ handler[Chatter].pc = "idle"
    /\ turn' = NoTurn
    /\ UNCHANGED vars

-----------------------------------------------------------------------------
(* Beside it *)

\* Other requests, the steps of every handler and run, and time between turns.
Beside ==
    \/ \E h \in Handlers \ {Chatter}, f \in Facts : Request(h, f)
    \/ \E h \in Handlers \ {Chatter}, b \in Bikes : Populate(h, b) \/ Poll(h, b)
    \/ \E h \in Handlers : HandlerStep(h)
    \/ \E w \in Workers : Start(w) \/ Claim(w) \/ SearchEnds(w)
    \/ \E w \in Workers : JobDone(w)
    \/ turn.pc = "idle" /\ Tick

\* A turn that waits is woken by the end of the job it waits for; `waited` are the
\* tasks that were open when it began to wait and have been ever since.
Heard ==
    [turn EXCEPT !.woken = @ \/ (turn.pc = "wait" /\ jobs'[turn.bike] = "done"),
                 !.waited = {f \in @ : Open(task'[f])}]

TurnStep ==
    \/ \E f \in Facts : RequestKey(f)
    \/ Look
    \/ Woken
    \/ TimedOut
    \/ Reread
    \/ Report

ChatNext ==
    \/ \E b \in Bikes : \E S \in SUBSET FactsOf(b) \ {{}} : Trigger(b, S)
    \/ TurnStep
    \/ Beside /\ turn' = Heard

ChatSpec == ChatInit /\ [][ChatNext]_chatVars

\* The serving thread runs.  Nothing is assumed of the pool or the provider.
FairChatSpec ==
    /\ ChatSpec
    /\ WF_chatVars(TurnStep)
    /\ WF_chatVars(HandlerStep(Chatter) /\ turn' = Heard)

-----------------------------------------------------------------------------
(* Properties *)

\* What the turn reports as found is in the catalog when it reads the values for
\* its card, although another session stored them (tools.py:244-264).
FoundIsStored == turn.found \subseteq stored

Reporting == turn.pc = "report" /\ handler[Chatter].pc = "idle"

\* Some job works on a fact, or will; or a retry of it is scheduled.
WorkedOn(f) ==
    \/ ~Open(task[f])
    \/ task[f].next > 0
    \/ jobs[BikeOf[f]] = "pending"
    \/ \E w \in Workers : worker[w].pc \in {"claim", "searching"} /\ f \in worker[w].batch

\* What the turn reports as pending goes on in the background: on a timeout the
\* task continues (tools.py:265-273, docs/modules/research.md:48).
PendingContinues ==
    Reporting => \A f \in turn.pending : WorkedOn(f)

\* It does whenever the wait was not cut short, whatever job the turn waited for: a
\* task the job did not know of is dispatched by the turn's own second look, and no
\* job that could refuse that dispatch is older than the task
\* (executor.py:41-58, service.py:93-97).
PendingContinuesAfterWait ==
    Reporting /\ ~turn.timedOut => \A f \in turn.waited : WorkedOn(f)

\* Every turn is answered, even if the search it waits for never ends
\* (executor.py:48-58).
TurnEnds == turn.pc # "idle" ~> turn.pc = "idle"

=============================================================================
