------------------------------ MODULE ChatTurn ------------------------------
(***************************************************************************)
(* One turn of the assistant, backend/app/chat: the request (router.py),   *)
(* the stream of events (service.py), the loop of model and tools          *)
(* (agent.py) and the history each conversation keeps in memory.           *)
(*                                                                         *)
(* A turn loads the history of its conversation when it starts, works on   *)
(* its own copy and stores the copy whole after every node it completes.   *)
(* The graph engine and its store are libraries: what is modelled of them  *)
(* is how the turn uses them.  What the tools read, and the cards and the  *)
(* words a turn streams, are left out: ChatResearch and Catalog have more. *)
(***************************************************************************)
EXTENDS Integers, Sequences

CONSTANTS
    Turns,          \* requests to the assistant, each served once
    Conversations,  \* conversation ids
    Limit,          \* RECURSION_LIMIT: nodes a turn may run
    MaxCalls,       \* bound: tools the model asks for in one message
    MaxBoots        \* bound: processes started after the first

ASSUME LimitAssumption == Limit \in Nat \ {0}
ASSUME MaxCallsAssumption == MaxCalls \in Nat \ {0}
ASSUME MaxBootsAssumption == MaxBoots \in Nat

VARIABLES
    configured, \* the process has a chat model
    saved,      \* the history each conversation has in the store
    turn,       \* what each turn is doing
    boots       \* processes started after the first

vars == <<configured, saved, turn, boots>>

\* `history` is the turn's own copy; `calls` and `results` are the tools that the
\* node that is running was asked for and those it has run.  `kept`: no other turn
\* has run on the conversation while this one did, and their process lives.
Fresh ==
    [pc |-> "new", conv |-> "none", outcome |-> "none", history |-> <<>>, steps |-> 0,
     asked |-> 0, calls |-> 0, results |-> 0, kept |-> TRUE]

Message(t, kind, n) == [turn |-> t, kind |-> kind, size |-> n]

Working == {"agent", "tools", "answered"}

Init ==
    /\ configured \in BOOLEAN
    /\ saved = [c \in Conversations |-> <<>>]
    /\ turn = [t \in Turns |-> Fresh]
    /\ boots = 0

\* What is left of a turn: its messages, if it is done.
Ended(t, outcome) ==
    [Fresh EXCEPT !.pc = "ended", !.outcome = outcome, !.conv = turn[t].conv,
                  !.history = IF outcome = "done" THEN turn[t].history ELSE <<>>,
                  !.kept = outcome = "done" /\ turn[t].kept]

\* The last event of the stream, or its end without one.
End(t, outcome) ==
    /\ turn' = [turn EXCEPT ![t] = Ended(t, outcome)]
    /\ UNCHANGED <<configured, boots>>

-----------------------------------------------------------------------------
(* The request *)

\* post_message: the stream is built, and begins when the response is sent.
Post(t, c) ==
    /\ turn[t].pc = "new"
    /\ configured
    /\ turn' = [turn EXCEPT ![t].pc = "posted", ![t].conv = c]
    /\ UNCHANGED <<configured, saved, boots>>

\* 503 without a chat model.
PostRefused(t) ==
    /\ turn[t].pc = "new"
    /\ ~configured
    /\ End(t, "refused")
    /\ UNCHANGED saved

\* The model was taken away between the request and its stream.
StartUnconfigured(t) ==
    /\ turn[t].pc = "posted"
    /\ ~configured
    /\ End(t, "error")
    /\ UNCHANGED saved

\* The profile is read outside the try block: the stream breaks off without an event.
StartBreaks(t) ==
    /\ turn[t].pc = "posted"
    /\ configured
    /\ End(t, "broken")
    /\ UNCHANGED saved

Others(t) == {u \in Turns \ {t} : turn[u].conv = turn[t].conv /\ turn[u].pc \in Working}

\* Mutant of Earlier: every request has a store of its own.
EarlierForgotten(t) == <<>>

\* The history the turn continues.
Earlier(t) == saved[turn[t].conv]

\* The profile is read, the history loaded, the user's message added and stored.
Start(t) ==
    LET history == Append(Earlier(t), Message(t, "human", 0)) IN
    /\ turn[t].pc = "posted"
    /\ configured
    /\ turn' = [u \in Turns |->
                  IF u = t THEN [turn[t] EXCEPT !.pc = "agent", !.history = history,
                                                !.kept = Others(t) = {}]
                  ELSE [turn[u] EXCEPT !.kept = @ /\ u \notin Others(t)]]
    /\ saved' = [saved EXCEPT ![turn[t].conv] = history]
    /\ UNCHANGED <<configured, boots>>

-----------------------------------------------------------------------------
(* agent_node *)

\* Mutant of MayRun: one node too many.
MayRunOneMore(t) == turn[t].steps <= Limit

\* The engine runs another node.
MayRun(t) == turn[t].steps < Limit

\* Mutant of StepsAfter: only the rounds of tools count.
RoundsAfter(t) == turn[t].steps + (IF turn[t].pc = "tools" THEN 1 ELSE 0)

\* Every node counts, the model's as well as the tools'.
StepsAfter(t) == turn[t].steps + 1

\* A node adds its message, the history is stored, and the turn goes on at pc.
Completed(t, message, pc) ==
    LET history == Append(turn[t].history, message) IN
    /\ saved' = [saved EXCEPT ![turn[t].conv] = history]
    /\ turn' = [turn EXCEPT ![t].pc = pc, ![t].history = history,
                            ![t].steps = StepsAfter(t),
                            ![t].asked = @ + (IF turn[t].pc = "agent" THEN 1 ELSE 0),
                            ![t].calls = IF pc = "tools" THEN message.size ELSE 0,
                            ![t].results = 0]
    /\ UNCHANGED <<configured, boots>>

ModelAnswers(t) ==
    /\ turn[t].pc = "agent"
    /\ MayRun(t)
    /\ Completed(t, Message(t, "answer", 0), "answered")

ModelCalls(t, n) ==
    /\ turn[t].pc = "agent"
    /\ MayRun(t)
    /\ Completed(t, Message(t, "calls", n), "tools")

\* status_line fails on a trigger_research whose fact_keys are null: the stream ends,
\* before or after the message is stored.
CallsUnprintable(t, n) ==
    /\ turn[t].pc = "agent"
    /\ MayRun(t)
    /\ End(t, "error")
    /\ \/ UNCHANGED saved
       \/ saved' = [saved EXCEPT ![turn[t].conv] =
                       Append(turn[t].history, Message(t, "calls", n))]

ModelRaises(t) ==
    /\ turn[t].pc = "agent"
    /\ MayRun(t)
    /\ End(t, "error")
    /\ UNCHANGED saved

-----------------------------------------------------------------------------
(* tools_node *)

Calling(t) ==
    /\ turn[t].pc = "tools"
    /\ MayRun(t)
    /\ turn[t].results < turn[t].calls

\* A tool answers: an unknown tool, invalid arguments and an expected service error
\* are answers too.
ToolAnswers(t) ==
    /\ Calling(t)
    /\ turn' = [turn EXCEPT ![t].results = @ + 1]
    /\ UNCHANGED <<configured, saved, boots>>

\* Anything unexpected fails the stream, and the results so far are lost.
ToolRaises(t) ==
    /\ Calling(t)
    /\ End(t, "error")
    /\ UNCHANGED saved

\* Mutant of ToolsAnswered: the node returns once the first result is in.
FirstToolAnswered(t) ==
    /\ turn[t].pc = "tools"
    /\ MayRun(t)
    /\ turn[t].results > 0
    /\ Completed(t, Message(t, "results", turn[t].results), "agent")

\* Every call was run, one after the other: the results are stored together.
ToolsAnswered(t) ==
    /\ turn[t].pc = "tools"
    /\ MayRun(t)
    /\ turn[t].results = turn[t].calls
    /\ Completed(t, Message(t, "results", turn[t].results), "agent")

-----------------------------------------------------------------------------
(* The end of a turn *)

Done(t) ==
    /\ turn[t].pc = "answered"
    /\ End(t, "done")
    /\ UNCHANGED saved

\* Mutant of OutOfSteps: nobody catches GraphRecursionError.
OutOfStepsUncaught(t) ==
    /\ turn[t].pc \in Working
    /\ ~MayRun(t)
    /\ End(t, "broken")
    /\ UNCHANGED saved

\* The step limit.  Whether it also ends a turn whose last node answered is the
\* engine's affair: both ends are allowed.
OutOfSteps(t) ==
    /\ turn[t].pc \in Working
    /\ ~MayRun(t)
    /\ End(t, "error")
    /\ UNCHANGED saved

\* The client closes the stream; a node that had not ended is not stored.
Disconnect(t) ==
    /\ turn[t].pc \in Working
    /\ End(t, "gone")
    /\ UNCHANGED saved

-----------------------------------------------------------------------------
(* The process *)

\* The turns of S end with their process, and so do all histories.
Gone(S) ==
    [t \in Turns |-> IF t \in S THEN Ended(t, "gone")
                    ELSE [turn[t] EXCEPT !.kept = turn[t].pc # "ended"]]

\* The lifespan ends: model and store are dropped.  A request whose stream has not
\* begun may still find out.
Shutdown ==
    /\ configured
    /\ boots < MaxBoots
    /\ configured' = FALSE
    /\ saved' = [c \in Conversations |-> <<>>]
    /\ turn' = Gone({t \in Turns : turn[t].pc \in Working})
    /\ UNCHANGED boots

\* The next process, with a chat model or without one.
Boot ==
    /\ ~configured
    /\ boots < MaxBoots
    /\ boots' = boots + 1
    /\ configured' \in BOOLEAN
    /\ turn' = Gone({t \in Turns : turn[t].pc = "posted"})
    /\ UNCHANGED saved

-----------------------------------------------------------------------------

TurnStep(t) ==
    \/ StartUnconfigured(t) \/ StartBreaks(t) \/ Start(t)
    \/ ModelAnswers(t) \/ ModelRaises(t)
    \/ \E n \in 1..MaxCalls : ModelCalls(t, n) \/ CallsUnprintable(t, n)
    \/ ToolAnswers(t) \/ ToolRaises(t) \/ ToolsAnswered(t)
    \/ Done(t) \/ OutOfSteps(t)

Next ==
    \/ \E t \in Turns, c \in Conversations : Post(t, c)
    \/ \E t \in Turns : PostRefused(t) \/ Disconnect(t)
    \/ \E t \in Turns : TurnStep(t)
    \/ Shutdown \/ Boot

\* The server keeps serving a stream it has begun, model calls return or raise, and
\* so do tools, which wait for research no longer than their budget.
Spec == Init /\ [][Next]_vars /\ \A t \in Turns : WF_vars(TurnStep(t))

-----------------------------------------------------------------------------
(* Properties *)

MessageType ==
    [turn : Turns, kind : {"human", "calls", "results", "answer"}, size : 0..MaxCalls]

TurnType ==
    [pc : {"new", "posted", "ended"} \cup Working, conv : Conversations \cup {"none"},
     outcome : {"none", "refused", "done", "error", "broken", "gone"},
     history : Seq(MessageType), steps : 0..Limit, asked : 0..Limit,
     calls : 0..MaxCalls, results : 0..MaxCalls, kept : BOOLEAN]

\* The shape of every variable; no turn runs more nodes than the limit allows.
TypeOK ==
    /\ configured \in BOOLEAN
    /\ saved \in [Conversations -> Seq(MessageType)]
    /\ turn \in [Turns -> TurnType]
    /\ boots \in 0..MaxBoots

\* In a stored history a message that asks for tools is followed at once by one
\* result for each of them, unless it is the last thing its turn stored and the turn
\* is still running, was cut short or overlapped with another: a turn that is done
\* leaves no call unanswered, and no other turn gets in between (agent.py:32-38).
CallsAnswered ==
    \A c \in Conversations : \A i \in DOMAIN saved[c] :
        LET m == saved[c][i] IN
        m.kind = "calls" =>
          \/ /\ i + 1 \in DOMAIN saved[c]
             /\ saved[c][i + 1] = Message(m.turn, "results", m.size)
          \/ /\ turn[m.turn].kept => turn[m.turn].outcome # "done"
             /\ \A j \in DOMAIN saved[c] : j > i => saved[c][j].turn # m.turn

\* s begins with h.
Begins(h, s) == Len(h) <= Len(s) /\ \A i \in 1..Len(h) : s[i] = h[i]

\* The messages of a turn that is done stay in the conversation, in their places,
\* as long as the process lives; only turns that overlapped can lose each other's
\* (chat/service.py:26-28, chat.md:52).
DoneIsKept ==
    \A t \in Turns :
        turn[t].outcome = "done" /\ turn[t].kept =>
          Begins(turn[t].history, saved[turn[t].conv])

\* The model is asked at most about half as often as the limit has steps, so no
\* question can run up the bill (agent.py:11-13).
ModelCallsBounded == \A t \in Turns : turn[t].asked <= (Limit + 1) \div 2

\* A turn that began to work ends with `done` or `error`, unless the client or the
\* process is gone first (chat/service.py:49-50).
EveryTurnEnds ==
    \A t \in Turns :
        turn[t].pc \in Working ~> turn[t].outcome \in {"done", "error", "gone"}

=============================================================================
