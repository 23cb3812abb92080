--------------------------- MODULE ChatTurnProofs ---------------------------
(***************************************************************************)
(* Theorems about ChatTurn: the shape of its state, the bound on the calls *)
(* of the model, and what the stored histories keep of the turns that are  *)
(* done, for any number of turns, conversations, steps and processes.      *)
(***************************************************************************)
EXTENDS ChatTurn, TLAPS

\* A message appended to a sequence comes last, and all others stay in place.
LEMMA Appended ==
  ASSUME NEW S, NEW h \in Seq(S), NEW m \in S
  PROVE  /\ Append(h, m) \in Seq(S)
         /\ Len(h) \in Nat /\ DOMAIN h = 1..Len(h)
         /\ Len(Append(h, m)) = Len(h) + 1
         /\ DOMAIN Append(h, m) = 1..(Len(h) + 1)
         /\ \A i \in 1..Len(h) : Append(h, m)[i] = h[i]
         /\ Append(h, m)[Len(h) + 1] = m
OBVIOUS

-----------------------------------------------------------------------------
(* What a turn carries at each point.                                      *)

\* Two nodes for every call of the model but the last, and a conversation.
Carries(q) ==
    /\ q.pc \in Working \cup {"posted"} => q.conv \in Conversations
    /\ q.pc = "agent" => q.steps = 2 * q.asked
    /\ q.pc \in {"tools", "answered"} => q.steps + 1 = 2 * q.asked
    /\ q.pc \notin Working => q.steps = 0 /\ q.asked = 0
    /\ q.outcome # "none" => q.pc = "ended"
    /\ q.outcome = "done" => q.conv \in Conversations

TurnInv ==
    /\ TypeOK
    /\ \A t \in Turns : Carries(turn[t])
    /\ \A t \in Turns : turn[t].pc \in Working => configured

LEMMA FreshTurn == Fresh \in TurnType /\ Carries(Fresh)
BY LimitAssumption, MaxCallsAssumption DEF Fresh, TurnType, Carries, Working

LEMMA MessagesTyped ==
  ASSUME NEW t \in Turns, NEW kind \in {"human", "calls", "results", "answer"},
         NEW n \in 0..MaxCalls
  PROVE  Message(t, kind, n) \in MessageType
BY DEF Message, MessageType

\* The end of a turn, whatever it is.
LEMMA EndedTurn ==
  ASSUME TurnInv, NEW t \in Turns,
         NEW outcome \in {"refused", "done", "error", "broken", "gone"},
         outcome = "done" => turn[t].pc \in Working
  PROVE  /\ Ended(t, outcome) \in TurnType /\ Carries(Ended(t, outcome))
         /\ Ended(t, outcome).pc = "ended" /\ Ended(t, outcome).outcome = outcome
         /\ Ended(t, outcome).conv = turn[t].conv
         /\ Ended(t, outcome).kept = (outcome = "done" /\ turn[t].kept)
         /\ outcome = "done" => Ended(t, outcome).history = turn[t].history
<1>1. /\ turn[t] \in TurnType /\ Carries(turn[t])
  BY DEF TurnInv, TypeOK
<1>2. /\ 0 \in 0..Limit /\ 0 \in 0..MaxCalls /\ <<>> \in Seq(MessageType)
  BY LimitAssumption, MaxCallsAssumption
<1>3. PICK h \in Seq(MessageType), alone \in BOOLEAN :
        /\ Ended(t, outcome) = [Fresh EXCEPT !.pc = "ended", !.outcome = outcome,
                                 !.conv = turn[t].conv, !.history = h, !.kept = alone]
        /\ alone = (outcome = "done" /\ turn[t].kept)
        /\ outcome = "done" => h = turn[t].history
  <2> DEFINE h == IF outcome = "done" THEN turn[t].history ELSE <<>>
             alone == outcome = "done" /\ turn[t].kept
  <2>1. h \in Seq(MessageType) /\ alone \in BOOLEAN
    BY <1>1, <1>2 DEF TurnType
  <2>2. Ended(t, outcome) = [Fresh EXCEPT !.pc = "ended", !.outcome = outcome,
                               !.conv = turn[t].conv, !.history = h, !.kept = alone]
    BY DEF Ended
  <2>3. alone = (outcome = "done" /\ turn[t].kept) /\ (outcome = "done" => h = turn[t].history)
    OBVIOUS
  <2> HIDE DEF h, alone
  <2> QED
    BY <2>1, <2>2, <2>3
<1>4. Ended(t, outcome) \in TurnType
  <2>1. Ended(t, outcome) =
          [pc |-> "ended", conv |-> turn[t].conv, outcome |-> outcome, history |-> h,
           steps |-> 0, asked |-> 0, calls |-> 0, results |-> 0, kept |-> alone]
    BY <1>3 DEF Fresh
  <2>2. turn[t].conv \in Conversations \cup {"none"}
    BY <1>1 DEF TurnType
  <2> QED
    BY <1>2, <2>1, <2>2 DEF TurnType
<1>5. /\ Ended(t, outcome).pc = "ended" /\ Ended(t, outcome).outcome = outcome
      /\ Ended(t, outcome).conv = turn[t].conv
      /\ Ended(t, outcome).kept = (outcome = "done" /\ turn[t].kept)
      /\ outcome = "done" => Ended(t, outcome).history = turn[t].history
      /\ Ended(t, outcome).steps = 0 /\ Ended(t, outcome).asked = 0
  BY <1>3 DEF Fresh
<1>6. Carries(Ended(t, outcome))
  BY <1>1, <1>5 DEF Carries, Working
<1> QED
  BY <1>4, <1>5, <1>6

\* One turn moves and the process stays.
LEMMA TurnMoved ==
  ASSUME TurnInv, NEW t \in Turns, NEW q \in TurnType, Carries(q),
         q.pc \in Working => configured,
         turn' = [turn EXCEPT ![t] = q], UNCHANGED <<configured, boots>>,
         saved' \in [Conversations -> Seq(MessageType)]
  PROVE  TurnInv'
<1>1. turn' \in [Turns -> TurnType]
  BY DEF TurnInv, TypeOK
<1>2. \A u \in Turns : Carries(turn'[u])
  BY DEF TurnInv, TypeOK
<1>3. \A u \in Turns : turn'[u].pc \in Working => configured'
  BY DEF TurnInv, TypeOK
<1> QED
  BY <1>1, <1>2, <1>3 DEF TurnInv, TypeOK

\* A turn that ends and leaves the store alone.
LEMMA TurnEnded ==
  ASSUME TurnInv, NEW t \in Turns,
         NEW outcome \in {"refused", "done", "error", "broken", "gone"},
         outcome = "done" => turn[t].pc \in Working,
         End(t, outcome), saved' \in [Conversations -> Seq(MessageType)]
  PROVE  TurnInv'
<1>1. Ended(t, outcome).pc \notin Working
  BY EndedTurn DEF Working
<1> QED
  BY <1>1, EndedTurn, TurnMoved DEF End

\* The turn after a node, as Completed makes it.
After(t, message, pc) ==
    [turn[t] EXCEPT !.pc = pc, !.history = Append(turn[t].history, message),
                    !.steps = StepsAfter(t),
                    !.asked = @ + (IF turn[t].pc = "agent" THEN 1 ELSE 0),
                    !.calls = IF pc = "tools" THEN message.size ELSE 0,
                    !.results = 0]

LEMMA CompletedTurn ==
  ASSUME TurnInv, NEW t \in Turns, NEW m \in MessageType, NEW pc \in Working,
         turn[t].pc \in Working, MayRun(t),
         turn[t].pc = "agent" <=> pc # "agent", Completed(t, m, pc)
  PROVE  /\ TurnInv'
         /\ turn' = [turn EXCEPT ![t] = After(t, m, pc)]
         /\ saved' = [saved EXCEPT ![turn[t].conv] = Append(turn[t].history, m)]
         /\ turn[t].conv \in Conversations
         /\ turn[t].history \in Seq(MessageType)
         /\ Append(turn[t].history, m) \in Seq(MessageType)
<1>1. /\ turn \in [Turns -> TurnType] /\ turn[t] \in TurnType /\ Carries(turn[t])
      /\ saved \in [Conversations -> Seq(MessageType)] /\ configured
  BY DEF TurnInv, TypeOK
<1>2. turn[t].conv \in Conversations /\ turn[t].history \in Seq(MessageType)
  BY <1>1 DEF Carries, TurnType
<1>3. Append(turn[t].history, m) \in Seq(MessageType)
  BY <1>2, Appended
<1>4. turn' = [turn EXCEPT ![t] = After(t, m, pc)]
  BY <1>1 DEF Completed, After
<1>5. saved' = [saved EXCEPT ![turn[t].conv] = Append(turn[t].history, m)]
  BY DEF Completed
<1>6. saved' \in [Conversations -> Seq(MessageType)]
  BY <1>1, <1>2, <1>3, <1>5
<1>7. After(t, m, pc) \in TurnType
  <2>1. StepsAfter(t) \in 0..Limit
    BY <1>1, LimitAssumption DEF StepsAfter, MayRun, TurnType
  <2>2. turn[t].asked + (IF turn[t].pc = "agent" THEN 1 ELSE 0) \in 0..Limit
    BY <1>1, <2>1, LimitAssumption DEF StepsAfter, MayRun, TurnType, Carries, Working
  <2>3. (IF pc = "tools" THEN m.size ELSE 0) \in 0..MaxCalls /\ 0 \in 0..MaxCalls
    BY MaxCallsAssumption DEF MessageType
  <2>4. pc \in {"new", "posted", "ended"} \cup Working
    OBVIOUS
  <2> QED
    BY <1>1, <1>3, <2>1, <2>2, <2>3, <2>4 DEF After, TurnType
<1>8. Carries(After(t, m, pc)) /\ After(t, m, pc).pc = pc
  <2>1. /\ After(t, m, pc).pc = pc /\ After(t, m, pc).steps = turn[t].steps + 1
        /\ After(t, m, pc).asked = turn[t].asked + (IF turn[t].pc = "agent" THEN 1 ELSE 0)
        /\ After(t, m, pc).conv = turn[t].conv
        /\ After(t, m, pc).outcome = turn[t].outcome
    BY <1>1 DEF After, TurnType, StepsAfter
  <2>2. turn[t].outcome = "none"
    BY <1>1 DEF Carries, Working
  <2>3. turn[t].steps \in Nat /\ turn[t].asked \in Nat
    BY <1>1 DEF TurnType
  <2> QED
    BY <1>1, <2>1, <2>2, <2>3 DEF Carries, Working
<1>9. TurnInv'
  BY <1>1, <1>4, <1>6, <1>7, <1>8, TurnMoved DEF Completed
<1> QED
  BY <1>2, <1>3, <1>4, <1>5, <1>9


-----------------------------------------------------------------------------
(* The invariant of a turn                                                 *)

LEMMA TurnInit == Init => TurnInv
<1> SUFFICES ASSUME Init PROVE TurnInv
  OBVIOUS
<1>1. \A t \in Turns : turn[t] = Fresh
  BY DEF Init
<1>2. Fresh.pc \notin Working
  BY DEF Fresh, Working
<1>3. <<>> \in Seq(MessageType) /\ 0 \in 0..MaxBoots
  BY MaxBootsAssumption
<1> QED
  BY <1>1, <1>2, <1>3, FreshTurn DEF Init, TurnInv, TypeOK

LEMMA PostKeepsTurns ==
  ASSUME TurnInv, NEW t \in Turns, NEW c \in Conversations, Post(t, c)
  PROVE  TurnInv'
<1> DEFINE q == [turn[t] EXCEPT !.pc = "posted", !.conv = c]
<1>1. turn[t] \in TurnType /\ Carries(turn[t])
  BY DEF TurnInv, TypeOK
<1>2. turn' = [turn EXCEPT ![t] = q] /\ UNCHANGED <<configured, saved, boots>>
  BY <1>1 DEF Post, TurnInv, TypeOK
<1>3. q \in TurnType /\ Carries(q) /\ q.pc \notin Working
  BY <1>1 DEF Post, TurnType, Carries, Working
<1> QED
  BY <1>2, <1>3, TurnMoved DEF TurnInv, TypeOK

\* The history with which a turn begins, and what it does to the others.
LEMMA StartedTurn ==
  ASSUME TurnInv, NEW t \in Turns, Start(t)
  PROVE  /\ turn[t].conv \in Conversations
         /\ saved[turn[t].conv] \in Seq(MessageType)
         /\ Message(t, "human", 0) \in MessageType
         /\ turn'[t] = [turn[t] EXCEPT !.pc = "agent",
                           !.history = Append(saved[turn[t].conv], Message(t, "human", 0)),
                           !.kept = Others(t) = {}]
         /\ \A u \in Turns \ {t} :
              turn'[u] = [turn[u] EXCEPT !.kept = turn[u].kept /\ u \notin Others(t)]
         /\ saved' = [saved EXCEPT ![turn[t].conv] =
                         Append(saved[turn[t].conv], Message(t, "human", 0))]
<1>1. turn[t] \in TurnType /\ Carries(turn[t])
  BY DEF TurnInv, TypeOK
<1>2. turn[t].conv \in Conversations
  BY <1>1 DEF Start, Carries
<1>3. Message(t, "human", 0) \in MessageType
  BY MessagesTyped, MaxCallsAssumption
<1> QED
  BY <1>2, <1>3 DEF Start, Earlier, TurnInv, TypeOK

LEMMA StartKeepsTurns ==
  ASSUME TurnInv, NEW t \in Turns, Start(t)
  PROVE  TurnInv'
<1>1. Append(saved[turn[t].conv], Message(t, "human", 0)) \in Seq(MessageType)
  BY StartedTurn, Appended
<1>2. turn[t] \in TurnType /\ Carries(turn[t])
  BY DEF TurnInv, TypeOK
<1>3. PICK h \in Seq(MessageType), alone \in BOOLEAN :
        turn'[t] = [turn[t] EXCEPT !.pc = "agent", !.history = h, !.kept = alone]
  <2> DEFINE alone == Others(t) = {}
  <2>1. alone \in BOOLEAN
    OBVIOUS
  <2>2. turn'[t] = [turn[t] EXCEPT !.pc = "agent",
                      !.history = Append(saved[turn[t].conv], Message(t, "human", 0)),
                      !.kept = alone]
    BY StartedTurn
  <2> HIDE DEF alone
  <2> QED
    BY <1>1, <2>1, <2>2
<1>4. turn'[t] \in TurnType /\ Carries(turn'[t])
  <2>1. turn[t].pc = "posted"
    BY DEF Start
  <2>2. turn'[t] \in TurnType
    BY <1>2, <1>3 DEF TurnType, Working
  <2>3. /\ turn'[t].pc = "agent" /\ turn'[t].steps = 0 /\ turn'[t].asked = 0
        /\ turn'[t].conv = turn[t].conv /\ turn'[t].outcome = "none"
        /\ turn[t].conv \in Conversations
    BY <1>2, <1>3, <2>1 DEF TurnType, Carries, Working
  <2> QED
    BY <2>2, <2>3 DEF Carries, Working
<1>5. ASSUME NEW u \in Turns \ {t}
      PROVE  turn'[u] \in TurnType /\ Carries(turn'[u]) /\ turn'[u].pc = turn[u].pc
  <2>1. turn[u] \in TurnType /\ Carries(turn[u])
    BY DEF TurnInv, TypeOK
  <2>2. turn'[u] = [turn[u] EXCEPT !.kept = turn[u].kept /\ u \notin Others(t)]
    BY StartedTurn
  <2>3. (turn[u].kept /\ u \notin Others(t)) \in BOOLEAN
    OBVIOUS
  <2> QED
    BY <2>1, <2>2, <2>3 DEF TurnType, Carries, Working
<1>6. DOMAIN turn' = Turns /\ turn' = [u \in Turns |-> turn'[u]]
  BY DEF Start
<1>7. turn' \in [Turns -> TurnType]
  BY <1>4, <1>5, <1>6
<1>8. saved' \in [Conversations -> Seq(MessageType)]
  <2>1. saved' = [saved EXCEPT ![turn[t].conv] =
                    Append(saved[turn[t].conv], Message(t, "human", 0))]
    BY StartedTurn
  <2> QED
    BY <1>1, <2>1 DEF TurnInv, TypeOK
<1>9. \A u \in Turns : turn'[u].pc \in Working => configured'
  BY <1>5 DEF Start, TurnInv
<1> QED
  BY <1>4, <1>5, <1>7, <1>8, <1>9 DEF Start, TurnInv, TypeOK

LEMMA UnprintableKeepsTurns ==
  ASSUME TurnInv, NEW t \in Turns, NEW n \in 1..MaxCalls, CallsUnprintable(t, n)
  PROVE  TurnInv'
<1>1. /\ turn[t].conv \in Conversations /\ turn[t].history \in Seq(MessageType)
      /\ saved \in [Conversations -> Seq(MessageType)]
  BY DEF CallsUnprintable, TurnInv, TypeOK, TurnType, Carries, Working
<1>2. Append(turn[t].history, Message(t, "calls", n)) \in Seq(MessageType)
  BY <1>1, Appended, MessagesTyped
<1>3. saved' \in [Conversations -> Seq(MessageType)]
  BY <1>1, <1>2 DEF CallsUnprintable
<1> QED
  BY <1>3, TurnEnded DEF CallsUnprintable

LEMMA ToolKeepsTurns ==
  ASSUME TurnInv, NEW t \in Turns, ToolAnswers(t)
  PROVE  TurnInv'
<1> DEFINE q == [turn[t] EXCEPT !.results = @ + 1]
<1>1. turn[t] \in TurnType /\ Carries(turn[t]) /\ configured
  BY DEF ToolAnswers, Calling, Working, TurnInv, TypeOK
<1>2. turn' = [turn EXCEPT ![t] = q] /\ UNCHANGED <<configured, saved, boots>>
  BY <1>1 DEF ToolAnswers, TurnInv, TypeOK
<1>3. turn[t].results + 1 \in 0..MaxCalls
  BY <1>1, MaxCallsAssumption DEF ToolAnswers, Calling, TurnType
<1>4. q \in TurnType /\ Carries(q)
  BY <1>1, <1>3 DEF TurnType, Carries, Working
<1> QED
  BY <1>1, <1>2, <1>4, TurnMoved DEF TurnInv, TypeOK

LEMMA GoneKeepsTurns ==
  ASSUME TurnInv, NEW S \in SUBSET Turns, turn' = Gone(S)
  PROVE  /\ turn' \in [Turns -> TurnType]
         /\ \A u \in Turns : Carries(turn'[u])
         /\ \A u \in Turns :
              turn'[u].pc \in Working => turn[u].pc \in Working /\ u \notin S
<1> SUFFICES ASSUME NEW u \in Turns
             PROVE  /\ turn'[u] \in TurnType /\ Carries(turn'[u])
                    /\ turn'[u].pc \in Working => turn[u].pc \in Working /\ u \notin S
  BY DEF Gone
<1>1. CASE u \in S
  BY <1>1, EndedTurn DEF Gone, Working
<1>2. CASE u \notin S
  <2>1. PICK alive \in BOOLEAN : turn'[u] = [turn[u] EXCEPT !.kept = alive]
    BY <1>2 DEF Gone
  <2>2. turn[u] \in TurnType /\ Carries(turn[u])
    BY DEF TurnInv, TypeOK
  <2>3. turn'[u] \in TurnType
    BY <2>1, <2>2 DEF TurnType
  <2>4. Carries(turn'[u]) /\ turn'[u].pc = turn[u].pc
    BY <2>1, <2>2 DEF TurnType, Carries
  <2> QED
    BY <1>2, <2>3, <2>4
<1> QED
  BY <1>1, <1>2

LEMMA TurnStepKeepsTurns ==
  ASSUME TurnInv, NEW t \in Turns, TurnStep(t)
  PROVE  TurnInv'
<1>1. saved \in [Conversations -> Seq(MessageType)]
  BY DEF TurnInv, TypeOK
<1>2. CASE StartUnconfigured(t) \/ StartBreaks(t) \/ ModelRaises(t) \/ ToolRaises(t)
             \/ Done(t) \/ OutOfSteps(t)
  BY <1>1, <1>2, TurnEnded
     DEF StartUnconfigured, StartBreaks, ModelRaises, ToolRaises, Done, OutOfSteps, Working
<1>3. CASE Start(t)
  BY <1>3, StartKeepsTurns
<1>4. CASE ModelAnswers(t)
  BY <1>4, CompletedTurn, MessagesTyped, MaxCallsAssumption DEF ModelAnswers, Working
<1>5. ASSUME NEW n \in 1..MaxCalls, ModelCalls(t, n)
      PROVE  TurnInv'
  BY <1>5, CompletedTurn, MessagesTyped DEF ModelCalls, Working
<1>6. ASSUME NEW n \in 1..MaxCalls, CallsUnprintable(t, n)
      PROVE  TurnInv'
  BY <1>6, UnprintableKeepsTurns
<1>7. CASE ToolAnswers(t)
  BY <1>7, ToolKeepsTurns
<1>8. CASE ToolsAnswered(t)
  <2>1. turn[t].results \in 0..MaxCalls
    BY DEF TurnInv, TypeOK, TurnType
  <2> QED
    BY <1>8, <2>1, CompletedTurn, MessagesTyped DEF ToolsAnswered, Working
<1> QED
  BY <1>2, <1>3, <1>4, <1>5, <1>6, <1>7, <1>8 DEF TurnStep

LEMMA TurnNext == TurnInv /\ [Next]_vars => TurnInv'
<1> SUFFICES ASSUME TurnInv, [Next]_vars PROVE TurnInv'
  OBVIOUS
<1>1. ASSUME NEW t \in Turns, NEW c \in Conversations, Post(t, c)
      PROVE  TurnInv'
  BY <1>1, PostKeepsTurns
<1>2. ASSUME NEW t \in Turns, PostRefused(t) \/ Disconnect(t)
      PROVE  TurnInv'
  BY <1>2, TurnEnded DEF PostRefused, Disconnect, TurnInv, TypeOK
<1>3. ASSUME NEW t \in Turns, TurnStep(t)
      PROVE  TurnInv'
  BY <1>3, TurnStepKeepsTurns
<1>4. CASE Shutdown
  <2>1. {t \in Turns : turn[t].pc \in Working} \in SUBSET Turns
    OBVIOUS
  <2>2. saved' \in [Conversations -> Seq(MessageType)]
    BY <1>4 DEF Shutdown
  <2>3. \A u \in Turns : turn'[u].pc \notin Working
    BY <1>4, <2>1, GoneKeepsTurns DEF Shutdown
  <2> QED
    BY <1>4, <2>1, <2>2, <2>3, GoneKeepsTurns DEF Shutdown, TurnInv, TypeOK
<1>5. CASE Boot
  <2>1. {t \in Turns : turn[t].pc = "posted"} \in SUBSET Turns
    OBVIOUS
  <2>2. \A u \in Turns : turn'[u].pc \notin Working
    BY <1>5, <2>1, GoneKeepsTurns DEF Boot, TurnInv
  <2>3. boots' \in 0..MaxBoots
    BY <1>5, MaxBootsAssumption DEF Boot, TurnInv, TypeOK
  <2> QED
    BY <1>5, <2>1, <2>2, <2>3, GoneKeepsTurns DEF Boot, TurnInv, TypeOK
<1>6. CASE UNCHANGED vars
  BY <1>6 DEF vars, TurnInv, TypeOK, Carries
<1> QED
  BY <1>1, <1>2, <1>3, <1>4, <1>5, <1>6 DEF Next

LEMMA TurnInvariant == Spec => []TurnInv
BY TurnInit, TurnNext, PTL DEF Spec

\* The variables keep their shape, and no turn runs more nodes than RECURSION_LIMIT.
THEOREM ChatTurnTypeCorrect == Spec => []TypeOK
BY TurnInvariant, PTL DEF TurnInv

\* Whatever the model asks for, whatever the tools do: one question costs at most
\* half as many calls of the model as the limit has steps, rounded up.
THEOREM ModelCallsAreBounded == Spec => []ModelCallsBounded
<1>1. TurnInv => ModelCallsBounded
  <2> SUFFICES ASSUME TurnInv, NEW t \in Turns PROVE turn[t].asked <= (Limit + 1) \div 2
    BY DEF ModelCallsBounded
  <2>1. /\ turn[t].steps \in 0..Limit /\ turn[t].asked \in 0..Limit
        /\ Carries(turn[t])
        /\ turn[t].pc \in {"new", "posted", "ended"} \cup Working
    BY DEF TurnInv, TypeOK, TurnType
  <2>2. 2 * turn[t].asked <= turn[t].steps + 1
    BY <2>1, LimitAssumption DEF Carries, Working
  <2> QED
    BY <2>1, <2>2, LimitAssumption
<1> QED
  BY <1>1, TurnInvariant, PTL

-----------------------------------------------------------------------------
(* What a history keeps.  The operators take the turns as an argument, so  *)
(* that the lemmas about them speak of one state or of two.                *)

\* The turn is done, and nothing overlapped with it.
Settled(q) == q.outcome = "done" /\ q.kept

Answered(h, i) ==
    i + 1 \in DOMAIN h /\ h[i + 1] = Message(h[i].turn, "results", h[i].size)

LastOfTurn(h, i) == \A j \in DOMAIN h : j > i => h[j].turn # h[i].turn

\* h may be the history of c: its messages are of turns that have begun on c, calls
\* without results are the last words of turns that are not settled, and the settled
\* turns' histories are all in it.
Sound(tt, c, h) ==
    /\ \A i \in DOMAIN h :
         /\ tt[h[i].turn].conv = c
         /\ tt[h[i].turn].pc \notin {"new", "posted"}
         /\ h[i].kind = "calls" =>
              Answered(h, i) \/ (LastOfTurn(h, i) /\ ~Settled(tt[h[i].turn]))
    /\ \A x \in Turns : Settled(tt[x]) /\ tt[x].conv = c => Begins(tt[x].history, h)

\* In its own copy the calls of a turn have their results, but those it is running.
Own(t, q) ==
    LET h == q.history
        open == q.pc = "tools"
    IN /\ open => Len(h) > 0 /\ h[Len(h)] = Message(t, "calls", q.calls)
       /\ \A i \in DOMAIN h :
            h[i].turn = t /\ h[i].kind = "calls" => Answered(h, i) \/ (open /\ i = Len(h))

\* Another turn than t works on c.
Shared(tt, t, c) == \E u \in Turns \ {t} : tt[u].pc \in Working /\ tt[u].conv = c

\* Stored and working histories are sound; nobody disturbs a turn that is kept.
Histories(tt, sv) ==
    /\ \A c \in Conversations : Sound(tt, c, sv[c])
    /\ \A t \in Turns : tt[t].pc \in Working =>
         /\ Sound(tt, tt[t].conv, tt[t].history)
         /\ Own(t, tt[t])
         /\ tt[t].kept => sv[tt[t].conv] = tt[t].history /\ ~Shared(tt, t, tt[t].conv)

HistoryInv == TurnInv /\ Histories(turn, saved)

LEMMA AppendBegins ==
  ASSUME NEW h \in Seq(MessageType), NEW m \in MessageType, NEW g \in Seq(MessageType),
         Begins(g, h)
  PROVE  Begins(g, Append(h, m))
BY Appended DEF Begins

LEMMA BeginsItself ==
  ASSUME NEW h \in Seq(MessageType)
  PROVE  Begins(h, h)
BY DEF Begins

\* A history stays sound when turns that have begun stay where they are and none
\* gets settled.
LEMMA SoundKept ==
  ASSUME NEW tt \in [Turns -> TurnType], NEW uu \in [Turns -> TurnType],
         NEW c \in Conversations, NEW h \in Seq(MessageType), Sound(tt, c, h),
         \A x \in Turns : tt[x].pc \notin {"new", "posted"} =>
            uu[x].conv = tt[x].conv /\ uu[x].pc \notin {"new", "posted"},
         \A x \in Turns : Settled(uu[x]) =>
            Settled(tt[x]) /\ uu[x].conv = tt[x].conv /\ uu[x].history = tt[x].history
  PROVE  Sound(uu, c, h)
<1>1. ASSUME NEW i \in DOMAIN h
      PROVE  /\ uu[h[i].turn].conv = c
             /\ uu[h[i].turn].pc \notin {"new", "posted"}
             /\ h[i].kind = "calls" =>
                  Answered(h, i) \/ (LastOfTurn(h, i) /\ ~Settled(uu[h[i].turn]))
  <2>1. h[i] \in MessageType
    OBVIOUS
  <2>2. h[i].turn \in Turns
    BY <2>1 DEF MessageType
  <2> QED
    BY <2>2 DEF Sound
<1>2. \A x \in Turns : Settled(uu[x]) /\ uu[x].conv = c => Begins(uu[x].history, h)
  BY DEF Sound
<1> QED
  BY <1>1, <1>2 DEF Sound

\* A turn that has begun and is not done may add a message that answers what it asked.
LEMMA SoundAppended ==
  ASSUME NEW tt \in [Turns -> TurnType], NEW c \in Conversations,
         NEW h \in Seq(MessageType), Sound(tt, c, h), NEW m \in MessageType,
         tt[m.turn].conv = c, tt[m.turn].pc \notin {"new", "posted"},
         ~Settled(tt[m.turn]),
         \A i \in DOMAIN h : h[i].turn = m.turn /\ h[i].kind = "calls" =>
            Answered(h, i) \/ (i = Len(h) /\ m = Message(m.turn, "results", h[i].size))
  PROVE  Sound(tt, c, Append(h, m))
<1> DEFINE g == Append(h, m)
<1>1. /\ Len(h) \in Nat /\ DOMAIN h = 1..Len(h) /\ DOMAIN g = 1..(Len(h) + 1)
      /\ \A i \in 1..Len(h) : g[i] = h[i]
      /\ g[Len(h) + 1] = m
  BY Appended
<1> HIDE DEF g
<1>2. ASSUME NEW i \in DOMAIN g
      PROVE  /\ tt[g[i].turn].conv = c
             /\ tt[g[i].turn].pc \notin {"new", "posted"}
             /\ g[i].kind = "calls" =>
                  Answered(g, i) \/ (LastOfTurn(g, i) /\ ~Settled(tt[g[i].turn]))
  <2>1. CASE i = Len(h) + 1
    <3>1. g[i] = m /\ \A j \in DOMAIN g : ~(j > i)
      BY <1>1, <2>1
    <3> QED
      BY <3>1 DEF LastOfTurn
  <2>2. CASE i \in 1..Len(h)
    <3>1. g[i] = h[i] /\ i \in DOMAIN h /\ i \in Int
      BY <1>1, <2>2
    <3>2. Answered(h, i) => Answered(g, i)
      BY <1>1, <2>2, <3>1 DEF Answered
    <3>3. CASE h[i].kind # "calls" \/ Answered(h, i)
      BY <3>1, <3>2, <3>3 DEF Sound
    <3>4. CASE h[i].kind = "calls" /\ ~Answered(h, i)
      <4>1. LastOfTurn(h, i) /\ ~Settled(tt[h[i].turn])
        BY <3>1, <3>4 DEF Sound
      <4>2. CASE h[i].turn = m.turn
        <5>1. i = Len(h) /\ m = Message(m.turn, "results", h[i].size)
          BY <3>1, <3>4, <4>2
        <5>2. Answered(g, i)
          BY <1>1, <3>1, <4>2, <5>1 DEF Answered
        <5> QED
          BY <3>1, <5>2 DEF Sound
      <4>3. CASE h[i].turn # m.turn
        <5>1. ASSUME NEW j \in DOMAIN g, j > i PROVE g[j].turn # g[i].turn
          <6>1. CASE j = Len(h) + 1
            BY <1>1, <3>1, <4>3, <6>1
          <6>2. CASE j \in 1..Len(h)
            BY <1>1, <3>1, <4>1, <5>1, <6>2 DEF LastOfTurn
          <6> QED
            BY <1>1, <6>1, <6>2
        <5>2. LastOfTurn(g, i)
          BY <5>1 DEF LastOfTurn
        <5> QED
          BY <3>1, <4>1, <5>2 DEF Sound
      <4> QED
        BY <4>2, <4>3
    <3> QED
      BY <3>3, <3>4
  <2> QED
    BY <1>1, <2>1, <2>2
<1>3. ASSUME NEW x \in Turns, Settled(tt[x]), tt[x].conv = c
      PROVE  Begins(tt[x].history, g)
  <2>1. tt[x].history \in Seq(MessageType) /\ Begins(tt[x].history, h)
    BY <1>3 DEF Sound, TurnType
  <2> QED
    BY <2>1, AppendBegins DEF g
<1>4. Sound(tt, c, g)
  BY <1>2, <1>3 DEF Sound
<1> QED
  BY <1>4 DEF g

\* A turn is settled: its calls have their results, and its history is a beginning.
LEMMA SoundSettled ==
  ASSUME NEW tt \in [Turns -> TurnType], NEW uu \in [Turns -> TurnType],
         NEW c \in Conversations, NEW h \in Seq(MessageType), Sound(tt, c, h),
         NEW t \in Turns, \A x \in Turns \ {t} : uu[x] = tt[x],
         uu[t].conv = tt[t].conv, uu[t].pc \notin {"new", "posted"},
         c = tt[t].conv =>
           /\ Begins(uu[t].history, h)
           /\ \A i \in DOMAIN h :
                 h[i].turn = t /\ h[i].kind = "calls" => Answered(h, i)
  PROVE  Sound(uu, c, h)
<1>1. ASSUME NEW i \in DOMAIN h
      PROVE  /\ uu[h[i].turn].conv = c
             /\ uu[h[i].turn].pc \notin {"new", "posted"}
             /\ h[i].kind = "calls" =>
                  Answered(h, i) \/ (LastOfTurn(h, i) /\ ~Settled(uu[h[i].turn]))
  <2>1. h[i] \in MessageType
    OBVIOUS
  <2>2. h[i].turn \in Turns
    BY <2>1 DEF MessageType
  <2>3. CASE h[i].turn = t
    BY <2>3 DEF Sound
  <2>4. CASE h[i].turn # t
    BY <2>2, <2>4 DEF Sound
  <2> QED
    BY <2>3, <2>4
<1>2. \A x \in Turns : Settled(uu[x]) /\ uu[x].conv = c => Begins(uu[x].history, h)
  BY DEF Sound
<1> QED
  BY <1>1, <1>2 DEF Sound

-----------------------------------------------------------------------------
(* The steps, by what they do to the histories                             *)

\* For its histories a turn is where it was, and if it was begun, not kept anew.
Still(q, r) ==
    /\ r.pc = q.pc /\ r.conv = q.conv /\ r.outcome = q.outcome
    /\ r.history = q.history /\ r.calls = q.calls
    /\ r.kept => q.kept \/ q.pc \in {"new", "posted"}

\* A turn is posted, or over without being settled.
Idle(q, r) ==
    /\ r.pc \in {"posted", "ended"} /\ ~Settled(r)
    /\ q.pc \notin {"new", "posted"} => r.pc = "ended" /\ r.conv = q.conv

\* No turn does more than that.
Quiet(tt, uu) == \A x \in Turns : Still(tt[x], uu[x]) \/ Idle(tt[x], uu[x])

\* What the type and the shape of a turn say of it.
Shaped(tt) ==
    /\ tt \in [Turns -> TurnType]
    /\ \A x \in Turns : Carries(tt[x])

LEMMA QuietSound ==
  ASSUME NEW tt, Shaped(tt), NEW uu, Shaped(uu), Quiet(tt, uu),
         NEW c \in Conversations, NEW h \in Seq(MessageType), Sound(tt, c, h)
  PROVE  Sound(uu, c, h)
<1>1. ASSUME NEW x \in Turns, tt[x].pc \notin {"new", "posted"}
      PROVE  uu[x].conv = tt[x].conv /\ uu[x].pc \notin {"new", "posted"}
  BY <1>1 DEF Quiet, Still, Idle
<1>2. ASSUME NEW x \in Turns, Settled(uu[x])
      PROVE  Settled(tt[x]) /\ uu[x].conv = tt[x].conv /\ uu[x].history = tt[x].history
  <2>1. Still(tt[x], uu[x])
    BY <1>2 DEF Quiet, Idle
  <2>2. tt[x].outcome = "done" /\ tt[x].pc = "ended"
    BY <1>2, <2>1 DEF Settled, Still, Shaped, Carries
  <2> QED
    BY <1>2, <2>1, <2>2 DEF Settled, Still
<1> QED
  BY <1>1, <1>2, SoundKept DEF Shaped

LEMMA QuietHistories ==
  ASSUME NEW tt, Shaped(tt), NEW uu, Shaped(uu), Quiet(tt, uu),
         NEW sv \in [Conversations -> Seq(MessageType)], Histories(tt, sv)
  PROVE  Histories(uu, sv)
<1>1. \A c \in Conversations : Sound(uu, c, sv[c])
  BY QuietSound DEF Histories
<1>2. ASSUME NEW t \in Turns, uu[t].pc \in Working
      PROVE  /\ Sound(uu, uu[t].conv, uu[t].history)
             /\ Own(t, uu[t])
             /\ uu[t].kept =>
                  sv[uu[t].conv] = uu[t].history /\ ~Shared(uu, t, uu[t].conv)
  <2>1. Still(tt[t], uu[t]) /\ tt[t].pc \in Working
    BY <1>2 DEF Quiet, Idle, Still, Working
  <2>2. uu[t].conv \in Conversations /\ uu[t].history \in Seq(MessageType)
    BY <1>2 DEF Shaped, Carries, TurnType
  <2>3. Sound(tt, uu[t].conv, uu[t].history)
    BY <2>1 DEF Histories, Still
  <2>4. Sound(uu, uu[t].conv, uu[t].history)
    BY <2>2, <2>3, QuietSound
  <2>5. Own(t, uu[t])
    BY <2>1 DEF Histories, Still, Own
  <2>6. ASSUME uu[t].kept
        PROVE  sv[uu[t].conv] = uu[t].history /\ ~Shared(uu, t, uu[t].conv)
    <3>1. tt[t].kept
      BY <2>1, <2>6 DEF Still, Working
    <3>2. sv[tt[t].conv] = tt[t].history /\ ~Shared(tt, t, tt[t].conv)
      BY <2>1, <3>1 DEF Histories
    <3>3. \A u \in Turns : uu[u].pc \in Working =>
            tt[u].pc \in Working /\ tt[u].conv = uu[u].conv
      BY DEF Quiet, Idle, Still, Working
    <3> QED
      BY <2>1, <3>2, <3>3 DEF Still, Shared
  <2> QED
    BY <2>4, <2>5, <2>6
<1> QED
  BY <1>1, <1>2 DEF Histories

\* A turn that has ended unsettled leaves its last message in the store.
LEMMA LeftHistories ==
  ASSUME NEW tt, Shaped(tt), NEW sv \in [Conversations -> Seq(MessageType)],
         Histories(tt, sv), NEW c \in Conversations, NEW h \in Seq(MessageType),
         Sound(tt, c, h),
         \A u \in Turns : tt[u].pc \in Working /\ tt[u].conv = c => ~tt[u].kept
  PROVE  Histories(tt, [sv EXCEPT ![c] = h])
<1>1. \A d \in Conversations : Sound(tt, d, [sv EXCEPT ![c] = h][d])
  BY DEF Histories
<1>2. \A t \in Turns : tt[t].pc \in Working /\ tt[t].kept =>
        [sv EXCEPT ![c] = h][tt[t].conv] = sv[tt[t].conv]
  BY DEF Shaped, Carries
<1> QED
  BY <1>1, <1>2 DEF Histories

\* From tt to uu turn t, which works on c, adds m to its copy h, and the others stay.
Stores(tt, uu, t, c, h, m) ==
    /\ c \in Conversations /\ h \in Seq(MessageType) /\ m \in MessageType /\ m.turn = t
    /\ tt[t].pc \in Working \cup {"posted"} /\ tt[t].conv = c
    /\ Sound(tt, c, h)
    /\ \A i \in DOMAIN h : h[i].turn = t /\ h[i].kind = "calls" =>
         Answered(h, i) \/ (i = Len(h) /\ m = Message(t, "results", h[i].size))
    /\ uu[t].pc \in Working /\ uu[t].conv = c /\ uu[t].history = Append(h, m)
    /\ Own(t, uu[t])
    /\ uu[t].kept => ~Shared(tt, t, c)
    /\ \A x \in Turns \ {t} :
         /\ Still(tt[x], uu[x]) /\ (uu[x].kept => tt[x].kept)
         /\ tt[x].pc \in Working /\ tt[x].conv = c => ~uu[x].kept

\* It stores the copy.
LEMMA StoredHistories ==
  ASSUME NEW tt, Shaped(tt), NEW uu, Shaped(uu),
         NEW sv \in [Conversations -> Seq(MessageType)], Histories(tt, sv),
         NEW t \in Turns, NEW c, NEW h, NEW m, Stores(tt, uu, t, c, h, m)
  PROVE  Histories(uu, [sv EXCEPT ![c] = Append(h, m)])
<1> USE DEF Stores
<1> DEFINE g == Append(h, m)
           sw == [sv EXCEPT ![c] = g]
<1>0. g \in Seq(MessageType)
  BY Appended
<1>1. ~Settled(uu[t])
  BY DEF Settled, Shaped, Carries, Working
<1>2. ASSUME NEW d \in Conversations, NEW k \in Seq(MessageType), Sound(tt, d, k)
      PROVE  Sound(uu, d, k)
  <2>1. ASSUME NEW x \in Turns, tt[x].pc \notin {"new", "posted"}
        PROVE  uu[x].conv = tt[x].conv /\ uu[x].pc \notin {"new", "posted"}
    BY <2>1 DEF Still, Working
  <2>2. ASSUME NEW x \in Turns, Settled(uu[x])
        PROVE  Settled(tt[x]) /\ uu[x].conv = tt[x].conv /\ uu[x].history = tt[x].history
    BY <1>1, <2>2 DEF Still, Settled
  <2> QED
    BY <1>2, <2>1, <2>2, SoundKept DEF Shaped
<1>3. Sound(uu, c, g)
  <2>1. Sound(uu, c, h)
    BY <1>2
  <2>2. uu[m.turn].pc \notin {"new", "posted"}
    BY DEF Working
  <2> QED
    BY <1>1, <2>1, <2>2, SoundAppended DEF Shaped
<1> HIDE DEF g
<1>4. \A d \in Conversations : Sound(uu, d, sw[d])
  BY <1>2, <1>3 DEF Histories
<1>5. ASSUME NEW x \in Turns, uu[x].pc \in Working
      PROVE  /\ Sound(uu, uu[x].conv, uu[x].history)
             /\ Own(x, uu[x])
             /\ uu[x].kept =>
                  sw[uu[x].conv] = uu[x].history /\ ~Shared(uu, x, uu[x].conv)
  <2>1. CASE x = t
    <3>1. Sound(uu, uu[x].conv, uu[x].history) /\ sw[uu[x].conv] = uu[x].history
      BY <1>3, <2>1 DEF g
    <3>2. ~Shared(tt, t, c) => ~Shared(uu, t, c)
      BY DEF Shared, Still
    <3> QED
      BY <2>1, <3>1, <3>2
  <2>2. CASE x # t
    <3>1. Still(tt[x], uu[x]) /\ tt[x].pc \in Working
      BY <1>5, <2>2 DEF Still
    <3>2. uu[x].conv \in Conversations /\ uu[x].history \in Seq(MessageType)
      BY <1>5 DEF Shaped, Carries, TurnType
    <3>3. Sound(tt, uu[x].conv, uu[x].history)
      BY <3>1 DEF Histories, Still
    <3>4. Sound(uu, uu[x].conv, uu[x].history)
      BY <1>2, <3>2, <3>3
    <3>5. Own(x, uu[x])
      BY <3>1 DEF Histories, Still, Own
    <3>6. ASSUME uu[x].kept
          PROVE  sw[uu[x].conv] = uu[x].history /\ ~Shared(uu, x, uu[x].conv)
      <4>1. tt[x].kept /\ uu[x].conv # c
        BY <2>2, <3>1, <3>6 DEF Still
      <4>2. sv[tt[x].conv] = tt[x].history /\ ~Shared(tt, x, tt[x].conv)
        BY <3>1, <4>1 DEF Histories
      <4>3. \A u \in Turns \ {t} : uu[u].pc = tt[u].pc /\ uu[u].conv = tt[u].conv
        BY DEF Still
      <4>4. ~Shared(uu, x, uu[x].conv)
        BY <3>1, <4>1, <4>2, <4>3 DEF Still, Shared
      <4> QED
        BY <3>1, <3>2, <4>1, <4>2, <4>4 DEF Still
    <3> QED
      BY <3>4, <3>5, <3>6
  <2> QED
    BY <2>1, <2>2
<1>6. Histories(uu, sw)
  BY <1>4, <1>5 DEF Histories
<1> QED
  BY <1>6 DEF g

-----------------------------------------------------------------------------
(* The actions                                                             *)

LEMMA ShapedTurns == TurnInv => Shaped(turn) /\ saved \in [Conversations -> Seq(MessageType)]
BY DEF TurnInv, TypeOK, Shaped

LEMMA HistoryInit == Init => HistoryInv
<1> SUFFICES ASSUME Init PROVE Histories(turn, saved)
  BY TurnInit DEF HistoryInv
<1>1. \A t \in Turns : turn[t].pc = "new" /\ turn[t].outcome = "none"
  BY DEF Init, Fresh
<1>2. \A c \in Conversations : Sound(turn, c, saved[c])
  BY <1>1 DEF Init, Sound, Settled
<1> QED
  BY <1>1, <1>2 DEF Histories, Working

\* Steps that leave the store alone and bring no turn on.
LEMMA QuietStep ==
  ASSUME HistoryInv, TurnInv', Quiet(turn, turn'), UNCHANGED saved
  PROVE  Histories(turn', saved')
<1>1. /\ Shaped(turn) /\ Shaped(turn') /\ saved \in [Conversations -> Seq(MessageType)]
  BY ShapedTurns DEF HistoryInv, TurnInv, TypeOK, Shaped
<1>2. Histories(turn', saved)
  BY <1>1, QuietHistories DEF HistoryInv
<1> QED
  BY <1>2

LEMMA StillItself == \A q : Still(q, q)
BY DEF Still

LEMMA EndIsQuiet ==
  ASSUME TurnInv, NEW t \in Turns,
         NEW outcome \in {"refused", "done", "error", "broken", "gone"},
         outcome = "done" => ~turn[t].kept, outcome = "done" => turn[t].pc \in Working,
         End(t, outcome)
  PROVE  Quiet(turn, turn')
<1>1. \A x \in Turns \ {t} : turn'[x] = turn[x]
  BY DEF End, TurnInv, TypeOK
<1>2. turn'[t] = Ended(t, outcome)
  BY DEF End, TurnInv, TypeOK
<1>3. /\ turn'[t].pc = "ended" /\ turn'[t].outcome = outcome
      /\ turn'[t].conv = turn[t].conv
      /\ turn'[t].kept = (outcome = "done" /\ turn[t].kept)
  BY <1>2, EndedTurn
<1>4. Idle(turn[t], turn'[t])
  BY <1>3 DEF Idle, Settled
<1> QED
  BY <1>1, <1>4, StillItself DEF Quiet

LEMMA PostIsQuiet ==
  ASSUME TurnInv, TurnInv', NEW t \in Turns, NEW c \in Conversations, Post(t, c)
  PROVE  Quiet(turn, turn')
<1>1. \A x \in Turns \ {t} : turn'[x] = turn[x]
  BY DEF Post, TurnInv, TypeOK
<1>2. turn[t].pc = "new" /\ turn'[t].pc = "posted"
  BY DEF Post, TurnInv, TypeOK, TurnType
<1>3. ~Settled(turn'[t])
  BY <1>2 DEF TurnInv, Carries, Settled
<1> QED
  BY <1>1, <1>2, <1>3, StillItself DEF Quiet, Idle

LEMMA ToolIsQuiet ==
  ASSUME TurnInv, NEW t \in Turns, ToolAnswers(t)
  PROVE  Quiet(turn, turn')
<1>1. turn[t] \in TurnType /\ turn \in [Turns -> TurnType]
  BY DEF TurnInv, TypeOK
<1>2. \A x \in Turns \ {t} : turn'[x] = turn[x]
  BY <1>1 DEF ToolAnswers
<1>3. turn'[t] = [turn[t] EXCEPT !.results = @ + 1]
  BY <1>1 DEF ToolAnswers
<1>4. Still(turn[t], turn'[t])
  BY <1>1, <1>3 DEF Still, TurnType
<1> QED
  BY <1>2, <1>4, StillItself DEF Quiet

\* A process ends or begins: no turn of before is settled any more.
LEMMA GoneIsQuiet ==
  ASSUME TurnInv, NEW S \in SUBSET Turns, turn' = Gone(S),
         \A u \in Turns : turn[u].pc \in Working => u \in S
  PROVE  /\ Quiet(turn, turn')
         /\ \A u \in Turns : ~Settled(turn'[u])
<1> SUFFICES ASSUME NEW u \in Turns
             PROVE  /\ Still(turn[u], turn'[u]) \/ Idle(turn[u], turn'[u])
                    /\ ~Settled(turn'[u])
  BY DEF Quiet
<1>1. turn[u] \in TurnType /\ Carries(turn[u])
  BY DEF TurnInv, TypeOK
<1>2. CASE u \in S
  <2>1. turn'[u] = Ended(u, "gone")
    BY <1>2 DEF Gone
  <2> QED
    BY <2>1, EndedTurn DEF Idle, Settled
<1>3. CASE u \notin S
  <2>1. turn'[u] = [turn[u] EXCEPT !.kept = turn[u].pc # "ended"]
    BY <1>3 DEF Gone
  <2>2. Still(turn[u], turn'[u])
    BY <1>1, <1>3, <2>1 DEF Still, TurnType, Working
  <2>3. ~Settled(turn'[u])
    BY <1>1, <2>1 DEF Settled, Carries, TurnType
  <2> QED
    BY <2>2, <2>3
<1> QED
  BY <1>2, <1>3

LEMMA StartHistories ==
  ASSUME HistoryInv, TurnInv', NEW t \in Turns, Start(t)
  PROVE  Histories(turn', saved')
<1> DEFINE c == turn[t].conv
           m == Message(t, "human", 0)
<1>1. TurnInv /\ Histories(turn, saved) /\ Shaped(turn) /\ Shaped(turn')
      /\ saved \in [Conversations -> Seq(MessageType)]
  BY ShapedTurns DEF HistoryInv, TurnInv, TypeOK, Shaped
<1>2. /\ c \in Conversations /\ saved[c] \in Seq(MessageType) /\ m \in MessageType
      /\ turn[t].pc = "posted" /\ m.turn = t /\ m.kind = "human"
      /\ saved' = [saved EXCEPT ![c] = Append(saved[c], m)]
  BY <1>1, StartedTurn DEF Start, Message
<1>3. Sound(turn, c, saved[c])
  BY <1>1, <1>2 DEF Histories
<1>4. \A i \in DOMAIN saved[c] : saved[c][i].turn # t
  BY <1>2, <1>3 DEF Sound
<1>5. /\ turn'[t].pc = "agent" /\ turn'[t].conv = c
      /\ turn'[t].history = Append(saved[c], m)
      /\ turn'[t].kept => Others(t) = {}
  <2>1. turn[t] \in TurnType
    BY <1>1 DEF Shaped
  <2>2. PICK alone \in BOOLEAN :
          /\ alone => Others(t) = {}
          /\ turn'[t] = [turn[t] EXCEPT !.pc = "agent",
                           !.history = Append(saved[turn[t].conv], Message(t, "human", 0)),
                           !.kept = alone]
    <3> DEFINE alone == Others(t) = {}
    <3>1. alone \in BOOLEAN /\ (alone => Others(t) = {})
      OBVIOUS
    <3>2. turn'[t] = [turn[t] EXCEPT !.pc = "agent",
                        !.history = Append(saved[turn[t].conv], Message(t, "human", 0)),
                        !.kept = alone]
      BY <1>1, StartedTurn
    <3> HIDE DEF alone
    <3> QED
      BY <3>1, <3>2
  <2> QED
    BY <2>1, <2>2 DEF TurnType
<1>6. Own(t, turn'[t])
  <2>1. ASSUME NEW i \in DOMAIN turn'[t].history, turn'[t].history[i].turn = t,
               turn'[t].history[i].kind = "calls"
        PROVE  FALSE
    BY <1>2, <1>4, <1>5, <2>1, Appended
  <2> QED
    BY <1>5, <2>1 DEF Own
<1>7. ASSUME NEW x \in Turns \ {t}
      PROVE  /\ Still(turn[x], turn'[x])
             /\ turn'[x].kept => turn[x].kept /\ x \notin Others(t)
  <2>1. turn[x] \in TurnType
    BY <1>1 DEF Shaped
  <2>2. turn'[x] = [turn[x] EXCEPT !.kept = turn[x].kept /\ x \notin Others(t)]
    BY <1>1, StartedTurn
  <2> QED
    BY <2>1, <2>2 DEF Still, TurnType
<1>8. \A x \in Turns \ {t} : turn[x].pc \in Working /\ turn[x].conv = c => x \in Others(t)
  BY DEF Others
<1>9. turn'[t].kept => ~Shared(turn, t, c)
  BY <1>5, <1>8 DEF Shared
<1>10. turn'[t].pc \in Working
  BY <1>5 DEF Working
<1>11. Stores(turn, turn', t, c, saved[c], m)
  BY <1>2, <1>3, <1>4, <1>5, <1>6, <1>7, <1>8, <1>9, <1>10 DEF Stores
<1>12. Histories(turn', [saved EXCEPT ![c] = Append(saved[c], m)])
  <2> HIDE DEF c, m
  <2> QED
    BY <1>1, <1>11, StoredHistories
<1> QED
  BY <1>2, <1>12

\* A node is completed: its message answers what the turn had open.
LEMMA CompletedHistories ==
  ASSUME HistoryInv, NEW t \in Turns, NEW m \in MessageType, NEW pc \in Working,
         turn[t].pc \in Working, MayRun(t), m.turn = t,
         turn[t].pc = "agent" <=> pc # "agent", Completed(t, m, pc),
         m.kind = "calls" <=> pc = "tools",
         turn[t].pc = "tools" => m = Message(t, "results", turn[t].calls),
         pc = "tools" => m = Message(t, "calls", m.size),
         turn[t].pc # "answered"
  PROVE  Histories(turn', saved')
<1> DEFINE c == turn[t].conv
           h == turn[t].history
<1>1. TurnInv /\ Histories(turn, saved) /\ Shaped(turn)
      /\ saved \in [Conversations -> Seq(MessageType)]
  BY ShapedTurns DEF HistoryInv
<1>2. /\ TurnInv' /\ turn' = [turn EXCEPT ![t] = After(t, m, pc)]
      /\ saved' = [saved EXCEPT ![c] = Append(h, m)]
      /\ c \in Conversations /\ h \in Seq(MessageType)
  BY <1>1, CompletedTurn
<1>3. Shaped(turn')
  BY <1>2 DEF TurnInv, TypeOK, Shaped
<1>4. Sound(turn, c, h) /\ Own(t, turn[t])
  BY <1>1 DEF Histories
<1>5. \A x \in Turns \ {t} : turn'[x] = turn[x]
  BY <1>1, <1>2 DEF Shaped
<1>6. /\ turn'[t].pc = pc /\ turn'[t].conv = c /\ turn'[t].history = Append(h, m)
      /\ turn'[t].kept = turn[t].kept
      /\ pc = "tools" => turn'[t].calls = m.size
  <2>1. turn[t] \in TurnType
    BY <1>1 DEF Shaped
  <2>2. turn'[t] = After(t, m, pc)
    BY <1>1, <1>2 DEF Shaped
  <2> QED
    BY <2>1, <2>2 DEF After, TurnType
<1>7. ASSUME NEW i \in DOMAIN h, h[i].turn = t, h[i].kind = "calls"
      PROVE  Answered(h, i) \/ (i = Len(h) /\ m = Message(t, "results", h[i].size))
  <2>1. CASE turn[t].pc = "agent"
    BY <1>4, <1>7, <2>1 DEF Own
  <2>2. CASE turn[t].pc = "tools" /\ i = Len(h)
    <3>1. h[i] = Message(t, "calls", turn[t].calls)
      BY <1>4, <2>2 DEF Own
    <3> QED
      BY <2>2, <3>1 DEF Message
  <2>3. CASE turn[t].pc = "tools" /\ i # Len(h)
    BY <1>4, <1>7, <2>3 DEF Own
  <2> QED
    BY <2>1, <2>2, <2>3 DEF Working
<1>8. Own(t, turn'[t])
  <2> DEFINE g == turn'[t].history
  <2>1. /\ g = Append(h, m) /\ Len(h) \in Nat /\ DOMAIN h = 1..Len(h)
        /\ DOMAIN g = 1..(Len(h) + 1) /\ Len(g) = Len(h) + 1
        /\ \A i \in 1..Len(h) : g[i] = h[i]
        /\ g[Len(h) + 1] = m
    BY <1>2, <1>6, Appended
  <2> HIDE DEF g, h
  <2>2. ASSUME NEW i \in DOMAIN g, g[i].turn = t, g[i].kind = "calls"
        PROVE  Answered(g, i) \/ (pc = "tools" /\ i = Len(g))
    <3>1. CASE i = Len(h) + 1
      BY <2>1, <2>2, <3>1
    <3>2. CASE i \in 1..Len(h)
      <4>1. i \in DOMAIN h /\ h[i].turn = t /\ h[i].kind = "calls" /\ g[i] = h[i]
        BY <2>1, <2>2, <3>2
      <4>2. CASE Answered(h, i)
        <5>1. i + 1 \in 1..Len(h) /\ h[i + 1] = Message(h[i].turn, "results", h[i].size)
          BY <2>1, <4>2 DEF Answered
        <5>2. i + 1 \in DOMAIN g /\ g[i + 1] = h[i + 1]
          BY <2>1, <3>2, <5>1
        <5> QED
          BY <4>1, <5>1, <5>2 DEF Answered
      <4>3. CASE i = Len(h) /\ m = Message(t, "results", h[i].size)
        <5>1. i + 1 \in DOMAIN g /\ g[i + 1] = m
          BY <2>1, <4>3
        <5> QED
          BY <4>1, <4>3, <5>1 DEF Answered
      <4> QED
        BY <1>7, <4>1, <4>2, <4>3
    <3> QED
      BY <2>1, <3>1, <3>2
  <2>3. pc = "tools" => Len(g) > 0 /\ g[Len(g)] = Message(t, "calls", turn'[t].calls)
    BY <1>6, <2>1
  <2> QED
    BY <1>6, <2>2, <2>3 DEF Own, g
<1>9. turn[t].kept => ~Shared(turn, t, c)
  BY <1>1 DEF Histories
<1>10. \A x \in Turns \ {t} : turn[x].pc \in Working /\ turn[x].conv = c => ~turn[x].kept
  BY <1>1 DEF Histories, Shared
<1>11. Stores(turn, turn', t, c, h, m)
  <2>1. \A x \in Turns \ {t} : Still(turn[x], turn'[x]) /\ (turn'[x].kept => turn[x].kept)
    BY <1>5, StillItself
  <2>2. \A x \in Turns \ {t} : turn[x].pc \in Working /\ turn[x].conv = c => ~turn'[x].kept
    BY <1>5, <1>10
  <2> HIDE DEF c, h
  <2> QED
    BY <1>2, <1>4, <1>6, <1>7, <1>8, <1>9, <2>1, <2>2 DEF Stores, c
<1>12. Histories(turn', [saved EXCEPT ![c] = Append(h, m)])
  <2> HIDE DEF c, h
  <2> QED
    BY <1>1, <1>3, <1>11, StoredHistories
<1> QED
  BY <1>2, <1>12

\* The calls were stored when status_line failed: they stay without results.
LEMMA UnprintableHistories ==
  ASSUME HistoryInv, TurnInv', NEW t \in Turns, NEW n \in 1..MaxCalls,
         CallsUnprintable(t, n)
  PROVE  Histories(turn', saved')
<1> DEFINE c == turn[t].conv
           h == turn[t].history
           m == Message(t, "calls", n)
<1>1. TurnInv /\ Histories(turn, saved) /\ Shaped(turn) /\ Shaped(turn')
      /\ saved \in [Conversations -> Seq(MessageType)]
  BY ShapedTurns DEF HistoryInv, TurnInv, TypeOK, Shaped
<1>2. Quiet(turn, turn')
  BY <1>1, EndIsQuiet DEF CallsUnprintable
<1>3. CASE UNCHANGED saved
  BY <1>2, <1>3, QuietStep
<1>4. CASE saved' = [saved EXCEPT ![c] = Append(h, m)]
  <2>1. /\ turn[t].pc = "agent" /\ c \in Conversations /\ h \in Seq(MessageType)
        /\ m \in MessageType /\ m.turn = t
    <3>1. turn[t] \in TurnType /\ Carries(turn[t]) /\ turn[t].pc = "agent"
      BY <1>1 DEF Shaped, CallsUnprintable
    <3> QED
      BY <3>1, MessagesTyped DEF TurnType, Carries, Working, Message
  <2>2. Sound(turn, c, h) /\ Own(t, turn[t]) /\ (turn[t].kept => ~Shared(turn, t, c))
    BY <1>1, <2>1 DEF Histories, Working
  <2>3. Histories(turn', saved)
    BY <1>1, <1>2, QuietHistories
  <2>4. turn'[t].pc = "ended" /\ turn'[t].conv = c /\ ~Settled(turn'[t])
    <3>1. turn'[t] = Ended(t, "error")
      BY <1>1 DEF CallsUnprintable, End, Shaped
    <3> QED
      BY <1>1, <3>1, EndedTurn DEF Settled
  <2>5. Append(h, m) \in Seq(MessageType)
    BY <2>1, Appended
  <2>6. Sound(turn', c, Append(h, m))
    <3>1. Sound(turn', c, h)
      BY <1>1, <1>2, <2>1, <2>2, QuietSound
    <3>2. \A i \in DOMAIN h : h[i].turn = t /\ h[i].kind = "calls" => Answered(h, i)
      BY <2>1, <2>2 DEF Own
    <3>3. turn' \in [Turns -> TurnType]
      BY <1>1 DEF Shaped
    <3> HIDE DEF c, h, m
    <3> QED
      BY <2>1, <2>4, <3>1, <3>2, <3>3, SoundAppended
  <2>7. \A u \in Turns : turn'[u].pc \in Working /\ turn'[u].conv = c => ~turn'[u].kept
    <3>1. ASSUME NEW u \in Turns, turn'[u].pc \in Working, turn'[u].conv = c
          PROVE  ~turn'[u].kept
      <4>1. u # t
        BY <2>4, <3>1 DEF Working
      <4>2. turn'[u] = turn[u]
        BY <1>1, <4>1 DEF CallsUnprintable, End, Shaped
      <4>3. Shared(turn, u, turn[u].conv)
        BY <2>1, <3>1, <4>1, <4>2 DEF Shared, Working
      <4> QED
        BY <1>1, <3>1, <4>2, <4>3 DEF Histories
    <3> QED
      BY <3>1
  <2>8. Histories(turn', [saved EXCEPT ![c] = Append(h, m)])
    <3> HIDE DEF c, h, m
    <3> QED
      BY <1>1, <2>1, <2>3, <2>5, <2>6, <2>7, LeftHistories
  <2> QED
    BY <1>4, <2>8
<1> QED
  BY <1>3, <1>4 DEF CallsUnprintable

\* A turn is done: what the store has is what it leaves behind.
LEMMA DoneHistories ==
  ASSUME HistoryInv, TurnInv', NEW t \in Turns, Done(t)
  PROVE  Histories(turn', saved')
<1>1. TurnInv /\ Histories(turn, saved) /\ Shaped(turn) /\ Shaped(turn')
      /\ saved \in [Conversations -> Seq(MessageType)]
  BY ShapedTurns DEF HistoryInv, TurnInv, TypeOK, Shaped
<1>2. turn[t].pc = "answered" /\ End(t, "done") /\ saved' = saved
  BY DEF Done
<1>3. CASE ~turn[t].kept
  <2>1. Quiet(turn, turn')
    BY <1>1, <1>2, <1>3, EndIsQuiet DEF Working
  <2> QED
    BY <1>2, <2>1, QuietStep
<1>4. CASE turn[t].kept
  <2>1. /\ turn'[t].pc = "ended" /\ turn'[t].conv = turn[t].conv
        /\ turn'[t].history = turn[t].history
        /\ \A x \in Turns \ {t} : turn'[x] = turn[x]
    <3>1. turn'[t] = Ended(t, "done")
      BY <1>1, <1>2 DEF End, Shaped
    <3>2. \A x \in Turns \ {t} : turn'[x] = turn[x]
      BY <1>1, <1>2 DEF End, Shaped
    <3> QED
      BY <1>1, <1>2, <3>1, <3>2, EndedTurn DEF Working
  <2>2. /\ saved[turn[t].conv] = turn[t].history /\ ~Shared(turn, t, turn[t].conv)
        /\ Own(t, turn[t])
    BY <1>1, <1>2, <1>4 DEF Histories, Working
  <2>3. turn[t].history \in Seq(MessageType)
    BY <1>1 DEF Shaped, TurnType
  <2>4. \A i \in DOMAIN turn[t].history :
          turn[t].history[i].turn = t /\ turn[t].history[i].kind = "calls" =>
            Answered(turn[t].history, i)
    BY <1>2, <2>2 DEF Own
  <2>5. ASSUME NEW c \in Conversations, NEW h \in Seq(MessageType), Sound(turn, c, h),
               c = turn[t].conv => h = turn[t].history
        PROVE  Sound(turn', c, h)
    <3>1. c = turn[t].conv =>
            /\ Begins(turn'[t].history, h)
            /\ \A i \in DOMAIN h : h[i].turn = t /\ h[i].kind = "calls" => Answered(h, i)
      BY <2>1, <2>3, <2>4, <2>5, BeginsItself
    <3> QED
      BY <1>1, <2>1, <2>5, <3>1, SoundSettled DEF Shaped
  <2>6. \A c \in Conversations : Sound(turn', c, saved[c])
    BY <1>1, <2>2, <2>5 DEF Histories
  <2>7. ASSUME NEW u \in Turns, turn'[u].pc \in Working
        PROVE  /\ Sound(turn', turn'[u].conv, turn'[u].history)
               /\ Own(u, turn'[u])
               /\ turn'[u].kept => /\ saved[turn'[u].conv] = turn'[u].history
                                   /\ ~Shared(turn', u, turn'[u].conv)
    <3>1. u # t /\ turn'[u] = turn[u] /\ turn[u].pc \in Working
      BY <2>1, <2>7 DEF Working
    <3>2. turn[u].conv # turn[t].conv
      BY <2>2, <3>1 DEF Shared
    <3>3. turn[u].conv \in Conversations /\ turn[u].history \in Seq(MessageType)
      BY <1>1, <3>1 DEF Shaped, Carries, TurnType
    <3>4. Sound(turn, turn[u].conv, turn[u].history)
      BY <1>1, <3>1 DEF Histories
    <3>5. Sound(turn', turn[u].conv, turn[u].history)
      BY <2>5, <3>2, <3>3, <3>4
    <3>6. ~Shared(turn, u, turn[u].conv) => ~Shared(turn', u, turn[u].conv)
      BY <2>1 DEF Shared, Working
    <3> QED
      BY <1>1, <3>1, <3>5, <3>6 DEF Histories
  <2>8. Histories(turn', saved)
    BY <2>6, <2>7 DEF Histories
  <2> QED
    BY <1>2, <2>8
<1> QED
  BY <1>3, <1>4

\* The store is emptied, and no turn of before counts on it.
LEMMA ShutdownHistories ==
  ASSUME HistoryInv, Shutdown
  PROVE  Histories(turn', saved')
<1> DEFINE S == {t \in Turns : turn[t].pc \in Working}
<1>1. TurnInv /\ turn' = Gone(S) /\ S \in SUBSET Turns
  BY DEF HistoryInv, Shutdown
<1>2. /\ \A u \in Turns : ~Settled(turn'[u])
      /\ \A u \in Turns : turn'[u].pc \notin Working
  BY <1>1, GoneIsQuiet, GoneKeepsTurns
<1>3. \A c \in Conversations : Sound(turn', c, <<>>)
  BY <1>2 DEF Sound
<1> QED
  BY <1>2, <1>3 DEF Histories, Shutdown

LEMMA BootHistories ==
  ASSUME HistoryInv, TurnInv', Boot
  PROVE  Histories(turn', saved')
<1> DEFINE S == {t \in Turns : turn[t].pc = "posted"}
<1>1. TurnInv /\ turn' = Gone(S) /\ S \in SUBSET Turns /\ UNCHANGED saved
  BY DEF HistoryInv, Boot
<1>2. \A u \in Turns : turn[u].pc \notin Working
  BY DEF HistoryInv, TurnInv, Boot
<1>3. Quiet(turn, turn')
  BY <1>1, <1>2, GoneIsQuiet
<1> QED
  BY <1>1, <1>3, QuietStep

LEMMA TurnStepHistories ==
  ASSUME HistoryInv, TurnInv', NEW t \in Turns, TurnStep(t)
  PROVE  Histories(turn', saved')
<1>1. TurnInv
  BY DEF HistoryInv
<1>2. CASE StartUnconfigured(t) \/ StartBreaks(t) \/ ModelRaises(t) \/ ToolRaises(t)
             \/ OutOfSteps(t)
  <2>1. Quiet(turn, turn')
    BY <1>1, <1>2, EndIsQuiet
       DEF StartUnconfigured, StartBreaks, ModelRaises, ToolRaises, OutOfSteps
  <2> QED
    BY <1>2, <2>1, QuietStep
       DEF StartUnconfigured, StartBreaks, ModelRaises, ToolRaises, OutOfSteps
<1>3. CASE Start(t)
  BY <1>3, StartHistories
<1>4. CASE ModelAnswers(t)
  <2> DEFINE m == Message(t, "answer", 0)
  <2>1. m \in MessageType /\ m.turn = t /\ m.kind = "answer"
    BY MessagesTyped, MaxCallsAssumption DEF Message
  <2>2. turn[t].pc = "agent" /\ MayRun(t) /\ Completed(t, m, "answered")
    BY <1>4 DEF ModelAnswers
  <2> HIDE DEF m
  <2> QED
    BY <2>1, <2>2, CompletedHistories DEF Working
<1>5. ASSUME NEW n \in 1..MaxCalls, ModelCalls(t, n)
      PROVE  Histories(turn', saved')
  <2> DEFINE m == Message(t, "calls", n)
  <2>1. /\ m \in MessageType /\ m.turn = t /\ m.kind = "calls"
        /\ m = Message(t, "calls", m.size)
    BY MessagesTyped DEF Message
  <2>2. turn[t].pc = "agent" /\ MayRun(t) /\ Completed(t, m, "tools")
    BY <1>5 DEF ModelCalls
  <2> HIDE DEF m
  <2> QED
    BY <2>1, <2>2, CompletedHistories DEF Working
<1>6. ASSUME NEW n \in 1..MaxCalls, CallsUnprintable(t, n)
      PROVE  Histories(turn', saved')
  BY <1>6, UnprintableHistories
<1>7. CASE ToolAnswers(t)
  BY <1>1, <1>7, ToolIsQuiet, QuietStep DEF ToolAnswers
<1>8. CASE ToolsAnswered(t)
  <2> DEFINE m == Message(t, "results", turn[t].calls)
  <2>1. turn[t].calls \in 0..MaxCalls
    BY <1>1 DEF TurnInv, TypeOK, TurnType
  <2>2. m \in MessageType /\ m.turn = t /\ m.kind = "results"
    BY <2>1, MessagesTyped DEF Message
  <2>3. turn[t].pc = "tools" /\ MayRun(t) /\ Completed(t, m, "agent")
    BY <1>8 DEF ToolsAnswered
  <2>4. m = Message(t, "results", turn[t].calls)
    OBVIOUS
  <2> HIDE DEF m
  <2> QED
    BY <2>2, <2>3, <2>4, CompletedHistories DEF Working
<1>9. CASE Done(t)
  BY <1>9, DoneHistories
<1> QED
  BY <1>2, <1>3, <1>4, <1>5, <1>6, <1>7, <1>8, <1>9 DEF TurnStep

LEMMA HistoryNext == HistoryInv /\ [Next]_vars => HistoryInv'
<1> SUFFICES ASSUME HistoryInv, [Next]_vars PROVE HistoryInv'
  OBVIOUS
<1>1. TurnInv /\ TurnInv'
  BY TurnNext DEF HistoryInv
<1>2. Histories(turn', saved')
  <2>1. ASSUME NEW t \in Turns, NEW c \in Conversations, Post(t, c)
        PROVE  Histories(turn', saved')
    BY <1>1, <2>1, PostIsQuiet, QuietStep DEF Post
  <2>2. ASSUME NEW t \in Turns, PostRefused(t) \/ Disconnect(t)
        PROVE  Histories(turn', saved')
    <3>1. Quiet(turn, turn')
      BY <1>1, <2>2, EndIsQuiet DEF PostRefused, Disconnect
    <3> QED
      BY <1>1, <2>2, <3>1, QuietStep DEF PostRefused, Disconnect
  <2>3. ASSUME NEW t \in Turns, TurnStep(t)
        PROVE  Histories(turn', saved')
    BY <1>1, <2>3, TurnStepHistories
  <2>4. CASE Shutdown
    BY <2>4, ShutdownHistories
  <2>5. CASE Boot
    BY <1>1, <2>5, BootHistories
  <2>6. CASE UNCHANGED vars
    BY <2>6 DEF vars, HistoryInv
  <2> QED
    BY <2>1, <2>2, <2>3, <2>4, <2>5, <2>6 DEF Next
<1>3. Histories(turn, saved)'
  BY <1>2 DEF Histories, Sound, Settled, Own, Shared, Answered, LastOfTurn
<1> QED
  BY <1>1, <1>3 DEF HistoryInv

LEMMA HistoryInvariant == Spec => []HistoryInv
BY HistoryInit, HistoryNext, PTL DEF Spec

\* Whatever turns overlap, fail, are cut short or run out of steps, and whenever the
\* process is replaced: the messages of a turn that is done, and that overlapped with
\* none, stay in their conversation, in their places, for the life of the process.
THEOREM DoneTurnsAreKept == Spec => []DoneIsKept
<1>1. HistoryInv => DoneIsKept
  <2> SUFFICES ASSUME HistoryInv, NEW t \in Turns, Settled(turn[t])
               PROVE  Begins(turn[t].history, saved[turn[t].conv])
    BY DEF DoneIsKept, Settled
  <2>1. turn[t].conv \in Conversations
    BY DEF HistoryInv, TurnInv, Carries, Settled
  <2> QED
    BY <2>1 DEF HistoryInv, Histories, Sound
<1> QED
  BY <1>1, HistoryInvariant, PTL

\* No stored history shows the model a call without its results in the middle of what
\* a turn has said, nor any call left open by a turn that is done and overlapped with
\* none.
THEOREM CallsAreAnswered == Spec => []CallsAnswered
<1>1. HistoryInv => CallsAnswered
  <2> SUFFICES ASSUME HistoryInv, NEW c \in Conversations, NEW i \in DOMAIN saved[c],
                      saved[c][i].kind = "calls"
               PROVE  LET m == saved[c][i] IN
                      \/ /\ i + 1 \in DOMAIN saved[c]
                         /\ saved[c][i + 1] = Message(m.turn, "results", m.size)
                      \/ /\ turn[m.turn].kept => turn[m.turn].outcome # "done"
                         /\ \A j \in DOMAIN saved[c] : j > i => saved[c][j].turn # m.turn
    BY DEF CallsAnswered
  <2>1. Sound(turn, c, saved[c])
    BY DEF HistoryInv, Histories
  <2> QED
    BY <2>1 DEF Sound, Answered, LastOfTurn, Settled
<1> QED
  BY <1>1, HistoryInvariant, PTL

=============================================================================
