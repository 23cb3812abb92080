-------------------------- MODULE ResearchContract --------------------------
(***************************************************************************)
(* What the research module promises the rest of the program: a fact is    *)
(* researched once.  Asking about it starts a search if it was never asked *)
(* about or its failure has expired; the answer is then kept.              *)
(*                                                                         *)
(* No rows, sessions, jobs, attempts or clocks: Research has those, and    *)
(* implements this under the mapping at its end.                           *)
(***************************************************************************)

CONSTANTS
    Facts,      \* what can be asked about
    Seeded      \* facts known without research

VARIABLES
    answer,     \* what is known about each fact's research
    known       \* facts with a stored value or insight

vars == <<answer, known>>

\* A failure that is memoized until a date, one past its date, one for good.
Failures == {"memoized", "expired", "never"}

Init ==
    /\ answer = [f \in Facts |-> "unasked"]
    /\ known = Seeded

\* A request asks about one fact, a population about several.
Ask(S) ==
    /\ \A f \in S : answer[f] \in {"unasked", "expired"}
    /\ answer' = [f \in Facts |-> IF f \in S THEN "researching" ELSE answer[f]]
    /\ UNCHANGED known

\* A search answers some of what it was asked, and what it finds becomes known at
\* the same moment.
Settle(S) ==
    /\ \A f \in S : answer[f] = "researching"
    /\ \E result \in [S -> Failures \cup {"found"}] :
          /\ answer' = [f \in Facts |-> IF f \in S THEN result[f] ELSE answer[f]]
          /\ known' = known \cup {f \in S : result[f] = "found"}

\* The dates of some failures pass.
Expire(S) ==
    /\ \A f \in S : answer[f] = "memoized"
    /\ answer' = [f \in Facts |-> IF f \in S THEN "expired" ELSE answer[f]]
    /\ UNCHANGED known

Next == \E S \in SUBSET Facts : Ask(S) \/ Settle(S) \/ Expire(S)

Spec == Init /\ [][Next]_vars

=============================================================================
