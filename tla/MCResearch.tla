----------------------------- MODULE MCResearch -----------------------------
(* Small instances of Research for TLC. *)
EXTENDS Research, TLC

CONSTANTS b1, b2, f1, f2, f3, h1, h2, w1, w2

\* f1 and f2 belong to one motorcycle, f3, when there is a second, to the other.
MCBikeOf == [f \in Facts |-> IF f = f3 THEN b2 ELSE b1]

\* One step of backoff, then two.
MCBackoff == <<1, 2>>

ThreadSymmetry == Permutations(Handlers) \cup Permutations(Workers)

=============================================================================
