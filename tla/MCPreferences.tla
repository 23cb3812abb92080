---------------------------- MODULE MCPreferences ----------------------------
(* A small instance of Preferences for TLC. *)
EXTENDS Preferences, TLC

\* A text that is stripped to another, and one stripped to nothing.
MCClean == [t \in Texts |-> CASE t = " eu" -> "eu" [] t = " " -> "none" [] OTHER -> t]

MCPayloads == [Columns -> Texts]

Threads == Permutations(Requests) \cup Permutations(Columns)

=============================================================================
