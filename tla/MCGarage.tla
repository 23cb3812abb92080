------------------------------ MODULE MCGarage ------------------------------
(* Small instances of Garage for TLC. *)
EXTENDS Garage, TLC

Threads == Permutations(Requests) \cup Permutations(Bikes)

=============================================================================
