--------------------------- MODULE MCChatResearch ---------------------------
(* Small instances of ChatResearch for TLC. *)
EXTENDS ChatResearch

CONSTANTS b1, f1, f2, h1, h2, w1

MCBikeOf == [f \in Facts |-> b1]

\* Every failed attempt is followed by one tick of backoff.
MCBackoff == <<1>>

=============================================================================
