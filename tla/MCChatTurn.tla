----------------------------- MODULE MCChatTurn -----------------------------
(* Small instance of ChatTurn for TLC. *)
EXTENDS ChatTurn, TLC

=============================================================================
