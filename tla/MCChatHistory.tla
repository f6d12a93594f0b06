--------------------------- MODULE MCChatHistory ---------------------------
(* The instance of ChatHistory for TLC. *)
EXTENDS ChatHistory

CONSTANTS u1, u2
=============================================================================
