--------------------------- MODULE MCChatHistory ---------------------------
(* A small instance of ChatHistory for TLC. *)
EXTENDS ChatHistory
=============================================================================
