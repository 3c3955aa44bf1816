----------------------------- MODULE MCDialogue -----------------------------
(* Dialogue, and with it ChatHistory, on a small instance for TLC. *)
EXTENDS Dialogue
=============================================================================
