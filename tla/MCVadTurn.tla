----------------------------- MODULE MCVadTurn -----------------------------
(* A small instance of VadTurn for TLC. *)
EXTENDS VadTurn
=============================================================================
