-------------------------- MODULE MCEchoCanceller --------------------------
(* A small instance of EchoCanceller for TLC, with the lengths of the code *)
(* and a far end cut off after 60 ms.                                      *)
EXTENDS EchoCanceller
=============================================================================
