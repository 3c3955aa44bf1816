----------------------------- MODULE MCMetering -----------------------------
(* Metering, and with it ResponseService, on a small instance for TLC. *)
EXTENDS Metering

\* The default of RuntimeConfig: interrupt_response is on.
InterruptOn == {TRUE}
\* A client may also turn it off with session.update.
InterruptBoth == BOOLEAN
=============================================================================
