-------------------------- MODULE ResponseLifecycle --------------------------
(***************************************************************************)
(* The promise a Realtime client relies on, with nothing of how the server *)
(* keeps it: at any time at most one response is in progress; a response   *)
(* is opened once, closed once, and never comes back after it was closed.  *)
(***************************************************************************)
EXTENDS Naturals

CONSTANTS Responses,    \* the identifiers responses are drawn from
          NoId          \* "no response in progress"

VARIABLES active,       \* the response in progress, or NoId
          closed        \* the responses whose response.done has been emitted

lifecycleVars == <<active, closed>>

LifecycleInit == active = NoId /\ closed = {}

Open(r) ==
  /\ active = NoId
  /\ r \notin closed
  /\ active' = r
  /\ UNCHANGED closed

Close ==
  /\ active # NoId
  /\ closed' = closed \cup {active}
  /\ active' = NoId

LifecycleNext == Close \/ \E r \in Responses : Open(r)

LifecycleSpec == LifecycleInit /\ [][LifecycleNext]_lifecycleVars
=============================================================================
