------------------------------ MODULE PipelineLife ------------------------------
(***************************************************************************)
(* What the rest of the server relies on of a session's handler threads    *)
(* (SessionPipeline, pipeline/session_pipeline.py): they run until they    *)
(* are told to stop, none of them ends before that, and once told they all *)
(* end.                                                                    *)
(***************************************************************************)
CONSTANT Sessions

VARIABLE status    \* of the threads of each session: running, stopping, stopped

Init == status = [s \in Sessions |-> "running"]

Tell(s) == status[s] = "running" /\ status' = [status EXCEPT ![s] = "stopping"]
End(s)  == status[s] = "stopping" /\ status' = [status EXCEPT ![s] = "stopped"]

Next == \E s \in Sessions : Tell(s) \/ End(s)

Spec == Init /\ [][Next]_status /\ \A s \in Sessions : WF_status(End(s))
=============================================================================
