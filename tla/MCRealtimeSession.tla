-------------------------- MODULE MCRealtimeSession --------------------------
(* RealtimeSession on small instances. *)
EXTENDS RealtimeSession

\* Three barge-ins deep; and everything a client does, once each, with a
\* transcription that may fail.
Turns  == [speech |-> 3, creates |-> 0, cancels |-> 0, streamed |-> 0, sttMayFail |-> FALSE]
Client1 == [speech |-> 1, creates |-> 1, cancels |-> 1, streamed |-> 1, sttMayFail |-> TRUE]
SmallLoads == {Turns, Client1}

\* The loads of the further configurations: an utterance that barges in, a client
\* that asks again after a cancel, one that cancels two turns, utterances some of which yield no text.
BargingIn == {Turns}
AskingAgain == {[Turns EXCEPT !.speech = 0, !.creates = 2, !.cancels = 1]}
CancellingTwice == {[Turns EXCEPT !.cancels = 2]}
Mumbling == {[Turns EXCEPT !.speech = 2, !.sttMayFail = TRUE]}
=============================================================================
