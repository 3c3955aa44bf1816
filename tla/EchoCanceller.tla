---------------------------- MODULE EchoCanceller ----------------------------
(***************************************************************************)
(* The microphone path of one session up to the voice detector: appended   *)
(* audio is cut into chunks (handlers/audio.py), the echo canceller        *)
(* subtracts the agent's own audio from each chunk (audio/echo_canceller), *)
(* and the VAD's energy gate decides which chunks the detector may hear    *)
(* (vad_handler.py).  The receive loop appends, the send loop feeds the    *)
(* far end, and both run on the event loop; the gate runs on the VAD's     *)
(* thread but looks only at what the receive loop put in the queue, so it  *)
(* is taken together with it.  A session is torn down by its own endpoint, *)
(* by the lifespan when the server shuts down, or by both of them at once. *)
(* Audio is counted, in units of 2 ms.                                     *)
(***************************************************************************)
EXTENDS Integers, Sequences, FiniteSetsExt

CONSTANTS Frame,        \* frame of the aec3 backend, 10 ms
          SpeexFrame,   \* SPEEX_FRAME_SAMPLES, 16 ms
          MicChunk,     \* CHUNK_SAMPLES of the microphone, 32 ms
          TtsChunk,     \* CHUNK_SAMPLES of the TTS handlers, 20 ms
          FarCap,       \* the most far end that is kept (two seconds in the code)
          AppendSizes,  \* lengths of input_audio_buffer.append, a longer one being several
          SustainMin,   \* VAD_FAR_SUSTAIN_MIN
          SustainWindow \* VAD_FAR_SUSTAIN_WINDOW

ASSUME FramesAssumption ==
  /\ {Frame, SpeexFrame, MicChunk, TtsChunk} \subseteq Nat \ {0}
  /\ FarCap \in Nat /\ AppendSizes \subseteq 0..MicChunk
  /\ SustainMin \in Nat \ {0} /\ SustainWindow \in Nat

VARIABLES backend,      \* AEC_BACKEND
          ec,           \* the EchoCanceller
          remainder,    \* audio_remainder: appended audio short of a chunk
          run,          \* _far_run: was each recent chunk above the residual gate?
          passed,       \* did the last chunk reach the detector?
          mic,          \* should_listen
          speaking,     \* is the user speaking?
          agent,        \* TTS chunks of the response still to send: "none", "some", or
                        \*   "last": there is one more
          send,         \* the send loop: "idle", "sending" (a delta), "cancelled", "ended"
          life,         \* the endpoint: "live", "leaving" (it waits for the send loop),
                        \*   "gone" (it has torn down), "returned"
          shutdown,     \* the lifespan, on this session: "up", "listed", "awaiting" (the
                        \*   send loop), "stopped" (it has torn down), "down"
          workers       \* whose teardown worker runs: "endpoint", "shutdown"

teardown == <<shutdown, workers>>

echoVars == <<backend, ec, remainder, run, passed, mic, speaking, agent, send, life, teardown>>

Backends == {"aec3", "speex"}

EchoInit ==
  /\ backend \in Backends
  /\ \E enabled \in BOOLEAN :
       ec = [enabled |-> enabled, native |-> FALSE, near |-> 0, clean |-> 0,
             far |-> 0, recent |-> FALSE, silence |-> 0]
  /\ remainder = 0 /\ run = << >> /\ passed = FALSE
  /\ mic = TRUE /\ speaking = FALSE
  /\ agent = "none" /\ send = "idle" /\ life = "live"
  /\ shutdown = "up" /\ workers = {}

-----------------------------------------------------------------------------
(* EchoCanceller, as functions of its state e: near, clean and far are the   *)
(* lengths of its three buffers, recent says that far end arrived within the *)
(* tail window, silence counts the silence it has put into its output.       *)

Fewer(m, n) == IF m < n THEN m ELSE n

\* The backend's object is made when it is first used, and may fail to be.
Ready(e, loads) == e.native \/ loads

Disabled(e) == [e EXCEPT !.enabled = FALSE]

\* One render frame per capture frame: far end if a whole frame is there.
Rendered(e, frames, size) == [e EXCEPT !.far = @ - Fewer(frames, @ \div size) * size]

\* Mutant: what a call lacks is taken as silence, but never made up for.
Emitted_Refilled(e) ==
  [e EXCEPT !.clean = 0, !.silence = @ + MicChunk - Fewer(e.clean, MicChunk)]

\* The output has the length of the input, silence for what is not there yet.
Emitted(e) ==
  LET out == Fewer(e.clean, MicChunk)
  IN [e EXCEPT !.clean = @ - out, !.silence = @ + MicChunk - out]

\* _process_aec3: the chunk is cut anew into frames; a frame that fails is
\* passed through, which changes no length.
ProcessAec3(e) ==
  LET held   == e.near + MicChunk
      frames == held \div Frame
  IN Emitted([Rendered(e, frames, Frame) EXCEPT
                !.native = TRUE, !.near = held % Frame, !.clean = @ + (frames * Frame)])

\* _process_speex: whole frames, and the rest of the chunk as it is.
ProcessSpeex(e) == Rendered(e, MicChunk \div SpeexFrame, SpeexFrame)

Process(e, loads) ==
  IF ~e.enabled THEN e
  ELSE IF backend = "speex" THEN ProcessSpeex(e)
  ELSE IF Ready(e, loads) THEN ProcessAec3(e)
  ELSE Disabled(e)

\* Mutant: the burst is kept whole.
Capped_Whole(length) == length

\* The oldest of it is let go, so that a stale burst cannot grow.
Capped(length) == Fewer(length, FarCap)

AddFarEnd(e, length, loads) ==
  LET heard == [e EXCEPT !.recent = TRUE]
      kept  == [heard EXCEPT !.far = Capped(@ + length)]
  IN IF ~e.enabled THEN e
     ELSE IF backend = "speex" THEN kept
     ELSE IF Ready(e, loads) THEN [kept EXCEPT !.native = TRUE]
     ELSE Disabled(heard)

FarActive(e) == e.enabled /\ (e.far > 0 \/ e.recent)

FlushFar(e) == [e EXCEPT !.far = 0]

\* Mutant: what the shutdown has taken on is left to the shutdown to close.
Closed_Attended(e) == IF shutdown = "up" THEN [e EXCEPT !.native = FALSE] ELSE e

Closed(e) == [e EXCEPT !.native = FALSE]

-----------------------------------------------------------------------------
(* The gate, on what the receive loop has put in the queue. *)

\* Mutant: the window is taken as configured.
RunLength_Window == SustainWindow

RunLength == Max({SustainMin, SustainWindow})

Recorded(above) ==
  LET all == Append(run, above)
  IN IF Len(all) > RunLength THEN Tail(all) ELSE all

\* While the agent is heard a chunk passes if the energy has been sustained;
\* otherwise if it is loud enough, and the run begins anew.
Gate(far, above) ==
  IF far
  THEN /\ run' = Recorded(above)
       /\ passed' = (above /\ Cardinality({n \in DOMAIN run' : run'[n]}) >= SustainMin)
  ELSE run' = << >> /\ passed' = above

-----------------------------------------------------------------------------
(* Client: input_audio_buffer.append. *)

\* A voice is above both gates; noise, or echo the canceller leaves, may be.
Above == IF speaking THEN {TRUE} ELSE BOOLEAN

\* Too little for a chunk.
AppendShort(length) ==
  /\ life = "live"
  /\ remainder + length < MicChunk
  /\ remainder' = remainder + length
  /\ UNCHANGED <<backend, ec, run, passed, mic, speaking, agent, send, life, teardown>>

\* A chunk is complete: through the canceller, into the queue, to the gate, if
\* the VAD's thread is still there.  An append of several chunks is as many
\* appends in a row.
AppendChunk(length) ==
  /\ life = "live"
  /\ remainder + length >= MicChunk
  /\ remainder' = (remainder + length) - MicChunk
  /\ \E loads \in BOOLEAN : ec' = Process(ec, loads)
  /\ \/ mic /\ \E above \in Above : Gate(FarActive(ec'), above)
     \/ (~mic \/ workers # {}) /\ UNCHANGED <<run, passed>>
  /\ UNCHANGED <<backend, mic, speaking, agent, send, life, teardown>>

Microphone == \E length \in AppendSizes : AppendShort(length) \/ AppendChunk(length)

-----------------------------------------------------------------------------
(* The send loop. *)

StartResponse ==
  /\ life = "live" /\ agent = "none"
  /\ agent' = "some"
  /\ UNCHANGED <<backend, ec, remainder, run, passed, mic, speaking, send, life, teardown>>

\* A chunk is taken from the queue; the first one of a response, and here
\* each, opens the microphone.  The deltas are sent before the far end gets it.
TakeAudio ==
  /\ life = "live" /\ send = "idle" /\ agent # "none"
  /\ send' = "sending"
  /\ mic' = TRUE
  /\ agent' \in (IF agent = "last" THEN {"none"} ELSE {"some", "last"})
  /\ UNCHANGED <<backend, ec, remainder, run, passed, speaking, life, teardown>>

\* Mutant: the last chunk of a clip is not padded.
ChunkLengths_Unpadded == {TtsChunk, 1}

\* The TTS handlers pad the last chunk of a clip.
ChunkLengths == {TtsChunk}

AudioSent ==
  /\ life = "live" /\ send = "sending"
  /\ send' = "idle"
  /\ \E length \in ChunkLengths, loads \in BOOLEAN : ec' = AddFarEnd(ec, length, loads)
  /\ UNCHANGED <<backend, remainder, run, passed, mic, speaking, agent, life, teardown>>

\* speech_started of a response that may be interrupted.
BargeIn ==
  /\ life = "live" /\ send = "idle" /\ agent # "none"
  /\ agent' = "none"
  /\ ec' = FlushFar(ec)
  /\ UNCHANGED <<backend, remainder, run, passed, mic, speaking, send, life, teardown>>

\* Client: response.cancel, in the middle of a delta or not; the far end stays.
ResponseCancel ==
  /\ life = "live" /\ agent # "none"
  /\ agent' = "none"
  /\ mic' = TRUE
  /\ UNCHANGED <<backend, ec, remainder, run, passed, speaking, send, life, teardown>>

-----------------------------------------------------------------------------
(* The end of the session. *)

\* The task is told to end, which it does at the await it is at: what comes
\* after that await, add_far_end among it, is not done.
SendCancelled == send' = IF send = "ended" THEN "ended" ELSE "cancelled"

SendEnds ==
  /\ send = "cancelled"
  /\ send' = "ended"
  /\ UNCHANGED <<backend, ec, remainder, run, passed, mic, speaking, agent, life, teardown>>

\* The send loop ends by itself, when the server stops or a handler is dead.
SendStops ==
  /\ send = "idle"
  /\ send' = "ended"
  /\ UNCHANGED <<backend, ec, remainder, run, passed, mic, speaking, agent, life, teardown>>

\* The receive loop is over; the endpoint waits for the send loop.
Leave ==
  /\ life = "live"
  /\ life' = "leaving"
  /\ SendCancelled
  /\ UNCHANGED <<backend, ec, remainder, run, passed, mic, speaking, agent, teardown>>

\* The finally block closes the canceller, then hands the pipeline to a worker.
TearDown ==
  /\ life = "leaving" /\ send = "ended"
  /\ ec' = Closed(ec)
  /\ life' = "gone"
  /\ workers' = workers \union {"endpoint"}
  /\ UNCHANGED <<backend, remainder, run, passed, mic, speaking, agent, send, shutdown>>

\* The endpoint's frame goes, and with it its hold on the pipeline.
Return ==
  /\ life = "gone"
  /\ life' = "returned"
  /\ UNCHANGED <<backend, ec, remainder, run, passed, mic, speaking, agent, send, teardown>>

\* Server shutdown: the lifespan lists the sessions there are.
Shutdown ==
  /\ shutdown = "up" /\ life \in {"live", "leaving"}
  /\ shutdown' = "listed"
  /\ UNCHANGED <<backend, ec, remainder, run, passed, mic, speaking, agent, send, life, workers>>

\* It comes to this one, after awaits in which the endpoint may have finished.
Drain ==
  /\ shutdown = "listed"
  /\ shutdown' = "awaiting"
  /\ SendCancelled
  /\ UNCHANGED <<backend, ec, remainder, run, passed, mic, speaking, agent, life, workers>>

\* The pipeline goes to a second worker.  The canceller is not closed here, and
\* the receive loop may still be at work on it.
DrainStop ==
  /\ shutdown = "awaiting" /\ send = "ended"
  /\ shutdown' = "stopped"
  /\ workers' = workers \union {"shutdown"}
  /\ UNCHANGED <<backend, ec, remainder, run, passed, mic, speaking, agent, send, life>>

\* The lifespan lets go of the pipeline, with its list or when it is over.
Drained ==
  /\ shutdown = "stopped"
  /\ shutdown' = "down"
  /\ UNCHANGED <<backend, ec, remainder, run, passed, mic, speaking, agent, send, life, workers>>

\* A worker has joined the handler threads, or given up, and lets go too.
WorkerEnds ==
  /\ workers # {}
  /\ \E worker \in workers : workers' = workers \ {worker}
  /\ UNCHANGED <<backend, ec, remainder, run, passed, mic, speaking, agent, send, life, shutdown>>

-----------------------------------------------------------------------------
(* The VAD, the user, and time. *)

\* The end of an utterance closes the microphone (vad_handler.py).
UtteranceEnds ==
  /\ mic
  /\ mic' = FALSE
  /\ UNCHANGED <<backend, ec, remainder, run, passed, speaking, agent, send, life, teardown>>

User ==
  /\ speaking' = ~speaking
  /\ UNCHANGED <<backend, ec, remainder, run, passed, mic, agent, send, life, teardown>>

TailPasses ==
  /\ ec.recent
  /\ ec' = [ec EXCEPT !.recent = FALSE]
  /\ UNCHANGED <<backend, remainder, run, passed, mic, speaking, agent, send, life, teardown>>

SendLoop == TakeAudio \/ AudioSent

EchoNext ==
  \/ Microphone \/ SendLoop
  \/ StartResponse \/ BargeIn \/ ResponseCancel
  \/ SendEnds \/ SendStops \/ Leave \/ TearDown \/ Return
  \/ Shutdown \/ Drain \/ DrainStop \/ Drained \/ WorkerEnds
  \/ UtteranceEnds \/ User \/ TailPasses

EchoSpec == EchoInit /\ [][EchoNext]_echoVars

\* The client streams its microphone, the send loop runs on, and time passes.
EchoFairSpec ==
  EchoSpec /\ WF_echoVars(Microphone) /\ WF_echoVars(SendLoop) /\ WF_echoVars(TailPasses)
       /\ WF_echoVars(SendEnds) /\ WF_echoVars(TearDown)

-----------------------------------------------------------------------------
(* Properties. *)

Canceller ==
  [enabled : BOOLEAN, native : BOOLEAN, near : 0..(Frame - 1), clean : Nat,
   far : 0..FarCap, recent : BOOLEAN, silence : Nat]

\* The type invariant.
EchoTypeOK ==
  /\ backend \in Backends
  /\ ec \in Canceller
  /\ remainder \in 0..(MicChunk - 1)
  /\ run \in Seq(BOOLEAN) /\ Len(run) <= RunLength
  /\ {passed, mic, speaking} \subseteq BOOLEAN
  /\ agent \in {"none", "some", "last"}
  /\ send \in {"idle", "sending", "cancelled", "ended"}
  /\ life \in {"live", "leaving", "gone", "returned"}
  /\ shutdown \in {"up", "listed", "awaiting", "stopped", "down"}
  /\ workers \subseteq {"endpoint", "shutdown"}

\* Cutting 32 ms chunks into 10 ms frames and back delays the microphone, by
\* the silence it puts in, but never by a frame or more however long the
\* session runs: what was put in is exactly what the two buffers hold.
LagBounded == ec.silence = ec.near + ec.clean /\ ec.silence < Frame

\* The canceller's buffers.
FramesSound == EchoTypeOK /\ LagBounded

\* Who has the pipeline, and with it the canceller, on the event loop.
HeldOnLoop ==
  life # "returned" \/ send # "ended" \/ shutdown \in {"listed", "awaiting", "stopped"}

\* The native object may only be dropped on the event loop's thread.  So no
\* worker is ever the last to hold a pipeline that has one: neither the
\* endpoint's, nor that of a shutdown which overtook a receive loop still making
\* it anew, nor that of a shutdown which came after the endpoint had finished.
DroppedOnLoop == (ec.native /\ workers # {}) => HeldOnLoop

AgentQuiet == agent = "none" /\ send = "idle" /\ life = "live"

\* Once the agent has fallen silent, far_active does too, and the VAD hears the
\* microphone itself again.  With aec3 this rests on two frames making a TTS
\* chunk, padded to its full length: nothing is left short of a frame.
FarEnds == (backend = "aec3" /\ <>[]AgentQuiet) => <>[]~FarActive(ec)

\* A user who keeps speaking over the agent gets through the gate, whatever
\* window is configured: a barge-in cannot be shut out for good while the
\* session lasts.
BargeInHeard == <>[](speaking /\ mic /\ life = "live" /\ shutdown = "up") => []<>passed

\* "far_active drives the VAD's far-aware gate (raw gate when the agent is
\* silent, residual gate while it's speaking)" (websocket_router.py:349).
FarFollowsAgent == <>[]AgentQuiet => <>[]~FarActive(ec)
=============================================================================
