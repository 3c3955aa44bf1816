--------------------------- MODULE RealtimeSession ---------------------------
(***************************************************************************)
(* One realtime session end to end: the two coroutines of the websocket    *)
(* router (receive loop, send loop), the handler threads between them      *)
(* (VAD, STT + notifier, LLM, LM output processor, TTS), their FIFO        *)
(* queues, the CancelScope and the should_listen / response_playing        *)
(* events.  A response is closed either by the end-of-response sentinel    *)
(* that travels the whole chain behind its audio, or by a cancellation     *)
(* (barge-in, response.cancel) that races everything still in flight.      *)
(*                                                                         *)
(* Every queued item carries the request it was produced for; the code's   *)
(* items carry nothing of the kind, which is what the properties are about.*)
(***************************************************************************)
EXTENDS Integers, Sequences, FiniteSets

CONSTANTS Loads,        \* bounds: the loads a session may be put under
          GenModulus,   \* generations before the counter wraps (2^32 in the code)
          Endings,      \* what may follow the streamed sentences: text, tools, silence
          TtsMayFail    \* may a synthesis return no audio (HTTP error, blank text)?

\* How many utterances the VAD reports, response.create and response.cancel events
\* the client sends and sentences a generation streams before its last; and whether
\* a transcription may return nothing (HTTP error, silence).
Load == [speech : Nat, creates : Nat, cancels : Nat, streamed : Nat, sttMayFail : BOOLEAN]

ASSUME BoundsAssumption == Loads \subseteq Load /\ GenModulus \in Nat \ {0}
ASSUME ScenarioAssumption ==
  Endings \subseteq {"text", "tools", "silence"} /\ TtsMayFail \in BOOLEAN

VARIABLES
  scope,            \* CancelScope: [gen, discarding]
  shouldListen,     \* threading.Event: the VAD acts on the microphone
  responsePlaying,  \* threading.Event: audio of a response has been sent
  conn,             \* ConnState: [response, created, item]
  textOutput, sendAudio,            \* queues the send loop drains
  textPrompt, lmResponse, lmProcessed,  \* queues into LLM, processor, TTS
  utterances,       \* utterances waiting for or in STT
  vad, llm, tts,    \* handler threads
  sender, receiver, \* coroutines: where each may be suspended
  used,             \* counters: what the bounds count, and sentinels acknowledged
  astray,           \* history: how responses and sentinels have come apart
  load              \* the load of this behaviour

queues  == <<textOutput, sendAudio, textPrompt, lmResponse, lmProcessed, utterances>>
threads == <<vad, llm, tts>>
flags   == <<scope, shouldListen, responsePlaying>>
session == <<flags, conn, queues, threads, sender, receiver, used, astray>>
vars    == <<session, load>>

-----------------------------------------------------------------------------
(* Items.  "for" is the request the item was produced for.  A response is *)
(* named after the request it was opened for; one opened by assistant      *)
(* output, with no request of its own, is called LateId.                   *)

NoId == 0
LateId == load.speech + load.creates + 1
Item(kind, r) == [kind |-> kind, for |-> r]

TextKinds  == {"speech_started", "speech_stopped", "transcript",
               "assistant_text", "tool_calls", "token_usage"}
AudioKinds == {"audio", "done"}

NoConn == [response |-> NoId, created |-> FALSE, item |-> FALSE]
InResponse == conn.response # NoId

Init ==
  /\ scope = [gen |-> 0, discarding |-> FALSE]
  /\ shouldListen = TRUE
  /\ responsePlaying = FALSE
  /\ conn = NoConn
  /\ textOutput = << >> /\ sendAudio = << >>
  /\ textPrompt = << >> /\ lmResponse = << >> /\ lmProcessed = << >>
  /\ utterances = 0
  /\ vad = "quiet"
  /\ llm = [pc |-> "idle", for |-> NoId, gen |-> 0, streamed |-> 0]
  /\ tts = [pc |-> "idle", for |-> NoId, gen |-> 0]
  /\ sender = [pc |-> "text", for |-> NoId]
  /\ receiver = "receive"
  /\ used = [requests |-> 0, speech |-> 0, creates |-> 0, cancels |-> 0, acked |-> 0]
  /\ astray = {}
  /\ load \in Loads

-----------------------------------------------------------------------------
(* CancelScope. *)

\* Mutant: the generation moves on but the discard guard stays down.
Cancelled_GuardDown(sc) == [sc EXCEPT !.gen = (sc.gen + 1) % GenModulus]
\* Mutant: response_done and new_response forget the guard.
Undiscarded_Forgotten(sc) == sc

Cancelled(sc)     == [gen |-> (sc.gen + 1) % GenModulus, discarding |-> TRUE]
Undiscarded(sc)   == [sc EXCEPT !.discarding = FALSE]
IsStale(gen)      == gen # scope.gen

(* The lifecycle handlers of ResponseService, item identifiers left out. *)

Ensured(c) == IF c.response # NoId THEN c ELSE [NoConn EXCEPT !.response = LateId]
Begun(c)   == [Ensured(c) EXCEPT !.created = TRUE, !.item = TRUE]
Opened(c, request) ==
  IF c.response # NoId THEN c
  ELSE [NoConn EXCEPT !.response = request, !.created = TRUE]

\* _flush_queue with its two preserve predicates
\* Mutant: the flush takes the sentinels too.
KeepAudioSentinel_Nothing(i) == FALSE

KeepAudioSentinel(i) == i.kind = "done"
KeepUserText(i)      == i.kind \in {"speech_stopped", "token_usage"}

\* What is at the positions "at" of a queue, in order: the m-th of them is the one
\* with m of them up to it (SelectSeq without its recursion).
Nth(at, m)    == CHOOSE n \in at : Cardinality({k \in at : k <= n}) = m
Picked(q, at) == [m \in 1..Cardinality(at) |-> q[Nth(at, m)]]

FlushOutputs ==
  /\ sendAudio'  = Picked(sendAudio, {n \in DOMAIN sendAudio : KeepAudioSentinel(sendAudio[n])})
  /\ textOutput' = Picked(textOutput, {n \in DOMAIN textOutput : KeepUserText(textOutput[n])})

-----------------------------------------------------------------------------
(* Send loop.  sender.pc names where the coroutine is:                     *)
(*   text    top of an iteration, after a sleep       (other tasks may run)*)
(*   next    top of an iteration, after `continue`    (they may not)       *)
(*   barge   sending speech_started and the cancelled response's close     *)
(*   audio   after sending a text event's server events                    *)
(*   audio0  at the audio half without having yielded                      *)
(*   tail    holding response.done while the client drains                 *)
(*   done    sending response.done                                         *)
(*   pace    pacing the audio just sent                                    *)

SuspendedAt == {"text", "barge", "audio", "tail", "done", "pace"}
LoopFree == sender.pc \in SuspendedAt

SenderTo(pc) == sender' = [sender EXCEPT !.pc = pc]

NextRequest == used.requests + 1
\* What is recorded of the ways a response and its sentinel come apart.
NoteLate == astray' = IF InResponse THEN astray ELSE astray \cup {"late"}
NoteDoubled == astray' = IF scope.discarding THEN astray \cup {"doubled"} ELSE astray

SendText ==
  /\ sender.pc \in {"text", "next"}
  /\ textOutput # << >>
  /\ textOutput' = Tail(textOutput)
  /\ LET e == Head(textOutput) IN
     \/ /\ e.kind = "speech_started"
        /\ conn' = NoConn
        /\ SenderTo(IF InResponse THEN "barge" ELSE "audio")
        /\ UNCHANGED <<textPrompt, used, astray>>
     \/ /\ e.kind = "speech_stopped"
        /\ SenderTo("audio")
        /\ UNCHANGED <<conn, textPrompt, used, astray>>
     \/ /\ e.kind = "transcript"
        /\ conn' = Opened(conn, NextRequest)
        /\ textPrompt' = Append(textPrompt, NextRequest)
        /\ used' = [used EXCEPT !.requests = @ + 1]
        /\ astray' = IF InResponse THEN astray \cup {"stacked"} ELSE astray
        /\ SenderTo("audio")
     \/ /\ e.kind \in {"assistant_text", "tool_calls"} /\ ~scope.discarding
        /\ conn' = IF e.kind = "assistant_text" THEN Begun(conn) ELSE Ensured(conn)
        /\ NoteLate
        /\ SenderTo("audio")
        /\ UNCHANGED <<textPrompt, used>>
     \/ /\ \/ e.kind = "token_usage"
           \/ e.kind \in {"assistant_text", "tool_calls"} /\ scope.discarding
        /\ SenderTo("audio0")
        /\ UNCHANGED <<conn, textPrompt, used, astray>>
  /\ UNCHANGED <<flags, sendAudio, lmResponse, lmProcessed, utterances, threads, receiver>>

SendNoText ==
  /\ sender.pc \in {"text", "next"}
  /\ textOutput = << >>
  /\ SenderTo("audio0")
  /\ UNCHANGED <<flags, conn, queues, threads, receiver, used, astray>>

\* The speech_started of a live response has been sent: cancel and flush.
\* Whether a response is in progress is not looked at again.
BargeIn ==
  /\ sender.pc = "barge"
  /\ scope' = Cancelled(scope)
  /\ NoteDoubled
  /\ FlushOutputs
  /\ responsePlaying' = FALSE
  /\ SenderTo("audio0")
  /\ UNCHANGED <<shouldListen, conn, textPrompt, lmResponse, lmProcessed, utterances,
                 threads, receiver, used>>

SendNoAudio ==
  /\ sender.pc \in {"audio", "audio0"}
  /\ sendAudio = << >>
  /\ SenderTo("text")
  /\ UNCHANGED <<flags, conn, queues, threads, receiver, used, astray>>

\* Mutant: the microphone is not reopened.
ResponseComplete_MicClosed ==
  /\ responsePlaying' = FALSE
  /\ scope' = Undiscarded(scope)
  /\ UNCHANGED shouldListen
  /\ used' = [used EXCEPT !.acked = @ + 1]
  /\ sender' = [pc |-> "next", for |-> NoId]

\* What the send loop does at the end of a sentinel, stale or not.
ResponseComplete ==
  /\ responsePlaying' = FALSE
  /\ scope' = Undiscarded(scope)
  /\ shouldListen' = TRUE
  /\ used' = [used EXCEPT !.acked = @ + 1]
  /\ sender' = [pc |-> "next", for |-> NoId]

\* Mutant: every sentinel is taken to end the response in progress.
StaleDone_Never == FALSE

StaleDone == scope.discarding

SendStaleDone ==
  /\ sender.pc \in {"audio", "audio0"}
  /\ sendAudio # << >> /\ Head(sendAudio).kind = "done"
  /\ StaleDone
  /\ sendAudio' = Tail(sendAudio)
  /\ ResponseComplete
  /\ UNCHANGED <<conn, textOutput, textPrompt, lmResponse, lmProcessed, utterances,
                 threads, receiver, astray>>

SendDone ==
  /\ sender.pc \in {"audio", "audio0"}
  /\ sendAudio # << >> /\ Head(sendAudio).kind = "done"
  /\ ~StaleDone
  /\ sendAudio' = Tail(sendAudio)
  /\ sender' = [pc |-> "tail", for |-> Head(sendAudio).for]
  /\ UNCHANGED <<flags, conn, textOutput, textPrompt, lmResponse, lmProcessed,
                 utterances, threads, receiver, used, astray>>

\* The hold is over, or a cancel cut it short: finish_audio_response.
FinishHeld ==
  /\ sender.pc = "tail"
  /\ conn' = NoConn
  /\ IF InResponse
     THEN SenderTo("done") /\ UNCHANGED <<flags, used>>
     ELSE ResponseComplete
  /\ UNCHANGED <<queues, threads, receiver, astray>>

DoneSent ==
  /\ sender.pc = "done"
  /\ ResponseComplete
  /\ UNCHANGED <<conn, queues, threads, receiver, astray>>

DropAudio ==
  /\ sender.pc \in {"audio", "audio0"}
  /\ sendAudio # << >> /\ Head(sendAudio).kind = "audio"
  /\ scope.discarding
  /\ sendAudio' = Tail(sendAudio)
  /\ SenderTo("next")
  /\ UNCHANGED <<flags, conn, textOutput, textPrompt, lmResponse, lmProcessed,
                 utterances, threads, receiver, used, astray>>

SendChunk ==
  /\ sender.pc \in {"audio", "audio0"}
  /\ sendAudio # << >> /\ Head(sendAudio).kind = "audio"
  /\ ~scope.discarding
  /\ sendAudio' = Tail(sendAudio)
  /\ responsePlaying' = TRUE
  /\ shouldListen' = (shouldListen \/ ~responsePlaying)
  /\ conn' = Begun(conn)
  /\ NoteLate
  /\ SenderTo("pace")
  /\ UNCHANGED <<scope, textOutput, textPrompt, lmResponse, lmProcessed, utterances,
                 threads, receiver, used>>

Paced ==
  /\ sender.pc = "pace"
  /\ SenderTo("text")
  /\ UNCHANGED <<flags, conn, queues, threads, receiver, used, astray>>

SendLoop ==
  \/ SendText \/ SendNoText \/ BargeIn \/ SendNoAudio \/ SendStaleDone \/ SendDone
  \/ FinishHeld \/ DoneSent \/ DropAudio \/ SendChunk \/ Paced

-----------------------------------------------------------------------------
\* Sentinels still under way: one per request that is queued, being
\* generated, or whose end has not been acknowledged by the send loop.
CountKind(q, k) == Cardinality({n \in DOMAIN q : q[n].kind = k})
Pending ==
  Len(textPrompt) + (IF llm.pc = "generate" THEN 1 ELSE 0)
  + CountKind(lmResponse, "end") + CountKind(lmProcessed, "end")
  + CountKind(sendAudio, "done") + (IF sender.pc \in {"tail", "done"} THEN 1 ELSE 0)

(* Receive loop.  It runs only while the send loop is suspended. *)

\* response.create with no response in progress (otherwise: an error event).
ClientCreate ==
  /\ LoopFree /\ receiver = "receive"
  /\ used.creates < load.creates
  /\ ~InResponse
  /\ conn' = Opened(conn, NextRequest)
  /\ textPrompt' = Append(textPrompt, NextRequest)
  /\ scope' = Undiscarded(scope)
  /\ used' = [used EXCEPT !.creates = @ + 1, !.requests = @ + 1]
  /\ astray' = IF Pending > 0 \/ sender.pc = "barge" THEN astray \cup {"raced"} ELSE astray
  /\ UNCHANGED <<shouldListen, responsePlaying, textOutput, sendAudio, lmResponse,
                 lmProcessed, utterances, threads, sender, receiver>>

\* response.cancel: cancel what is active, flush, close, listen again; then
\* the events are sent and only after that response_playing is cleared.
ClientCancel ==
  /\ LoopFree /\ receiver = "receive"
  /\ used.cancels < load.cancels
  /\ FlushOutputs
  /\ conn' = NoConn
  /\ shouldListen' = TRUE
  /\ IF InResponse
     THEN /\ scope' = Cancelled(scope)
          /\ NoteDoubled
          /\ receiver' = "clear"
          /\ UNCHANGED responsePlaying
     ELSE responsePlaying' = FALSE /\ UNCHANGED <<scope, receiver, astray>>
  /\ used' = [used EXCEPT !.cancels = @ + 1]
  /\ UNCHANGED <<textPrompt, lmResponse, lmProcessed, utterances, threads, sender>>

CancelSent ==
  /\ LoopFree /\ receiver = "clear"
  /\ responsePlaying' = FALSE
  /\ receiver' = "receive"
  /\ UNCHANGED <<scope, shouldListen, conn, queues, threads, sender, used, astray>>

-----------------------------------------------------------------------------
(* VAD and STT threads.  The VAD ignores audio while should_listen is     *)
(* clear, and clears it itself at the end of an utterance.                *)

SpeechStarts ==
  /\ shouldListen /\ vad = "quiet"
  /\ used.speech < load.speech
  /\ vad' = "speech"
  /\ textOutput' = Append(textOutput, Item("speech_started", NoId))
  /\ used' = [used EXCEPT !.speech = @ + 1]
  /\ UNCHANGED <<flags, conn, sendAudio, textPrompt, lmResponse, lmProcessed, utterances,
                 llm, tts, sender, receiver, astray>>

SpeechEnds ==
  /\ shouldListen /\ vad = "speech"
  /\ vad' = "quiet"
  /\ shouldListen' = FALSE
  /\ textOutput' = Append(textOutput, Item("speech_stopped", NoId))
  /\ utterances' = utterances + 1
  /\ UNCHANGED <<scope, responsePlaying, conn, sendAudio, textPrompt, lmResponse,
                 lmProcessed, llm, tts, sender, receiver, used, astray>>

\* The segment is too short or too long to be speech: it began for nothing.
SpeechDiscarded ==
  /\ shouldListen /\ vad = "speech"
  /\ vad' = "quiet"
  /\ textOutput' = Append(textOutput, Item("speech_stopped", NoId))
  /\ UNCHANGED <<flags, conn, sendAudio, textPrompt, lmResponse, lmProcessed, utterances,
                 llm, tts, sender, receiver, used, astray>>

\* A transcript, or nothing at all: RemoteOpenAISTTHandler yields nothing on
\* an HTTP error and on an empty text, so the notifier never hears of it.
Transcribe ==
  /\ utterances > 0
  /\ utterances' = utterances - 1
  /\ \/ textOutput' = Append(textOutput, Item("transcript", NoId))
     \/ load.sttMayFail /\ UNCHANGED textOutput
  /\ UNCHANGED <<flags, conn, sendAudio, textPrompt, lmResponse, lmProcessed, threads,
                 sender, receiver, used, astray>>

-----------------------------------------------------------------------------
(* LLM thread.  The request carries no generation: it is read from the    *)
(* CancelScope when the thread gets to the request.                       *)

LlmTake ==
  /\ llm.pc = "idle"
  /\ textPrompt # << >>
  /\ textPrompt' = Tail(textPrompt)
  /\ llm' = [pc |-> "generate", for |-> Head(textPrompt), gen |-> scope.gen, streamed |-> 0]
  /\ UNCHANGED <<flags, conn, textOutput, sendAudio, lmResponse, lmProcessed, utterances,
                 vad, tts, sender, receiver, used, astray>>

\* A stream event that completes a sentence; is_stale is checked first.
LlmStream ==
  /\ llm.pc = "generate"
  /\ ~IsStale(llm.gen)
  /\ llm.streamed < load.streamed
  /\ lmResponse' = Append(lmResponse, Item("text", llm.for))
  /\ llm' = [llm EXCEPT !.streamed = @ + 1]
  /\ UNCHANGED <<flags, conn, textOutput, sendAudio, textPrompt, lmProcessed, utterances,
                 vad, tts, sender, receiver, used, astray>>

\* How a generation ends: completed with its last text, tool calls or
\* neither; broken off because stale; timed out (always an apology), or
\* failed (an apology unless stale).  EndOfResponse comes last every time.
GenerationEnds ==
  {<<Item(k, llm.for), Item("usage", llm.for)>> : k \in Endings \cap {"text", "tools"}}
  \cup {<<Item("usage", llm.for)>> : k \in Endings \cap {"silence"}}
  \cup {<<Item("text", llm.for)>>}
  \cup (IF IsStale(llm.gen) THEN {<< >>} ELSE {})

\* Mutant: EndOfResponse overtakes the last chunk.
Generated_EndFirst(last) == <<Item("end", llm.for)>> \o last

\* Mutant: a failed generation returns before its EndOfResponse.
Generated_OnSuccess(last) ==
  IF \E n \in DOMAIN last : last[n].kind = "usage"
  THEN last \o <<Item("end", llm.for)>> ELSE last

Generated(last) == last \o <<Item("end", llm.for)>>

LlmEnd ==
  /\ llm.pc = "generate"
  /\ \E last \in GenerationEnds :
       lmResponse' = lmResponse \o Generated(last)
  /\ llm' = [pc |-> "idle", for |-> NoId, gen |-> 0, streamed |-> 0]
  /\ UNCHANGED <<flags, conn, textOutput, sendAudio, textPrompt, lmProcessed, utterances,
                 vad, tts, sender, receiver, used, astray>>

\* LMOutputProcessor: what reaches the send loop, and what goes on to TTS.
ProcessLmOutput ==
  /\ lmResponse # << >>
  /\ lmResponse' = Tail(lmResponse)
  /\ LET o == Head(lmResponse) IN
     \/ /\ o.kind = "text"
        /\ textOutput' = Append(textOutput, Item("assistant_text", o.for))
        /\ lmProcessed' = Append(lmProcessed, o)
     \/ /\ o.kind = "tools"
        /\ textOutput' = Append(textOutput, Item("tool_calls", o.for))
        /\ UNCHANGED lmProcessed
     \/ /\ o.kind = "usage"
        /\ textOutput' = Append(textOutput, Item("token_usage", o.for))
        /\ UNCHANGED lmProcessed
     \/ /\ o.kind = "end"
        /\ lmProcessed' = Append(lmProcessed, o)
        /\ UNCHANGED textOutput
  /\ UNCHANGED <<flags, conn, sendAudio, textPrompt, utterances, threads, sender,
                 receiver, used, astray>>

\* Mutant: EndOfResponse is passed on as it is.
Sentinel_AsIs(end) == end

Sentinel(end) == Item("done", end.for)

\* TTS thread: an end becomes the sentinel; a text is synthesized under the
\* generation current when the thread gets to it.
TtsTake ==
  /\ tts.pc = "idle"
  /\ lmProcessed # << >>
  /\ lmProcessed' = Tail(lmProcessed)
  /\ LET i == Head(lmProcessed) IN
     \/ /\ i.kind = "end"
        /\ sendAudio' = Append(sendAudio, Sentinel(i))
        /\ UNCHANGED tts
     \/ /\ i.kind = "text"
        /\ tts' = [pc |-> "synthesize", for |-> i.for, gen |-> scope.gen]
        /\ UNCHANGED sendAudio
  /\ UNCHANGED <<flags, conn, textOutput, textPrompt, lmResponse, utterances, vad, llm,
                 sender, receiver, used, astray>>

\* is_stale is checked while the body is read, not when it is yielded.
TtsEnd ==
  /\ tts.pc = "synthesize"
  /\ \/ sendAudio' = Append(sendAudio, Item("audio", tts.for))
     \/ (IsStale(tts.gen) \/ TtsMayFail) /\ UNCHANGED sendAudio
  /\ tts' = [pc |-> "idle", for |-> NoId, gen |-> 0]
  /\ UNCHANGED <<flags, conn, textOutput, textPrompt, lmResponse, lmProcessed, utterances,
                 vad, llm, sender, receiver, used, astray>>

-----------------------------------------------------------------------------
Pipeline == Transcribe \/ LlmTake \/ LlmStream \/ LlmEnd \/ ProcessLmOutput \/ TtsTake \/ TtsEnd
Client   == ClientCreate \/ ClientCancel \/ SpeechStarts \/ SpeechEnds \/ SpeechDiscarded

Next == (SendLoop \/ CancelSent \/ Pipeline \/ Client) /\ UNCHANGED load

Spec == Init /\ [][Next]_vars

\* Every remote call has a timeout and every queue a thread that polls it;
\* nothing obliges the user to speak or the client to send anything.
Fairness ==
  /\ WF_session(SendLoop) /\ WF_session(CancelSent)
  /\ WF_session(Transcribe) /\ WF_session(LlmTake) /\ WF_session(LlmEnd)
  /\ WF_session(ProcessLmOutput) /\ WF_session(TtsTake) /\ WF_session(TtsEnd)

FairSpec == Spec /\ Fairness

-----------------------------------------------------------------------------
(* Properties.  A session goes astray in four ways: a response resurrected  *)
(* by late output ("late", after which the guard may stay up for good),     *)
(* a request queued behind the response in progress ("stacked"), a          *)
(* response.create while output of an earlier response is still under way   *)
(* ("raced"), and a cancellation while the guard of an earlier one is still *)
(* up ("doubled": the first sentinel to arrive lowers it for both); after   *)
(* the last two audio may be sent under the wrong response.  The delivery   *)
(* properties hold for as long as none has happened, the liveness ones for  *)
(* as long as the first three have not, the conservation laws always.       *)

ItemsOf(kinds) == [kind : kinds, for : Nat]
ConnState == [response : Nat, created : BOOLEAN, item : BOOLEAN]
Counters  == [requests : Nat, speech : Nat, creates : Nat, cancels : Nat, acked : Nat]

FlagsOK ==
  /\ scope \in [gen : Nat, discarding : BOOLEAN]
  /\ shouldListen \in BOOLEAN /\ responsePlaying \in BOOLEAN
QueuesOK ==
  /\ textOutput \in Seq(ItemsOf(TextKinds))
  /\ sendAudio \in Seq(ItemsOf(AudioKinds))
  /\ textPrompt \in Seq(Nat)
  /\ lmResponse \in Seq(ItemsOf({"text", "tools", "usage", "end"}))
  /\ lmProcessed \in Seq(ItemsOf({"text", "end"}))
  /\ utterances \in Nat
ThreadsOK ==
  /\ vad \in {"quiet", "speech"}
  /\ llm \in [pc : {"idle", "generate"}, for : Nat, gen : Nat, streamed : Nat]
  /\ tts \in [pc : {"idle", "synthesize"}, for : Nat, gen : Nat]
  /\ sender \in [pc : SuspendedAt \cup {"next", "audio0"}, for : Nat]
  /\ receiver \in {"receive", "clear"}
SessionOK ==
  /\ conn \in ConnState /\ used \in Counters /\ load \in Load
  /\ astray \subseteq {"late", "stacked", "raced", "doubled"}

TypeOK == FlagsOK /\ QueuesOK /\ ThreadsOK /\ SessionOK

\* Each request produces exactly one sentinel and no flush, cancellation or
\* failure loses or duplicates one: the discard guard and should_listen
\* depend on it (websocket_router.py 106, 496; LLM 341-347).
SentinelConserved == used.requests = used.acked + Pending

\* Audio never follows the sentinel of its request in the queue.
AudioBeforeDone ==
  \A m, n \in DOMAIN sendAudio :
    (m < n /\ sendAudio[m].kind = "done") => sendAudio[n].for # sendAudio[m].for

SentinelsFor(r) ==
  \/ \E n \in DOMAIN textPrompt : textPrompt[n] = r
  \/ llm.pc = "generate" /\ llm.for = r
  \/ \E n \in DOMAIN lmResponse : lmResponse[n] = Item("end", r)
  \/ \E n \in DOMAIN lmProcessed : lmProcessed[n] = Item("end", r)
  \/ \E n \in DOMAIN sendAudio : sendAudio[n] = Item("done", r)
  \/ sender.pc = "tail" /\ sender.for = r

\* While a response is open, the sentinel that will close it is under way.
OpenHasSentinel == (InResponse /\ astray = {}) => SentinelsFor(conn.response)

\* What the queues hold is what the send loop takes it for.
QueuesSound == TypeOK /\ AudioBeforeDone /\ OpenHasSentinel

\* A chunk reaches the client only under the response it was produced for;
\* audio of a cancelled response is dropped (api README, step 5 of
\* Interruption Handling).
AudioInPlace == conn'.response = Head(sendAudio).for
ChunkSent  == sender.pc # "pace" /\ sender'.pc = "pace"
AudioUnderOwnResponse == [][ChunkSent => (AudioInPlace \/ astray' # {})]_vars

\* A sentinel closes only the response it ends (websocket_router.py 543-549).
DoneClosesOwn ==
  [][(sender.pc = "tail" /\ sender'.pc # "tail" /\ InResponse)
      => (conn.response = sender.for \/ astray # {})]_vars

\* Whatever the send loop does for a response, it does to that response.
DeliveredInPlace == AudioUnderOwnResponse /\ DoneClosesOwn

Strayed == astray \ {"doubled"} # {}

\* Every response opened for a turn is closed.
TurnCloses == InResponse ~> (~InResponse \/ Strayed)

\* The discard guard comes down again: no cancellation mutes the agent.
GuardClears == scope.discarding ~> (~scope.discarding \/ Strayed)

\* The microphone is live again after every utterance that is transcribed.
MicReopens == ~shouldListen ~> (shouldListen \/ Strayed \/ load.sttMayFail)

\* No response, no guard and no closed microphone is left hanging.
NothingHangs == TurnCloses /\ GuardClears /\ MicReopens

-----------------------------------------------------------------------------
(* What the documentation says and the code does not do. *)

\* "... preventing the discard guard from being set without a
\* __RESPONSE_DONE__ to clear it" (api README, step 7).
GuardHasSentinel == scope.discarding => Pending > 0

\* "The send loop silently drops stale audio chunks" (api README, step 5).
StaleAudioDropped == [][ChunkSent => AudioInPlace]_vars

\* The same where the only thing that went astray is a second cancellation under the
\* guard of a first: the audio of the response cancelled last is not dropped.
CancelledStaysSilent == [][ChunkSent => (AudioInPlace \/ Strayed')]_vars

\* An utterance that yields no text reopens the microphone
\* (tests/test_transcription_notifier.py 71).
MicAlwaysReopens == ~shouldListen ~> shouldListen
=============================================================================
