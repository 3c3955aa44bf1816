------------------------------ MODULE HandlerChain ------------------------------
(***************************************************************************)
(* The handler threads of each session (baseHandler.py), a line of six     *)
(* with a FIFO queue before each and one behind the last, the services     *)
(* their handlers call under process-wide limits (utils/concurrency.py),   *)
(* and the session's teardown (session_pipeline.py).                       *)
(*                                                                         *)
(* A step is what a thread does between two points where others can        *)
(* interfere: the queue's get, the wait for a slot, and each answer of a   *)
(* blocking call.                                                          *)
(***************************************************************************)
EXTENDS Naturals, Sequences, FiniteSets

CONSTANTS Sessions,
          Loads     \* bounds of a behaviour, and the limits it runs under

Services == {"STT", "LLM", "TTS"}
Backends == {"openai", "elevenlabs", "minimax"}

ASSUME SessionsAssumption == IsFiniteSet(Sessions)

\* cap: the limits, 0 for none; compact: is history compacted?; live and ends:
\* the sessions that are used and that are torn down; the rest are counts, for
\* each session.
ASSUME LoadsAssumption ==
  \A l \in Loads :
    /\ l.cap \in [Services -> Nat] /\ l.backend \in Backends
    /\ l.compact \in BOOLEAN /\ l.live \subseteq Sessions /\ l.ends \subseteq Sessions
    /\ \A n \in {l.utterances, l.requests, l.cancels, l.texts, l.frames} : n \in Nat

VARIABLES
  load,      \* bound: the workload
  thread,    \* [pc, gen, n, late] of each handler thread
  queue,     \* the queues of each session: before each handler, behind the last
  free,      \* slots left of each ConcurrencyLimiter
  gen,       \* CancelScope.generation
  stop,      \* stop_event
  down,      \* SessionPipeline.shutdown: how far it has come
  compacting,\* is a compaction of the session's history being generated?
  asked      \* counters: utterances, requests and cancellations so far

vars == <<load, thread, queue, free, gen, stop, down, compacting, asked>>

-----------------------------------------------------------------------------
VAD == 1  STT == 2  Notifier == 3  LM == 4  Processor == 5  TTS == 6
Stages  == VAD..TTS
Queues  == Stages \cup {TTS + 1}     \* the last is send_audio
Handler == Sessions \X Stages

ServiceOf(k) == IF k = STT THEN "STT" ELSE IF k = LM THEN "LLM" ELSE "TTS"

\* pc: get, slot (waiting for one), call (an answer of the service is awaited),
\* check (of is_stale), emit, stop (seen), gone.  n counts texts or frames of the
\* call; late, those accepted after its cancellation.
Idle == [pc |-> "get", gen |-> 0, n |-> 0, late |-> 0]

Init ==
  /\ load \in Loads
  /\ thread = [h \in Handler |-> Idle]
  /\ queue = [s \in Sessions |-> [k \in Queues |-> << >>]]
  /\ free = load.cap
  /\ gen = [s \in Sessions |-> 0]
  /\ stop = [s \in Sessions |-> FALSE]
  /\ down = [s \in Sessions |-> "up"]
  /\ compacting = {}
  /\ asked = [s \in Sessions |-> [utterances |-> 0, requests |-> 0, cancels |-> 0]]

PC(s, k)     == thread[<<s, k>>].pc
Read(s, k)   == k = TTS + 1 \/ PC(s, k) # "gone"   \* nobody reads what is queued for the gone
Put(s, k, m) == queue' = IF Read(s, k) THEN [queue EXCEPT ![s][k] = @ \o m] ELSE queue
Goto(s, k, t) == thread' = [thread EXCEPT ![<<s, k>>] = t]
To(s, k, pc) == Goto(s, k, [thread[<<s, k>>] EXCEPT !.pc = pc])

\* The item is done with; stop_event is tested before the next one.
AfterItem(s) == IF stop[s] THEN "stop" ELSE "get"
Again(s, k)  == Goto(s, k, [Idle EXCEPT !.pc = AfterItem(s)])

\* get of an item of this kind, and what is handed on in the same go.
Takes(s, k, kind, m) ==
  /\ PC(s, k) = "get" /\ queue[s][k] # << >> /\ Head(queue[s][k]) = kind
  /\ queue' = [queue EXCEPT ![s][k] = Tail(@), ![s][k + 1] = IF Read(s, k + 1) THEN @ \o m ELSE @]

-----------------------------------------------------------------------------
(* BaseHandler.run.                                                        *)

\* cleanup(), and PIPELINE_END for the next handler.
Leaves(s, k) ==
  /\ To(s, k, "gone")
  /\ queue' = [queue EXCEPT ![s][k] = << >>,
                            ![s][k + 1] = IF Read(s, k + 1) THEN Append(@, "PIPELINE_END") ELSE @]
  /\ UNCHANGED <<load, free, gen, stop, down, compacting, asked>>

\* stop_event is found set: at the test that follows an item, or at the one
\* that follows a time-out of the get, whatever has been queued since.  (A
\* time-out that finds it clear changes nothing.)
SeesStop(s, k) ==
  \/ PC(s, k) = "stop" /\ Leaves(s, k)
  \/ PC(s, k) = "get" /\ stop[s] /\ Leaves(s, k)

\* on_session_end, and on to the next handler.
GetSessionEnd(s, k) ==
  /\ Takes(s, k, "SESSION_END", <<"SESSION_END">>)
  /\ Again(s, k)
  /\ UNCHANGED <<load, free, gen, stop, down, compacting, asked>>

GetPipelineEnd(s, k) ==
  /\ PC(s, k) = "get" /\ queue[s][k] # << >> /\ Head(queue[s][k]) = "PIPELINE_END"
  /\ Leaves(s, k)

(* ConcurrencyLimiter: a BoundedSemaphore, or nothing.                     *)

Limited(k) == load.cap[ServiceOf(k)] > 0

\* Mutant: acquire(blocking=False), and its answer is not looked at.
SlotFree_Ignored(k) == TRUE

SlotFree(k) == free[ServiceOf(k)] > 0

Acquire(s, k) ==
  /\ PC(s, k) = "slot"
  /\ IF Limited(k) THEN /\ SlotFree(k)
                        /\ free' = [free EXCEPT ![ServiceOf(k)] = @ - 1]
                   ELSE UNCHANGED free
  /\ To(s, k, "call")
  /\ UNCHANGED <<load, queue, gen, stop, down, compacting, asked>>

\* An over-release raises ValueError, which release() swallows.
Released(k) ==
  IF Limited(k) /\ free[ServiceOf(k)] < load.cap[ServiceOf(k)]
  THEN [free EXCEPT ![ServiceOf(k)] = @ + 1] ELSE free

(* The handlers.  What their process() raises, run() catches.              *)

\* Mutant: what process() raises ends the thread.
AfterRaise_Ends(s) == "stop"

AfterRaise(s) == AfterItem(s)

Raises(s, k) == Goto(s, k, [Idle EXCEPT !.pc = AfterRaise(s)])

VadUtterance(s) ==
  /\ Takes(s, VAD, "speech", <<"utterance">>)
  /\ Again(s, VAD)
  /\ UNCHANGED <<load, free, gen, stop, down, compacting, asked>>

SttStarts(s) ==
  /\ Takes(s, STT, "utterance", << >>)
  /\ Goto(s, STT, [Idle EXCEPT !.pc = "slot"])
  /\ UNCHANGED <<load, free, gen, stop, down, compacting, asked>>

\* A transcript; an empty one or an HTTP error, and nothing goes on; or what
\* is no httpx.HTTPError, such as an answer that is not JSON.
SttAnswers(s) ==
  /\ PC(s, STT) = "call"
  /\ free' = Released(STT)
  /\ \/ Put(s, Notifier, <<"transcript">>) /\ Again(s, STT)
     \/ Again(s, STT) /\ UNCHANGED queue
     \/ Raises(s, STT) /\ UNCHANGED queue
  /\ UNCHANGED <<load, gen, stop, down, compacting, asked>>

\* The transcript goes to the text queue; the service asks for the response.
Notify(s) ==
  /\ Takes(s, Notifier, "transcript", << >>)
  /\ Again(s, Notifier)
  /\ UNCHANGED <<load, free, gen, stop, down, compacting, asked>>

\* Mutant: a call that is cut short keeps its slot.
Freed_OnSuccess(k, success) == IF success THEN Released(k) ELSE free

\* `finally`, and the end of the `with` block
Freed(k, success) == Released(k)

Stale(s, k) == thread[<<s, k>>].gen # gen[s]

LmStarts(s) ==
  /\ Takes(s, LM, "request", << >>)
  /\ Goto(s, LM, [Idle EXCEPT !.pc = "slot", !.gen = gen[s]])
  /\ UNCHANGED <<load, free, gen, stop, down, compacting, asked>>

\* An event of the stream completes a batch of sentences.
LmText(s) ==
  /\ PC(s, LM) = "call" /\ ~Stale(s, LM) /\ thread[<<s, LM>>].n < load.texts
  /\ Put(s, Processor, <<"text">>)
  /\ thread' = [thread EXCEPT ![<<s, LM>>].n = @ + 1]
  /\ UNCHANGED <<load, free, gen, stop, down, compacting, asked>>

\* The stream ends, with a remainder to say or without; an event finds the
\* generation stale and cuts it; the read times out, which is said aloud; or it
\* fails, which is said aloud unless the generation is stale.  In any case the
\* slot is given back, history compacted if need be, and the response ended.
LmEnds(s) ==
  /\ PC(s, LM) = "call"
  /\ \/ /\ free' = Freed(LM, TRUE)
        /\ \E said \in {<<"usage">>, <<"text", "usage">>} : Put(s, Processor, Append(said, "end"))
     \/ /\ free' = Freed(LM, FALSE)
        /\ \/ Stale(s, LM) /\ Put(s, Processor, <<"end">>)
           \/ Put(s, Processor, <<"text", "end">>)
  /\ \/ UNCHANGED compacting
     \/ load.compact /\ compacting' = compacting \cup {s}
  /\ Again(s, LM)
  /\ UNCHANGED <<load, gen, stop, down, asked>>

\* The compaction worker's own request to the LLM takes no slot.
Compacted(s) ==
  /\ s \in compacting
  /\ compacting' = compacting \ {s}
  /\ UNCHANGED <<load, thread, queue, free, gen, stop, down, asked>>

\* LMOutputProcessor: text and the end of a response go on.
ProcessLm(s) ==
  /\ \/ \E kind \in {"text", "end"} :
          Takes(s, Processor, kind, <<Head(queue[s][Processor])>>)
     \/ Takes(s, Processor, "usage", << >>)
  /\ Again(s, Processor)
  /\ UNCHANGED <<load, free, gen, stop, down, compacting, asked>>

TtsDone(s) ==
  /\ Takes(s, TTS, "end", <<"done">>)
  /\ Again(s, TTS)
  /\ UNCHANGED <<load, free, gen, stop, down, compacting, asked>>

\* Only the OpenAI back end has a limiter.  MiniMax connects, is acknowledged
\* and tests is_stale before each frame it reads.
TtsStarts(s) ==
  /\ Takes(s, TTS, "text", << >>)
  /\ Goto(s, TTS, [Idle EXCEPT !.gen = gen[s],
       !.pc = CASE load.backend = "openai"     -> "slot"
                [] load.backend = "elevenlabs" -> "call"
                [] load.backend = "minimax"    -> "check"])
  /\ UNCHANGED <<load, free, gen, stop, down, compacting, asked>>

\* Mutant: a cancellation is looked for when the stream opens, not after.
Aborts_AtStart(s) == Stale(s, TTS) /\ thread[<<s, TTS>>].n = 0

Aborts(s) == Stale(s, TTS)

Accepted(s) ==
  LET t == thread[<<s, TTS>>] IN
  [t EXCEPT !.n = @ + 1, !.late = IF Stale(s, TTS) THEN @ + 1 ELSE @]

TtsSlot == IF load.backend = "openai" THEN Freed(TTS, FALSE) ELSE free
TtsClosed == IF load.backend = "openai" THEN Freed(TTS, TRUE) ELSE free

\* A chunk is read: the stream is closed if the generation is stale, else the
\* chunk is added to the clip.
TtsReads(s) ==
  /\ load.backend # "minimax" /\ PC(s, TTS) = "call" /\ thread[<<s, TTS>>].n < load.frames
  /\ IF Aborts(s) THEN Again(s, TTS) /\ free' = TtsSlot
     ELSE Goto(s, TTS, Accepted(s)) /\ UNCHANGED free
  /\ UNCHANGED <<load, queue, gen, stop, down, compacting, asked>>

\* The clip is complete: what has been read is cut into chunks.
TtsComplete(s) ==
  /\ load.backend # "minimax" /\ PC(s, TTS) = "call"
  /\ free' = TtsClosed
  /\ IF thread[<<s, TTS>>].n > 0 THEN To(s, TTS, "emit") ELSE Again(s, TTS)
  /\ UNCHANGED <<load, queue, gen, stop, down, compacting, asked>>

TtsEmits(s) ==
  /\ PC(s, TTS) = "emit"
  /\ Put(s, TTS + 1, <<"audio">>)
  /\ IF thread[<<s, TTS>>].n > 1
     THEN thread' = [thread EXCEPT ![<<s, TTS>>].n = @ - 1] ELSE Again(s, TTS)
  /\ UNCHANGED <<load, free, gen, stop, down, compacting, asked>>

TtsChecks(s) ==
  /\ PC(s, TTS) = "check"
  /\ IF Aborts(s) THEN Again(s, TTS) ELSE To(s, TTS, "call")
  /\ UNCHANGED <<load, queue, free, gen, stop, down, compacting, asked>>

\* A frame is passed on as it arrives, and may be the last.
TtsFrame(s) ==
  /\ load.backend = "minimax" /\ PC(s, TTS) = "call"
  /\ \/ /\ thread[<<s, TTS>>].n < load.frames
        /\ Put(s, TTS + 1, <<"audio">>)
        /\ \/ Goto(s, TTS, [Accepted(s) EXCEPT !.pc = "check"])
           \/ Again(s, TTS)
     \/ Again(s, TTS) /\ UNCHANGED queue
  /\ UNCHANGED <<load, free, gen, stop, down, compacting, asked>>

\* The call fails: logged, or caught by run().
TtsFails(s) ==
  /\ PC(s, TTS) = "call"
  /\ free' = TtsSlot
  /\ Again(s, TTS) \/ (load.backend # "minimax" /\ Raises(s, TTS))
  /\ UNCHANGED <<load, queue, gen, stop, down, compacting, asked>>

-----------------------------------------------------------------------------
(* The session's websocket: audio in, requests, cancellations.             *)

Asks(s, what, most) ==
  /\ s \in load.live /\ down[s] = "up" /\ asked[s][what] < most
  /\ asked' = [asked EXCEPT ![s][what] = @ + 1]

Speech(s) ==
  /\ Asks(s, "utterances", load.utterances)
  /\ Put(s, VAD, <<"speech">>)
  /\ UNCHANGED <<load, thread, free, gen, stop, down, compacting>>

Request(s) ==
  /\ Asks(s, "requests", load.requests)
  /\ Put(s, LM, <<"request">>)
  /\ UNCHANGED <<load, thread, free, gen, stop, down, compacting>>

Cancel(s) ==
  /\ Asks(s, "cancels", load.cancels)
  /\ gen' = [gen EXCEPT ![s] = @ + 1]
  /\ UNCHANGED <<load, thread, queue, free, stop, down, compacting>>

(* SessionPipeline.shutdown, in a thread of its own.                       *)

Shut(s, from, to) ==
  /\ down[s] = from
  /\ down' = [down EXCEPT ![s] = to]
  /\ UNCHANGED <<load, thread, free, gen, compacting, asked>>

ShutSessionEnd(s) ==
  s \in load.ends /\ Shut(s, "up", "ending") /\ Put(s, VAD, <<"SESSION_END">>) /\ UNCHANGED stop

ShutPipelineEnd(s) ==
  Shut(s, "ending", "ended") /\ Put(s, VAD, <<"PIPELINE_END">>) /\ UNCHANGED stop

ShutStop(s) ==
  Shut(s, "ended", "joining") /\ stop' = [stop EXCEPT ![s] = TRUE] /\ UNCHANGED queue

\* join(timeout=5) of each thread in turn: a wait may be given up, and a thread
\* that is still alive is left to itself.
ShutJoin(s) == Shut(s, "joining", "down") /\ UNCHANGED <<queue, stop>>

-----------------------------------------------------------------------------
Run(s, k) ==
  \/ SeesStop(s, k) \/ GetSessionEnd(s, k) \/ GetPipelineEnd(s, k)
  \/ Acquire(s, k)
  \/ k = VAD /\ VadUtterance(s)
  \/ k = STT /\ (SttStarts(s) \/ SttAnswers(s))
  \/ k = Notifier /\ Notify(s)
  \/ k = LM /\ (LmStarts(s) \/ LmText(s) \/ LmEnds(s))
  \/ k = Processor /\ ProcessLm(s)
  \/ k = TTS /\ \/ TtsDone(s) \/ TtsStarts(s) \/ TtsReads(s) \/ TtsComplete(s)
                \/ TtsEmits(s) \/ TtsChecks(s) \/ TtsFrame(s) \/ TtsFails(s)

Shutdown(s) == ShutSessionEnd(s) \/ ShutPipelineEnd(s) \/ ShutStop(s) \/ ShutJoin(s)

Next ==
  \/ \E s \in Sessions : Speech(s) \/ Request(s) \/ Cancel(s) \/ Shutdown(s) \/ Compacted(s)
  \/ \E s \in Sessions, k \in Stages : Run(s, k)

Spec == Init /\ [][Next]_vars

\* Threads run, and calls end: every client has a time-out.
FairSpec ==
  /\ Spec
  /\ \A s \in Sessions : WF_vars(ShutPipelineEnd(s) \/ ShutStop(s))
  /\ \A s \in Sessions, k \in Stages : WF_vars(Run(s, k))

-----------------------------------------------------------------------------
(* Properties. *)

Thread ==
  [pc : {"get", "slot", "call", "check", "emit", "stop", "gone"},
   gen : Nat, n : Nat, late : Nat]

Kinds == {"speech", "utterance", "transcript", "request", "text", "usage", "end", "audio",
          "done", "SESSION_END", "PIPELINE_END"}

TypeOK ==
  /\ load \in Loads
  /\ thread \in [Handler -> Thread]
  /\ queue \in [Sessions -> [Queues -> Seq(Kinds)]]
  /\ free \in [Services -> Nat] /\ \A v \in Services : free[v] <= load.cap[v]
  /\ gen \in [Sessions -> Nat] /\ stop \in [Sessions -> BOOLEAN]
  /\ down \in [Sessions -> {"up", "ending", "ended", "joining", "down"}]
  /\ compacting \subseteq Sessions

Holders(k) == {s \in Sessions : PC(s, k) = "call"}

\* A slot of a limited service is either free or held by a call in progress,
\* on every way out of a call: none is lost, and none is given back twice
\* (responses_api_language_model.py 357, concurrency.py 56).
SlotsConserved ==
  \A k \in {STT, LM, TTS} :
    (Limited(k) /\ (k = TTS => load.backend = "openai")) =>
      free[ServiceOf(k)] + Cardinality(Holders(k)) = load.cap[ServiceOf(k)]

\* The threads, the queues and the limiter they share.
SlotsSound == TypeOK /\ SlotsConserved

\* Whoever waits for a slot gets one, though other sessions are cancelled or
\* torn down while they hold it.
SlotGranted ==
  \A s \in Sessions, k \in {STT, LM, TTS} : PC(s, k) = "slot" ~> PC(s, k) # "slot"

\* Barge-in closes the synthesis stream: the buffering back ends accept nothing
\* that arrives after a cancellation, MiniMax at most the frame it is reading.
AbortsPromptly ==
  \A s \in Sessions : thread[<<s, TTS>>].late <= (IF load.backend = "minimax" THEN 1 ELSE 0)

Gone(s) == {k \in Stages : PC(s, k) = "gone"}

\* The threads of a session as the rest of the server sees them.
StatusOf(s) ==
  IF Gone(s) = Stages THEN "stopped"
  ELSE IF down[s] \in {"ended", "joining", "down"} THEN "stopping"
  ELSE IF Gone(s) = {} THEN "running" ELSE "broken"

Status == [s \in Sessions |-> StatusOf(s)]

Life == INSTANCE PipelineLife WITH status <- Status

\* No thread ends before it is told to, and once told all of them end.
ImplementsPipelineLife == Life!Spec

\* The limits as documented, "Cap concurrent in-flight requests across all
\* sessions" (docs/INSTALL_AND_CONFIGURATION.md 326).
InFlight(k) ==
  Cardinality(Holders(k)) + IF k = LM THEN Cardinality(compacting) ELSE 0
CapHolds ==
  \A k \in {STT, LM, TTS} : Limited(k) => InFlight(k) <= load.cap[ServiceOf(k)]
=============================================================================
