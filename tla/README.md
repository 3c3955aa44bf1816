# A verification project for speech2speech

speech2speech is a realtime voice server: a client streams microphone audio over
a websocket, a chain of threads turns it into a transcript, an answer and
synthesized speech, and the server sends the answer back while the user may
interrupt at any time.  What makes it hard is not any one of these steps but
their overlap: two coroutines and six threads per session act on the same
response, the items that travel between them do not say which response they
belong to, and sessions share limiters, a warm-up, argument objects and a
speaker service.  This directory holds TLA+ models of the parts where that
matters, TLC runs on small instances, and TLAPS proofs.

Paths are relative to `src/src/speech_to_speech/`, those of the speaker-id
service to `src/speaker-id/app/`.

## Inventory

| Component | State it keeps | Operations | What is hard | What makes it correct |
|---|---|---|---|---|
| Response lifecycle: `api/openai_realtime/service.py`, `handlers/` | one `ConnState` per connection: `in_response`, `current_response_id`, `current_item_id`, flags; `response_usage`, `total_usage` | client events, pipeline events, audio chunks, the end sentinel, register and unregister | five paths open a response, three close it, each tests another field and folds usage | one response at a time, opened and closed once, events in protocol order, usage counted once |
| Send and receive loop: `websocket_router.py`, `pipeline/cancel_scope.py` | `CancelScope` (generation, discarding), `should_listen`, `response_playing` | barge-in, cancel, create, sentinel, audio, pacing, tail hold | everything after an `await` may be stale; flushes race the threads | no sentinel lost or duplicated, audio under its own response, microphone and guard recover |
| Handler chain: `STT/`, `LLM/`, `TTS/`, `baseHandler.py` | FIFO queues, the generation each handler captured, a thread for each handler | one item at a time; sentinels; `stop_event` | failures, timeouts, cancellation and teardown in the middle of a call | every request ends with one sentinel behind its audio; threads end when and only when told |
| Limiter: `utils/concurrency.py` | a semaphore for each service, process-wide | acquire, release, the `with` block | many exits from a call: return, exception, abort, teardown | each slot free or held by one call, waiting ends |
| Chat history: `LLM/chat.py` | `buffer`, `_pending_tool_calls`, `_user_turn_count`, `_gen_counter`, `_compact_in_flight` | add, trim, strip images, copy, the compaction worker, reset, close | the worker holds a snapshot for seconds; the LLM thread strips and trims while the event loop adds | exact count, paired tool calls, no resurrection, single flight, sound prompts |
| Voice activity detection: `VAD/` | the iterator's buffers, `_turn_carry`, `_hold_deadline`, `_speech_started_emitted` | one chunk at a time | three ways to end a bracket, holds with a deadline, discarded segments, a pause changed in mid-turn | brackets alternate, audio emitted once, held turns end |
| Echo canceller and gate: `audio/echo_canceller.py`, the gate in `VAD/vad_handler.py` | far, near and clean buffers, `far_recent`, the window of the gate; a native object bound to one thread | append, far end in, far end off, close | 32 ms chunks over 10 ms frames; the native object must die on the loop's thread | bounded lag, the gate opens again, barge-in heard, dropped in time |
| Sessions: `websocket_router.py`, `pipeline/session_pipeline.py` | the rosters `_conns`, `_pipelines`, `sessions`, `websockets`; shared argument objects | connect, build, attach, teardown, reaper, supervisor, shutdown | builds run off the loop; two parties tear one pipeline down | capacity, isolation, no leak, stop order |
| Server: `s2s_pipeline.py`, `server.py`, `utils/thread_manager.py` | pre-warmed templates, the warm-up lock and flag, `stop_event`, the thread list | pre-warm, signals, launch, wait, join | builds race each other and a failing warm-up; signals at every point of start-up | one warm-up, every session equipped, every connect answered, every signal ends the process |
| Speaker identity: `speaker_id/`, service `main.py`, `store.py` | SQLite tables, the in-memory mirror `_ids`/`_mat`, one lock; the label and item of each turn | enrol, invite, consent, revoke, delete, identify, diarize; the pools of the session | checks long before writes, reads without the lock, late answers, restart | nothing outlives a deleted speaker, consent, each turn gets its own name, nobody blocks |
| Tool-call parsing, prompts, arguments, scripts | none | | | not modelled, see the end |

The client talks to the receive loop; the receive loop calls the service's
handlers and puts audio and requests on queues; VAD, STT, notifier, LLM, LM
output processor and TTS pass items down a line of FIFO queues, side events go
onto one text queue, and the send loop drains the text queue and the audio queue
alternately, calling the same handlers.  Back channels are shared flags: the
`CancelScope` read by LLM and TTS, `should_listen` read by the VAD.  STT calls the
speaker-id service beside the transcription; the send loop's audio is the far
end of the echo canceller.  The server thread hosts all sessions; each build
takes models from templates the main thread made.

The hazards of each component, line by line, with the properties that answer
them, are in `PROJECT.json`.

## Modules

Each `MC` module instantiates the module it is named after for TLC and holds
nothing but values of constants.

**ResponseLifecycle** is the abstract promise to a client: at most one response
is in progress, opened once, closed once, never back.  **ResponseService** is
the code that should keep it: `conn` holds the lifecycle fields of `ConnState`,
each handler is one action (a handler has no `await`), and `out` is the list of
events it returns, in order.  `_ensure_response`, `_start_item`,
`begin_output_item_events`, `finish_audio_response` and `begin_turn_response` are
functions on the state under similar names.  The handlers are called in every
order, which is more than the router and the pipeline can do.  `wire` and
`speechItem` are history.  **Metering** extends it: each handler with what it
does to the usage counters (`Use`, `Fold`), and unregister, which folds the rest.

**RealtimeSession** composes one session: both coroutines, the threads and all
queues.  The send loop is cut where it awaits: `sender.pc` says at which await it
is suspended, and the receive loop runs only then (`LoopFree`), since both run on
one event loop.  Threads run at any time.  Each queued item carries the request
it was produced for (`for`); the code's items carry nothing of the kind, and no
guard reads it except in properties.  The lifecycle handlers appear as `Ensured`,
`Begun`, `Opened`, the view of ResponseService without item identifiers.  `astray`
records how a behaviour has left the ordinary course: "late" (output with no
response in progress opens one), "stacked" (a transcript while a response is in
progress), "raced" (a `response.create` while output of an earlier response is
under way), "doubled" (a cancellation while the guard of an earlier one is still up:
both share one flag, and the first stale sentinel lowers it for both).

**ChatHistory** is one `Chat`: a public method holds the lock throughout and is
one action; the compaction worker is four steps, its two unlocked checks and its
locked one apart.  **Dialogue** extends it with the LLM thread, which copies the
history into a prompt, streams, then strips images and trims, each call an
action between which the event loop goes on adding; and with the images.

**VadTurn** is one VAD thread.  A chunk is one step; lengths are numbers of
chunks; a chunk is scored speech, between the thresholds, or silence.  Smart
Turn's verdict is a choice; the hold deadline expires by an action of its own.

**EchoCanceller** is the microphone path in front of it: appended audio cut into
chunks, the far end and both back ends' buffers as lengths in units of 2 ms, the
sustain window of the gate, and the end of a session.  A session is torn down by its
endpoint, which waits for the send loop, closes the canceller and starts a worker; or by
the lifespan when the server shuts down, which lists the sessions, waits for the send
loop of each and starts a worker without closing anything (`Shutdown`, `Drain`,
`DrainStop`, `Drained`); or by both, in any order, while the receive loop of a live
endpoint may make the native canceller anew behind the shutdown's worker.  `HeldOnLoop`
says which frames of the event loop still have the pipeline, `workers` which teardown
workers do.  That the shutdown blocks the loop while it joins its workers only delays it
and is left out; when it comes is left open.

**HandlerChain** is the threads of all sessions: `BaseHandler.run` (get, process,
what it raises, `SESSION_END`, `PIPELINE_END`, `stop_event` at its two tests,
`cleanup`), the calls that hold a slot of a `ConcurrencyLimiter`, when each back
end asks whether its generation is stale, and `SessionPipeline.shutdown`.
**PipelineLife** is what the rest of the server relies on: threads run until they
are told to stop and then all end.  HandlerChain implements it through `Status`;
Sessions uses the same one-field view of a chain.

**Sessions** is the server's admission: an endpoint coroutine, a build thread and
a pipeline for each connection, the rosters, the reaper, the supervisor and the
shutdown.  The build is split at its writes to and reads from the shared
argument objects.

**ServerLife** is the process: pre-warming of VAD, detector and LLM on the main
thread, the signal handlers, the server thread and its watcher, and in each
connection's thread the build that deep-copies the VAD template, takes the detector
all sessions share, and takes the warm-up lock, double-checking the flag.

**SpeakerService** is the speaker-id service: tables, mirror, lock, foreign keys
(which SQLite enforces only once a connection has run its first delete, and no
longer after a restart), async endpoints cut where they read the upload, `def`
endpoints in threads, queries cut between their two reads of the mirror.  There is one
embedding model: the filter on model and dimension of what is loaded (`store.py:125`)
keeps every row.
**SpeakerTurns** extends it with the session that calls it: the identify pool of
one worker, the bounded join, the item a transcript is announced under, the
diarize pool of two and its corrections.

Compositions: Metering, Dialogue and SpeakerTurns extend the module below them and
conjoin its actions; HandlerChain refines PipelineLife and ResponseService refines
ResponseLifecycle by `INSTANCE ... WITH`; RealtimeSession composes six actors and
their queues in one module.  ResponseService and RealtimeSession are not composed
by INSTANCE: RealtimeSession needs three of the fields of `conn` and states the
handlers' effect on them directly.

## Runs

| Run | Shows | Bounds, and states |
|---|---|---|
| `service` | `CountersSound`, `ConnCoherent`, `StreamWellFormed` (protocol order, items between created and done and closed, audio attached), `UsageConserved`, `NothingAfterDone`, refinement of ResponseLifecycle | 2 responses, 5 items, 1 token report, 1 tool call, short or long utterances; 2.3 million |
| `realtime` | `QueuesSound`, `SentinelConserved`, `DeliveredInPlace`, `NothingHangs` (liveness) | 3 utterances; or 1 utterance, 1 create, 1 cancel, 1 streamed sentence and a failing STT; 0.8 million |
| `chat` | `HistorySound`, `SplicesFit`, `LatestTurnKept`, `FlagClears` | size 2, one call, 8 items, 1 reset; 0.4 million |
| `dialogue` | `PromptSound`, `ImagesOnce` | size 2, 6 items, 2 generations; 4 million |
| `vad` | `TurnsBracketed`, `AudioConserved`, `ClosedMicIsIdle`, `TurnEnds` | pad 3, silence 2, speech 5 to 8, ceiling 14 chunks, pause 0 or 2; 13 thousand |
| `sessions` | `CapacityHeld`, `SessionsSound`, `EveryoneLeaves` | 2 connections, limit 1 and 2; 0.2 million |
| `speakers` | `StoreSound`, `InviteCountExact`, `NamesFit`, `EveryoneServed` | 2 speakers, 2 voices, 2 links, at most 3 requests, 2 turns, 1 restart, six workloads; 0.5 million |
| `chain` | `SlotsSound`, `AbortsPromptly`, `SlotGranted`, refinement of PipelineLife with its liveness | 2 sessions, 1 slot, three back ends, six workloads; 84 thousand |
| `echo` | `FramesSound`, `DroppedOnLoop`, `FarEnds`, `BargeInHeard` | the code's frames and chunks, appends of 16 and 32 ms, a far end of 60 ms, a gate that asks for more chunks than its window holds, both teardowns; 2.4 million |
| `startup` | `WarmedOnce`, `SessionEquipped`, `EveryoneAnswered` | 3 connections, 2 signals, every failure of pre-warming; 0.3 million |
| `deaf` (violation) | a microphone that stays closed after an utterance that yields no text | 2 utterances |
| `sessions_isolation` (violation) | concurrent builds exchange wiring | 2 connections |

Why the bounds are enough.  `service`: two responses meet every pair of paths (a
response closed, the next opened, what the first left behind).  `realtime`: the
item that matters is always one of the previous response, so one response from
each source and one cancellation give barge-in, cancel, create-after-cancel and a
stale sentinel; the third utterance barges into the answer to the second, which
barged into the first.  `chat`: with size 2 the cap is 4 user turns and a
compaction needs 3, so 8 items allow evictions and appends during a compaction and
a second compaction after a reset.  `dialogue`: two generations, since what is at
stake is what the second finds of the first.  `vad`: the pad differs from the
pause, a segment can be too short, acceptable or too long, and two acceptable
segments reach the ceiling.  `sessions`, `chain`: the shared arguments and the
one slot are contended by two; a third would repeat the roles.  `startup`: one
build warms, one waits for it, one comes after.  `speakers`: an enrolment, a
deletion and a re-creation fit into three requests; the workloads keep apart what
does not meet, since all requests with all turns at once exceed TLC.  `echo`: five
chunks of 32 ms leave every residue of a 10 ms frame.  Symmetry is
not used, because of the temporal properties and the small size.

Deadlock is checked in `realtime`, `deaf` and `vad`, where polling and the
microphone never stop.  The others allow it: their work is bounded and then there
is nothing to do, or the server has stopped.

Most properties are conjunctions of named parts (`StreamWellFormed` of
`ProtocolOrder`, `BetweenCreatedAndDone`, `AudioAttached`, ...; `EveryoneServed` of two liveness properties).
The modules keep a mutated operator for each part, next to the definition it
mutates; `PROJECT.json` lists one for each property.

The strong properties of `realtime` are stated up to the step that goes
astray, the conservation laws (`SentinelConserved`, types, `AudioBeforeDone`)
without exception; `vad` excepts turns of which a segment was discarded (`cut`);
`sessions` checks wiring for builds that did not overlap; `speakers` excepts
queries torn by a deletion (`torn`).  Each exception has a configuration below
that drops it.

## Where the code and its words disagree

Two runs keep a disagreement:

* `deaf`: the notifier reopens the microphone on an empty transcript, and
  `src/tests/test_transcription_notifier.py:71` checks that it does; the STT
  handler never sends it one (`STT/remote_openai_stt_handler.py:137`).
* `sessions_isolation`: `websocket_router.py:143` says sessions are fully
  isolated; concurrent builds share the argument objects
  (`pipeline/session_pipeline.py:341`).

Further configurations, to be run by hand, each of which TLC finds violated:

| Configuration | Property | What is said | What the code does |
|---|---|---|---|
| `MCMetering_interrupt` | `OneItemPerResponse` | `handlers/response.py:145`: begin events once per response | with `interrupt_response` off, `on_speech_started` starts a new item, which the response announces as a second one |
| `MCMetering_audio` | `AudioBilled` | `handlers/conversation.py:115`: accumulate duration | the duration of one utterance overwrites that of another not yet transcribed (line 118) |
| `MCRealtimeSession_guard` | `GuardHasSentinel` | `api/openai_realtime/README.md:166`: no guard without a sentinel to clear it | late text reopens a response that has none |
| `MCRealtimeSession_stale` | `StaleAudioDropped` | same, line 164: stale audio is dropped | `response.create` lifts the guard before it has passed |
| `MCRealtimeSession_twice` | `CancelledStaysSilent` | same, line 164 | two cancellations share one guard: the sentinel of the first lowers it while audio of the second is still to come |
| `MCVadTurn_hold` | `HoldEnds` | `VAD/vad_handler.py:113`: a held turn can never hang | a discarded noise disarms the deadline |
| `MCDialogue_images` | `ImagesSeen` | `handlers/conversation.py:46`: items are added to the LLM context | an image added during a generation is stripped unseen at its end |
| `MCEchoCanceller_speex` | `FarFollowsAgent` | `websocket_router.py:349`: raw gate when the agent is silent | with speex a TTS chunk of 20 ms leaves a remainder of a 16 ms frame, so `far_active` may stay up |
| `MCSpeakerTurns_torn` | `NeverWrongAttribution` | `decision.py:12`: never a wrong attribution | a lock-free query pairs the ids of before a deletion with the matrix of after it |
| `MCHandlerChain_cap` | `CapHolds` | `docs/INSTALL_AND_CONFIGURATION.md:326`: cap concurrent in-flight requests | the compaction's own request to the LLM takes no slot |

Seen while reading, and not made into properties:

* The docstring of `SessionPipeline.shutdown` (`pipeline/session_pipeline.py:155`) has the
  sentinels travel the chain; `stop_event` is set right behind them, so a thread may leave
  before it has read them.
* The "turn count" of `/v1/sessions` starts again with each response (`service.py:318`).
* `handle_audio_commit` is unreachable: `parse_client_event` knows no
  `input_audio_buffer.commit`.
* `_end_response` updates `total_usage` without `_usage_lock`; all callers run on the loop.
* `response.cancel` does not flush the far end, and the gate's window is not cleared while
  the microphone is closed.
* Stripping and trimming follow failed generations as well, though `LLM/chat.py:244` says
  "after each successful generation".
* The notes on a single writer of the speaker client (`speaker_id/remote_speaker_client.py:43`)
  predate the client that sessions share; admin `add_sample` does not check consent;
  `create_speaker` on an existing id answers 200 with the new name and keeps the old row; an id
  deleted and created again is the same id to requests under way.
* A join of `ThreadManager.stop` gives up after five seconds and carries on (`wait` has no
  timeout); the `KeyboardInterrupt` branch of `main` cannot be reached once the handlers
  are installed.
* A tool call that comes without text while no response is open makes `_ensure_response`
  open one, but only `begin_output_item_events` announces one, and it is not called
  (`handlers/response.py:379`).  If no text or audio follows, the client is sent
  `function_call_arguments.done`, then `output_audio.done` and `response.done`, of a response
  for which no `response.created` was ever sent.  `BetweenCreatedAndDone` therefore speaks of
  the events of items only; `ConnCoherent` and `NothingAfterDone` hold of such a response too.

## Fairness

* RealtimeSession: weak fairness on the send loop, the end of a cancel, and each
  thread's steps.  Every queue is polled by a thread or the loop, and every remote
  call has a timeout.  Nothing obliges the user to speak or the client to send, and
  a streamed sentence (`LlmStream`) need not come.
* ChatHistory: weak fairness on the worker: the summarising call returns or raises.
* VadTurn: the client streams the microphone without pause (the handler only acts on
  chunks), and the clock passes the deadline.
* HandlerChain: weak fairness on each thread's `Run`, which includes the wait for a
  slot, and on the sending of sentinels and `stop_event` by a shutdown that has begun.
  Weak fairness suffices for slots in the bounded workloads of the run, since each
  holder ends and work runs out; the code's semaphore promises no order under an
  endless load, and nothing is claimed there.
* Sessions: weak fairness on each connection's build, endpoint and background steps and
  on the shutdown, none on hang-ups, crashes, the reaper or the operator.
* ServerLife: weak fairness on the main thread, the server thread, its watcher and each
  build; a session leaves once the server stops.  The lock needs no more, because each
  actor warms at most once.
* EchoCanceller: the microphone streams, the send loop and the tail advance, a cancelled
  send task ends and a session that is leaving is torn down.  No fairness on the user, the
  agent or the server's shutdown.
* SpeakerTurns: every request of the service is served, every step of STT taken.  The
  pools have no fairness: STT's join is bounded, so it goes on without them, and nothing is
  claimed of a late label but that it is the right one.  A restart may come at any time and
  loses the requests under way.

Metering and Dialogue have safety properties only and no fairness.

## Proofs

Each proof module establishes an inductive invariant, `IInv` in most, by an initial lemma, a
lemma for each action or group of actions and one that combines them, and derives the
theorems.  All hold for every value of the constants under the named assumptions of
the module.

* **ResponseService_proof** (`BoundsAssumption`, `ModesAssumption`) proves about both
  ResponseService and Metering.  First `Coherence`, `SilenceAfterDone`, `AnnouncedOnce` and
  `Refinement`, from `IInv`.  `ConnCoherent` is about the present
  state; the action properties relate a returned event to all earlier ones.  `IInv`
  therefore adds `WireInv`: every event in `wire` names a response already generated, the
  response in progress has no `response.done` there, and a `response.created` of it implies
  the flag.  Lemmas say what each helper does to a coherent connection and what its events
  say, one lemma per handler combines them into `HandlerStep`, and `WireStep` is proved
  once from that.
  Then the stream, from invariants about items on top of `IInv`: `AudioHasItsItem`, for every
  value of `interrupt_response` (`ItemInv`: a response marked as announced has its
  `response.created` on the wire, and the item in progress has been added under it and not
  closed; `MarkStep` goes through the handlers for the former).  It has three parts.
  `ProtocolOrder` orders the events of one returned list.  `BetweenCreatedAndDone` relates
  each event of an item to the whole session: `response.created` of its response is out,
  and `response.done`, if it is, came behind it in the same list.  `AudioAttached` gives
  audio an item that is announced and open.  Then `WellFormed`, which is `StreamWellFormed` where
  `interrupt_response` is on (`OneItemInv`: a response has at most one item, and one that is
  closed has none open).  The hypothesis is needed: with the setting off, two items of one
  response are what `MCMetering_interrupt` shows.  `Conserved` and `CountersAreSound` are
  about Metering: what a handler adds to the live counters or moves to the totals is what
  was used (`UInv`), and responses counted are responses done (`BooksInv`).
* **RealtimeSession_proof** (`BoundsAssumption`, `ScenarioAssumption`):
  `SentinelsConserved`, `QueuesCorrect`, `Delivery`, for every load.  Requests are numbered in
  the order they are made, and `FIFO` says where each of them is: those closed, those whose
  sentinel waits for the send loop, those the processor, the LLM and its prompt queue still
  hold follow each other without a gap, so that a sentinel is recognised by its position,
  although the code's carries no name.  `Balanced` says that, until the session goes
  astray, the sentinels under way are as many as the open response, the guard and a
  cancellation about to put it up account for, hence that the next sentinel is the one of
  the open response.  The lemmas under them say what the flush of a queue, which filters it,
  keeps of order and count.  The proof is what found the fourth way astray: without
  "doubled" `Balanced` is not inductive and `DeliveredInPlace` is false for two
  cancellations in a row (`MCRealtimeSession_twice`), a load that no run contained.
* **Microphone_proof** proves about both modules of the microphone path.  Of VadTurn
  (`LengthsAssumption`): `Bracketed`, `Conservation`, `IdleWhenClosed`.
  `IInv` adds what links the announcements to the turn: `AnnouncedAsStarted`,
  `CutIsOfHeldTurn` and `NothingHeldUndetected`, on which `AudioConserved` depends, because
  the branch of `_should_end_turn` without a detector emits the segment alone.
  Of EchoCanceller (`FramesAssumption`): `FramesAreSound`, `DroppedInTime`.
  `FramesSound` is inductive: what a call puts in as silence is what it could not take out
  of the clean buffer (`Reframed`).  `DroppedOnLoop` needs the order of the end of a session:
  once the endpoint has torn down, the send loop is over and there is no native object
  (`Left`).  Every step of the other teardown keeps that: the shutdown cancels a send loop
  but never revives one, and leaves the canceller as it is.  So while there is a native
  object the endpoint's frame is still there, whatever the shutdown's worker has done.
* **Dialogue_proof** (`SizeAssumption`, `RequestsAssumption`) proves about both ChatHistory
  and Dialogue, for every size of the history and any number of calls, resets and
  generations: `SoundHistory`, `FittingSplices`, `LatestTurnIsKept`, `SoundPrompts`,
  `ImagesShownOnce`.
  Eviction (`EvictTo`) and the splice (`Without`) are recursive functions.  That the
  recursion defines a function, and what it computes, is proved by induction: `Least` and
  `Induction` derive it, for sets of numbers, from the well-foundedness of `<`.  The outcome
  is `Evicted`, that an eviction takes a prefix and what is left begins with a user message,
  and `WithoutPicks`, that the splice keeps the other items, all of them and in their order.
  `HistorySound` is not inductive.  `HInv` adds that an output stands directly after its
  call (`Adjacent`), since "somewhere before" does not survive an eviction between the two,
  that identifiers name one item each, and what a snapshot under way may contain
  (`Snapshots`): nothing of the latest turn, however long the summary takes; no call whose
  outputs stay, nor an output whose call stays; no call that still waits for its output, or
  it would be dropped when that comes; and, when the history is over its cap, at least one
  user message, so that the splice brings it under again (`Relieves`).  At most one worker
  has the current generation (`OneCurrent`).  Only workers of that generation may splice,
  so the snapshots of earlier ones need no such fact.
  `DInv` adds that a picture is a user message, so that leaving it out of a prompt parts no
  output from its call, and that nothing shown is remembered between generations
  (`ShownOnce`).  TLC checked `HInv` on `MCChatHistory` before it was proved.
* **HandlerChain_proof** (`SessionsAssumption`, that there are finitely many sessions,
  `LoadsAssumption`): `SlotsAreSound`, `AbortsArePrompt`, `OnlyWhenTold`.  Who gives a slot
  back must be known to hold one, so a thread that waits or calls is at a stage that may
  (`Fits`); a synthesis has accepted something late only if it is about to find out
  (`Prompt`); before the teardown has sent them there is neither `PIPELINE_END` nor
  `stop_event` (`Untold`).  `OnlyWhenTold` is the safety part of the refinement of
  PipelineLife; that told threads do end stays with TLC.
* **Sessions_proof** (`MaxSessionsAssumption`, `NobodyAssumption`): `Capacity`, `Soundness`.
  `IInv` says who is in which roster, that the registered are finite and few, that what is
  served is built, and how far the shared arguments belong to a build that runs alone.
* **ServerLife_proof** (`NamesAssumption`, `MaxSignalsAssumption`): `OneWarmUp`, `Equipped`.
  Whoever makes the round trip holds the lock and found the flag down (`Warming`); no
  session precedes the server and no server the pre-warming (`Ordered`); what a build has
  at each of its steps (`Building`).
* **SpeakerTurns_proof** (`ServiceAssumption`, `NamesAssumption`, `TurnsAssumption`): `Store`,
  `Names` and `Counts`, from every content of the disk that an earlier process may have left:
  `StoredSound`, and for the last two its types and row keys (`StoredTyped`), for the last
  also that no link has counted more than it recorded (`StoredCounted`; less is possible,
  after a crash).  `MCSpeakerTurns` assumes the three of the database it starts from, so that
  TLC evaluates them.
  `Store` rests on `IInv`: who holds the lock and what the mirror lacks meanwhile
  (`LockHeld`, `HalfLoaded`), and what an admitted request may rely on: its speaker is there,
  or has been deleted by this very process, and then the foreign keys are on (`Admission`).
  `SInv` adds the types and what each endpoint finds in its request.  For that, `InOrder`,
  the `SELECT` of `_reload`, is shown to enumerate the rows by their keys, and a new row to
  come last.
  `Names` is `NamesFit`.  Its heart is `VInv`: while a sample is being added the two fields
  of the mirror differ in length only, so a query that reads one before and one after pairs
  each voice with the id it was enrolled under; only between the two writes of a deletion's
  reload do they disagree (`MirrorFits`), and whoever reads across that is torn (`Matched`).
  `NInv` follows a verdict through the pool into the turn it was asked for (`OwnCall`), and
  the item through the job (`Announced`); that the latter stays right needs that a turn's
  transcript is queued at most once (`Orderly`).
  `Counts` is `InviteCountExact`, from `CInv`: a live link's rows are all of its present
  speaker, so a deletion takes all of them with the link or none; a request knows only links
  that have been given out, so a new link starts from nothing (`LinkKnown`).

`Invariance` and `TypeCorrect` in these modules state the invariant and the types.

Every safety and action property that a run checks is stated by one of these theorems.
Only model-checked is all liveness, which is outside what TLAPS proves: `NothingHangs`,
`FlagClears`, `TurnEnds`, `EveryoneLeaves`, `EveryoneServed`, `SlotGranted`, `FarEnds`,
`BargeInHeard`, `EveryoneAnswered`, and the fairness that `ImplementsPipelineLife` asks for
beyond `OnlyWhenTold`.

## Not modelled, and why

* Signal processing (cancellation itself, resampling, enhancement), inference (Silero,
  Smart Turn, speaker embeddings) and clustering: their results are choices.
* The text of items, prompts and summaries, tool-call parsing, content indices: pure
  functions with unit tests of their own.
* Look-ahead batching of audio chunks: up to a batch the send loop takes chunks at once;
  the model sends them one by one, and what ends a batch is the next item in either case.
* The interleaving on the wire of two lists of events (`websocket_router.py:101`): each
  list is checked as a whole.
* `interrupt_response` off in RealtimeSession: the response then goes on; what goes wrong
  with its items is in ResponseService.
* Progressive chunks of live transcription: the VAD emits them by default, the remote STT
  handler skips them.  `CorrectionTracker` is constructed nowhere.
* Ids chosen by the client: items and calls are given ids that do not repeat.  The code
  takes what it is sent, if the prefix is right (`LLM/chat.py:55`, `handlers/conversation.py:77`),
  so what ChatHistory says of an item's id or a call's id is for clients that do not repeat one,
  but for the answer to a call, which may come twice.
* The hard cap that `add_item` applies to a prompt's copy of the history when it adds the
  system message: the copy is of a history already under the cap.
* Authentication, the read-only `/v1` endpoints, the usage log, argument classes, the
  command line beyond `main`, benchmarks and test clients.
* What a refused `response.create` leaves in the history, and transcripts lost in a flush:
  the code does so on purpose or nothing says what it should do.

## What is left

In this order: utterances in RealtimeSession, for the conservation of usage events through the
flush at a barge-in; the two lists of `_send_events` interleaved.
