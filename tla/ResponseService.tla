--------------------------- MODULE ResponseService ---------------------------
(***************************************************************************)
(* One connection's response lifecycle as the RealtimeService handlers     *)
(* drive it (api/openai_realtime/service.py and handlers/): the fields of  *)
(* ConnState that say which response and which item are open, and the list *)
(* of server events each handler returns.  The websocket router calls the  *)
(* handlers from two coroutines and the pipeline feeds them, so here they  *)
(* are called in every order; each handler runs without an await, hence    *)
(* one action per handler.                                                 *)
(***************************************************************************)
EXTENDS Naturals, Sequences, SequencesExt

CONSTANTS MaxResponses,     \* bound: responses generated in a behaviour
          MaxItems,         \* bound: items generated in a behaviour
          InterruptModes    \* values the session gives interrupt_response

ASSUME BoundsAssumption == MaxResponses \in Nat /\ MaxItems \in Nat
ASSUME ModesAssumption  == InterruptModes \subseteq BOOLEAN

VARIABLES conn,         \* the ConnState fields of the lifecycle
          out,          \* the events the last handler returned, in order
          wire,         \* history: the lifecycle events returned so far
          speechItem    \* history: the item speech_started announced, or NoId

vars == <<conn, out, wire, speechItem>>

-----------------------------------------------------------------------------
(* State.  Identifiers come from _generate_id, which never repeats: the   *)
(* n-th response (item) generated is the number n.                        *)

NoId == 0

ConnState ==
  [in_response : BOOLEAN, current_response_id : Nat, current_item_id : Nat,
   response_created_sent : BOOLEAN, output_item_added : BOOLEAN,
   interrupt_response : BOOLEAN, next_response : Nat \ {0}, next_item : Nat \ {0}]

\* Mutant: the first identifier is the one that means "none".
NewConn_FromZero(mode) ==
  [in_response |-> FALSE, current_response_id |-> NoId, current_item_id |-> NoId,
   response_created_sent |-> FALSE, output_item_added |-> FALSE,
   interrupt_response |-> mode, next_response |-> NoId, next_item |-> NoId]

NewConn(mode) ==
  [in_response |-> FALSE, current_response_id |-> NoId, current_item_id |-> NoId,
   response_created_sent |-> FALSE, output_item_added |-> FALSE,
   interrupt_response |-> mode, next_response |-> 1, next_item |-> 1]

EventTypes ==
  {"response.created", "output_item.added", "content_part.added",
   "output_audio.delta", "transcript.done", "function_call_arguments.done",
   "output_audio.done", "content_part.done", "output_item.done", "response.done",
   "speech_started", "speech_stopped", "transcription.delta",
   "transcription.completed",
   "session.updated", "error"}
Event == [type : EventTypes, response : Nat, item : Nat]

ResponseEvent(type, s) ==
  [type |-> type, response |-> s.current_response_id, item |-> NoId]
ItemEvent(type, s) ==
  [type |-> type, response |-> s.current_response_id, item |-> s.current_item_id]
UserEvent(type, s) ==
  [type |-> type, response |-> NoId, item |-> s.current_item_id]

-----------------------------------------------------------------------------
(* The helpers of ResponseHandler, as functions of the ConnState. *)

StartItem(s) ==
  [s EXCEPT !.current_item_id = s.next_item, !.next_item = s.next_item + 1,
            !.output_item_added = FALSE]

\* Mutant: every use of the current item starts a new one.
CurrentItem_Fresh(s) == StartItem(s)

CurrentItem(s) == IF s.current_item_id = NoId THEN StartItem(s) ELSE s

OpenResponse(s) ==
  StartItem([s EXCEPT !.in_response = TRUE,
                      !.current_response_id = s.next_response,
                      !.next_response = s.next_response + 1])

EnsureResponse(s) ==
  CurrentItem(IF s.current_response_id = NoId THEN OpenResponse(s) ELSE s)

\* Mutant: the identifier of the response outlives it.
EndResponse_KeepsId(s) ==
  [s EXCEPT !.in_response = FALSE, !.current_item_id = NoId,
            !.response_created_sent = FALSE, !.output_item_added = FALSE]

EndResponse(s) ==
  [s EXCEPT !.in_response = FALSE, !.current_response_id = NoId,
            !.current_item_id = NoId, !.response_created_sent = FALSE,
            !.output_item_added = FALSE]

Announced(s) ==
  [s EXCEPT !.response_created_sent = TRUE, !.output_item_added = TRUE]

\* Mutant: the item is announced before its response.
BeginEvents_ItemFirst(s) ==
  (IF s.output_item_added THEN << >>
   ELSE <<ItemEvent("output_item.added", s), ItemEvent("content_part.added", s)>>)
  \o
  (IF s.response_created_sent THEN << >>
   ELSE <<ResponseEvent("response.created", s)>>)

\* Mutant: the item is announced only together with its response.
BeginEvents_Nested(s) ==
  IF s.response_created_sent THEN << >>
  ELSE <<ResponseEvent("response.created", s),
         ItemEvent("output_item.added", s), ItemEvent("content_part.added", s)>>

\* begin_output_item_events, given the state after _ensure_response
BeginEvents(s) ==
  (IF s.response_created_sent THEN << >>
   ELSE <<ResponseEvent("response.created", s)>>)
  \o
  (IF s.output_item_added THEN << >>
   ELSE <<ItemEvent("output_item.added", s), ItemEvent("content_part.added", s)>>)

\* Mutant: the item is left open when its response is done.
FinishEvents_NoItemDone(s) ==
  IF ~s.in_response THEN << >>
  ELSE LET e == EnsureResponse(s) IN
       <<ItemEvent("output_audio.done", e), ResponseEvent("response.done", e)>>

\* finish_audio_response: what it returns and the state it leaves
FinishEvents(s) ==
  IF ~s.in_response THEN << >>
  ELSE LET e == EnsureResponse(s) IN
       <<ItemEvent("output_audio.done", e)>>
       \o (IF e.output_item_added
           THEN <<ItemEvent("content_part.done", e), ItemEvent("output_item.done", e)>>
           ELSE << >>)
       \o <<ResponseEvent("response.done", e)>>

Finished(s) == IF s.in_response THEN EndResponse(EnsureResponse(s)) ELSE s

\* Mutant: a second turn opens its response over the one in progress.
TurnOpened_Unguarded(s) == [OpenResponse(s) EXCEPT !.response_created_sent = TRUE]

\* begin_turn_response
TurnOpened(s) ==
  IF s.in_response THEN s
  ELSE [OpenResponse(s) EXCEPT !.response_created_sent = TRUE]
TurnEvents(s) ==
  IF s.in_response THEN << >>
  ELSE <<ResponseEvent("response.created", OpenResponse(s))>>

-----------------------------------------------------------------------------
LifecycleTypes == {"response.created", "output_item.added",
                   "output_item.done", "response.done"}

Init ==
  /\ \E mode \in InterruptModes : conn = NewConn(mode)
  /\ out = << >>
  /\ wire = {}
  /\ speechItem = NoId

\* A handler leaves the connection in state s and returns events; the bounds
\* on identifiers are here and nowhere else.
Return(s, events) ==
  /\ s.next_response <= MaxResponses + 1
  /\ s.next_item <= MaxItems + 1
  /\ conn' = s
  /\ out' = events
  /\ wire' = wire \cup {e \in ToSet(events) : e.type \in LifecycleTypes}

Refuse == Return(conn, <<UserEvent("error", conn)>>)

\* Client: response.create.  Refused while a response is in progress, or for
\* the sake of an input item.
HandleResponseCreate ==
  /\ \/ Refuse
     \/ ~conn.in_response /\ Return(TurnOpened(conn), TurnEvents(conn))
  /\ UNCHANGED speechItem

\* Client: response.cancel; send loop: the end-of-response sentinel, or
\* PIPELINE_END.  The three differ in the status they report only.
FinishAudioResponse ==
  /\ Return(Finished(conn), FinishEvents(conn))
  /\ UNCHANGED speechItem

\* Client: session.update sets turn_detection.interrupt_response; one for a
\* transcription session is refused.
HandleSessionUpdate ==
  /\ \/ Refuse
     \/ \E mode \in InterruptModes :
          Return([conn EXCEPT !.interrupt_response = mode],
                 <<UserEvent("session.updated", conn)>>)
  /\ UNCHANGED speechItem

\* VAD: speech started; closes the response in progress if it may.
OnSpeechStarted ==
  LET cancels == conn.in_response /\ conn.interrupt_response
      s == StartItem(IF cancels THEN Finished(conn) ELSE conn)
  IN /\ Return(s, (IF cancels THEN FinishEvents(conn) ELSE << >>)
                  \o <<UserEvent("speech_started", s)>>)
     /\ speechItem' = s.current_item_id

\* VAD: speech stopped, for a start it has reported (vad_handler.py 405).
OnSpeechStopped ==
  /\ speechItem # NoId
  /\ Return(CurrentItem(conn), <<UserEvent("speech_stopped", CurrentItem(conn))>>)
  /\ speechItem' = NoId

\* Notifier: a partial transcript of the utterance.
OnPartialTranscription ==
  /\ Return(CurrentItem(conn), <<UserEvent("transcription.delta", CurrentItem(conn))>>)
  /\ UNCHANGED speechItem

\* Notifier: the final transcript; a non-empty one opens the turn's response.
OnTranscriptionCompleted ==
  /\ \E transcript \in {"", "words"} :
       LET s == CurrentItem(conn)
           completed == <<UserEvent("transcription.completed", s)>>
       IN IF transcript = "" THEN Return(s, completed)
          ELSE Return(TurnOpened(s), completed \o TurnEvents(s))
  /\ UNCHANGED speechItem

\* LMOutputProcessor: a piece of assistant text, tool calls, or both.
OnAssistantText ==
  /\ \E text, tools \in BOOLEAN :
       LET e == EnsureResponse(conn)
           calls == IF tools THEN <<ItemEvent("function_call_arguments.done", e)>>
                    ELSE << >>
       IN IF text
          THEN Return(Announced(e),
                      BeginEvents(e) \o <<ItemEvent("transcript.done", e)>> \o calls)
          ELSE Return(e, calls)
  /\ UNCHANGED speechItem

\* Send loop: one chunk of audio for the client.
EncodeAudioChunk ==
  LET e == EnsureResponse(conn) IN
  /\ Return(Announced(e), BeginEvents(e) \o <<ItemEvent("output_audio.delta", e)>>)
  /\ UNCHANGED speechItem

Next ==
  \/ HandleResponseCreate \/ FinishAudioResponse \/ HandleSessionUpdate
  \/ OnSpeechStarted \/ OnSpeechStopped
  \/ OnPartialTranscription \/ OnTranscriptionCompleted
  \/ OnAssistantText \/ EncodeAudioChunk

Spec == Init /\ [][Next]_vars

-----------------------------------------------------------------------------
(* Properties. *)

\* The connection's fields and the returned events have their types.
TypeOK ==
  /\ conn \in ConnState
  /\ out \in Seq(Event)
  /\ wire \subseteq Event
  /\ speechItem \in Nat

\* The three ways the handlers ask "is a response open?" agree: in_response,
\* current_response_id, and the created / item-added flags.  Handlers test one
\* and act on another (response.py 51 against 321).
ConnCoherent ==
  /\ conn.in_response <=> conn.current_response_id # NoId
  /\ conn.response_created_sent => conn.in_response
  /\ conn.output_item_added => /\ conn.response_created_sent
                               /\ conn.current_item_id # NoId
  /\ conn.current_response_id < conn.next_response
  /\ conn.current_item_id < conn.next_item

DoneIds == {e.response : e \in {w \in wire : w.type = "response.done"}}

\* Once response.done(r) is out, no handler ever returns another event that
\* names r: not a second done, not audio, not a transcript, not a tool call.
NothingAfterDone ==
  [][\A i \in DOMAIN out' : out'[i].response \notin DoneIds]_vars

\* response.created of a response is returned once, whichever of the four
\* paths opens it (response.py 171, 215, 252; audio.py 129).
CreatedOnce ==
  [][\A i \in DOMAIN out' : out'[i].type = "response.created" => out'[i] \notin wire]_vars

\* The events of one call come in protocol order: created before the item,
\* the item before audio or transcript, done last of all.
Rank(type) ==
  CASE type = "response.created" -> 1
    [] type \in {"output_item.added", "content_part.added"} -> 2
    [] type \in {"output_audio.delta", "transcript.done", "output_audio.done"} -> 3
    [] type \in {"content_part.done", "output_item.done"} -> 4
    [] type = "response.done" -> 5
    [] OTHER -> 3
ProtocolOrder ==
  \A i, j \in DOMAIN out :
    (i < j /\ out[i].response # NoId /\ out[i].response = out[j].response)
      => Rank(out[i].type) <= Rank(out[j].type)

AddedFor(r) == {e \in wire : e.type = "output_item.added" /\ e.response = r}
DoneItems   == {e.item : e \in {w \in wire : w.type = "output_item.done"}}

\* Audio always has an item to attach to: the client has been sent
\* output_item.added for exactly this response and item, and the item is open.
AudioAttached ==
  \A i \in DOMAIN out : out[i].type \in {"output_audio.delta", "transcript.done"} =>
    /\ \E e \in AddedFor(out[i].response) : e.item = out[i].item
    /\ out[i].item \notin DoneItems

\* What an item of a response is told with: its announcement, its parts, its
\* audio and transcript, and its end.
ItemEventTypes ==
  {"output_item.added", "content_part.added", "output_audio.delta",
   "transcript.done", "content_part.done", "output_item.done"}

\* Over the whole session, whichever calls returned them: an event of an item
\* comes after response.created of its response, and before its response.done.
\* It says nothing of two others.  A tool call that comes without text names a
\* response that begin_output_item_events was never asked to announce
\* (response.py 379), and finishing that response returns output_audio.done
\* and response.done for it: no response.created is ever sent.
BetweenCreatedAndDone ==
  \A i \in DOMAIN out : out[i].type \in ItemEventTypes =>
    /\ \E e \in wire : e.type = "response.created" /\ e.response = out[i].response
    /\ out[i].response \in DoneIds =>
         \E j \in DOMAIN out : out[j].type = "response.done" /\ out[j].response = out[i].response
    /\ \A j \in DOMAIN out : out[j].response = out[i].response =>
         /\ out[j].type = "response.created" => j < i
         /\ out[j].type = "response.done" => i < j

\* "Emit the response/item/content-part begin events, each exactly once per
\* response" (response.py 145): a response never announces a second item.
OneItemPerResponse ==
  \A e, f \in wire :
    (e.type = "output_item.added" /\ f.type = e.type /\ e.response = f.response) => e = f

\* Strict clients can finalize: every item that was added has been closed by
\* the time its response is done (response.py 331).
ItemsClosed ==
  \A e \in wire : (e.type = "output_item.added" /\ e.response \in DoneIds) => e.item \in DoneItems

\* What a client that follows the protocol strictly relies on, event by event.
StreamWellFormed ==
  /\ ProtocolOrder /\ BetweenCreatedAndDone
  /\ AudioAttached /\ OneItemPerResponse /\ ItemsClosed

\* The handlers keep the client's promise.
Lifecycle == INSTANCE ResponseLifecycle WITH
               Responses <- 1..MaxResponses, active <- conn.current_response_id, closed <- DoneIds
ImplementsLifecycle == Lifecycle!LifecycleSpec
=============================================================================
