------------------------------ MODULE Metering ------------------------------
(***************************************************************************)
(* What a session is billed for.  The handlers of ResponseService also     *)
(* keep the counters of the response in progress (ConnState.response_usage)*)
(* and fold them into the server's totals when it ends; what is left when  *)
(* the session ends is folded then (RealtimeService.unregister).  Each     *)
(* action here is a handler of ResponseService with what it does to the    *)
(* counters; the handlers and the rollups run on the event loop.           *)
(***************************************************************************)
EXTENDS ResponseService, FiniteSets

CONSTANTS Durations,    \* lengths of an utterance; 0 is one discarded as too short
          MaxUsage,     \* bound: token reports in a behaviour
          MaxCalls      \* bound: tool calls in a behaviour

ASSUME DurationsAssumption == Durations \subseteq Nat
ASSUME UsageBoundsAssumption == {MaxUsage, MaxCalls} \subseteq Nat

VARIABLES usage,        \* response_usage of the session
          total,        \* total_usage of the server
          duration,     \* input_audio_duration_s
          registered,   \* is the session in _conns?
          metered,      \* history: what the session has been seen to use
          owed          \* history: utterances not transcribed yet, and whether what
                        \*   was billed for the others is what they lasted

metering == <<usage, total, duration, registered, metered, owed>>
allVars == <<vars, metering>>

\* UsageMetrics: input and output tokens are counted alike.
Counters == {"tokens", "audio", "completed", "cancelled", "tool_calls", "turns"}
UsageMetrics == [Counters -> Nat]
Unused == [c \in Counters |-> 0]

Rollup(u, v) == [c \in Counters |-> u[c] + v[c]]
Count(c, n) == [d \in Counters |-> IF d = c THEN n ELSE 0]

MeteringInit ==
  /\ Init
  /\ usage = Unused /\ total = Unused /\ metered = Unused
  /\ duration = 0 /\ registered = TRUE
  /\ owed = [lengths |-> << >>, right |-> TRUE]

-----------------------------------------------------------------------------
Statuses == {"completed", "cancelled"}

\* Mutant: the counters of the response are left as they are.
Cleared_Kept(u) == u

\* UsageMetrics.reset, after a rollup
Cleared(u) == Unused

\* _end_response: any other status counts as completed.
Fold(status, used) ==
  LET final == Rollup(usage, Count(status, 1))
  IN /\ total' = Rollup(total, final)
     /\ usage' = Rollup(Cleared(final), used)
     /\ metered' = Rollup(metered, Rollup(Count(status, 1), used))

\* A handler that ends no response, and uses something of its own.
Use(used) ==
  /\ usage' = Rollup(usage, used)
  /\ metered' = Rollup(metered, used)
  /\ UNCHANGED total

\* Mutant: a response is counted whether or not one is in progress.
Ending_Always == TRUE

\* finish_audio_response is for a response in progress.
Ending == conn.in_response

\* _start_item forgets how long the utterance was.
Timed(length) ==
  duration' = IF conn'.next_item = conn.next_item THEN length ELSE 0

-----------------------------------------------------------------------------
(* The handlers, metered. *)

\* A handler finds the session's state in _conns.
Found == registered /\ UNCHANGED registered

\* response.create, session.update and partial transcripts use nothing.
Unmetered ==
  /\ Found
  /\ HandleResponseCreate \/ HandleSessionUpdate \/ OnPartialTranscription
  /\ Timed(duration)
  /\ UNCHANGED <<usage, total, metered, owed>>

\* Audio is sent; it is not billed.
AudioOut ==
  /\ Found
  /\ EncodeAudioChunk
  /\ Timed(duration)
  /\ UNCHANGED <<usage, total, metered, owed>>

ResponseEnds ==
  /\ Found
  /\ FinishAudioResponse
  /\ IF Ending THEN \E status \in Statuses : Fold(status, Unused)
               ELSE UNCHANGED <<usage, total, metered>>
  /\ Timed(duration)
  /\ UNCHANGED owed

\* The turn is counted after the response it cut short was folded.
TurnStarts ==
  /\ Found
  /\ OnSpeechStarted
  /\ IF Ending /\ conn.interrupt_response
     THEN Fold("cancelled", Count("turns", 1))
     ELSE Use(Count("turns", 1))
  /\ Timed(duration)
  /\ UNCHANGED owed

\* A length of 0 changes nothing; the item is looked up after the length is kept.
TurnStops ==
  /\ Found
  /\ OnSpeechStopped
  /\ \E length \in Durations :
       /\ Timed(IF length = 0 THEN duration ELSE length)
       /\ owed' = IF length = 0 THEN owed ELSE [owed EXCEPT !.lengths = Append(@, length)]
  /\ UNCHANGED <<usage, total, metered>>

\* The utterances are transcribed in the order they were spoken in.  What is
\* billed is the length in the ConnState at that moment.
Transcribed ==
  /\ Found
  /\ owed.lengths # << >>
  /\ OnTranscriptionCompleted
  /\ Use(Count("audio", duration))
  /\ owed' = [lengths |-> Tail(owed.lengths),
              right   |-> owed.right /\ duration = Head(owed.lengths)]
  /\ Timed(duration)

\* OnAssistantText stands for one call or none.
CallsIn(events) ==
  IF \E i \in DOMAIN events : events[i].type = "function_call_arguments.done" THEN 1 ELSE 0

AssistantSays ==
  /\ Found
  /\ OnAssistantText
  /\ metered.tool_calls + CallsIn(out') <= MaxCalls
  /\ Use(Count("tool_calls", CallsIn(out')))
  /\ Timed(duration)
  /\ UNCHANGED owed

\* _on_token_usage: whatever response they were spent on, the tokens go to the
\* counters of the moment.
OnTokenUsage ==
  /\ Found
  /\ metered.tokens < MaxUsage
  /\ Use(Count("tokens", 1))
  /\ out' = << >>
  /\ UNCHANGED <<conn, wire, speechItem, duration, owed>>

\* Mutant: the totals wait for the response to end.
Remainder_Forgotten == Unused

\* What unregister folds.
Remainder == usage

\* unregister: events still queued for the session are never counted.
Unregister ==
  /\ registered
  /\ registered' = FALSE
  /\ total' = Rollup(total, Remainder)
  /\ UNCHANGED <<vars, usage, duration, metered, owed>>

MeteringNext ==
  \/ Unmetered \/ AudioOut \/ ResponseEnds
  \/ TurnStarts \/ TurnStops \/ Transcribed
  \/ AssistantSays \/ OnTokenUsage
  \/ Unregister

MeteringSpec == MeteringInit /\ [][MeteringNext]_allVars

-----------------------------------------------------------------------------
(* Properties. *)

\* The type invariant.
MeteringTypeOK ==
  /\ TypeOK
  /\ {usage, total, metered} \subseteq UsageMetrics
  /\ duration \in Nat /\ registered \in BOOLEAN
  /\ owed \in [lengths : Seq(Nat), right : BOOLEAN]

\* get_usage: the totals, and what live sessions have not folded yet.
PerSession == IF registered THEN usage ELSE Unused

\* Whatever the order in which responses end, are cut short and sessions go,
\* the totals and the live counters of /v1/usage together hold each token,
\* second, turn and call once: nothing is folded twice, nothing is lost.
UsageConserved == Rollup(total, PerSession) = metered

\* The responses counted as completed or cancelled are those the client was
\* sent a response.done for.
ResponsesCounted == total.completed + total.cancelled = Cardinality(DoneIds)

\* The counters of /v1/usage and /v1/sessions are numbers that mean something:
\* they never go below zero, and responses are counted as the client saw them.
CountersSound == MeteringTypeOK /\ ResponsesCounted

\* "accumulate duration and emit completed event" (conversation.py:115): the
\* seconds billed with a transcript are those of its own utterance.
AudioBilled == owed.right
=============================================================================
