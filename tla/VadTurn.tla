------------------------------- MODULE VadTurn -------------------------------
(***************************************************************************)
(* The voice activity detector of one session: VADIterator cuts the audio  *)
(* chunks into speech segments, VADHandler discards the segments that are  *)
(* too short or too long, asks Smart Turn (when it is configured) whether  *)
(* a pause ends the turn, holds the turn open when it does not, and emits  *)
(* speech_started, speech_stopped and the utterance.  Lengths are counted  *)
(* in chunks.  The handler runs on one thread; other threads only set      *)
(* should_listen, and the clock runs on its own.                           *)
(***************************************************************************)
EXTENDS Integers, FiniteSetsExt

CONSTANTS Pad,          \* speech_pad_ms: audio kept before the trigger
          MinSilence,   \* the longest pause a session may ask for
          Pauses,       \* the pauses it may ask for (silence_duration_ms)
          MinSpeech,    \* min_speech_ms
          MaxSpeech,    \* max_speech_ms
          TurnMax       \* turn_max_s: the ceiling of one held turn

ASSUME LengthsAssumption ==
  /\ {Pad, MinSilence} \subseteq Nat
  /\ {MinSpeech, MaxSpeech, TurnMax} \subseteq Nat \ {0}
  /\ MinSpeech <= MaxSpeech
  /\ Pauses \subseteq 0..MinSilence

\* What the model says of a chunk, once the energy gate has had its say: at or
\* above the threshold, below the threshold - 0.15, or between the two.
Scores == {"speech", "between", "silence"}

VARIABLES listening,    \* should_listen
          it,           \* the VADIterator
          started,      \* _speech_started_emitted
          carry,        \* length of _turn_carry
          hold,         \* _hold_deadline: "off", "armed", or "expired" (passed)
          detector,     \* is a Smart Turn detector available?
          pause,        \* min_silence_samples: the pause that ends a segment
          userDone,     \* the user will not speak again (the microphone streams on)
          depth,        \* history: speech_started minus speech_stopped events
          starts,       \* history: speech_started events of the turn under way
                        \*   (2 stands for all above it)
          owed,         \* history: audio accepted and not yet emitted
          cut           \* history: a segment was discarded while a turn was held

vars == <<listening, it, started, carry, hold, detector, pause, userDone, depth, starts,
          owed, cut>>

Idle == [triggered |-> FALSE, buf |-> 0, prefix |-> 0, pre |-> 0, quiet |-> 0]

Init ==
  /\ listening = TRUE /\ it = Idle /\ started = FALSE
  /\ carry = 0 /\ hold = "off"
  /\ detector \in BOOLEAN /\ pause \in Pauses /\ userDone = FALSE
  /\ depth = 0 /\ starts = 0 /\ owed = 0 /\ cut = FALSE

-----------------------------------------------------------------------------
(* VADIterator. *)

\* Lengths above MaxSpeech are all discarded alike.
Longer(n) == Min({n + 1, MaxSpeech + 1})

\* The iterator triggers: what preceded becomes the head of the segment.
Trigger(i) == [i EXCEPT !.triggered = TRUE, !.prefix = i.pre, !.pre = 0,
                        !.buf = Longer(i.buf)]

\* Mutant: the padding is not trimmed.
Remember_All(i) == [i EXCEPT !.pre = Longer(i.pre)]

Remember(i) == [i EXCEPT !.pre = Min({i.pre + 1, Pad})]

\* quiet is 0 until temp_end is set, then one more than the chunks since.
Quiet(i, score) ==
  IF score = "speech" THEN 0
  ELSE IF score = "between" /\ i.quiet = 0 THEN 0
  ELSE Min({i.quiet + 1, MinSilence + 1})

Record(i, score) == [i EXCEPT !.buf = Longer(i.buf), !.quiet = Quiet(i, score)]

\* __call__ returns the segment when a silent chunk completes the pause, as it is
\* configured when the chunk comes.
SegmentEnds(i, score) ==
  i.triggered /\ score = "silence" /\ Quiet(i, score) > pause'

Segment(i) == i.prefix + Longer(i.buf)

AfterChunk(i, score) ==
  IF SegmentEnds(i, score) THEN Idle
  ELSE IF i.triggered THEN Record(i, score)
  ELSE IF score = "speech" THEN Trigger(i)
  ELSE Remember(i)

-----------------------------------------------------------------------------
(* VADHandler.process. *)

One(b) == IF b THEN 1 ELSE 0

\* Events put on the text queue by a step, for the histories.
Announce(begun, stopped) ==
  /\ depth' = depth + begun - stopped
  /\ starts' = Min({2, (IF carry = 0 /\ ~started THEN 0 ELSE starts) + begun})

\* The chunk confirms the speech: enough of it is buffered.
Begins(i) == i.triggered /\ ~started /\ i.buf >= MinSpeech

\* Mutant: the confirmation is sent again when the turn ends.
AnnounceLate_Always == 1

\* _finalize_emit announces a turn too short to have been confirmed before.
AnnounceLate == One(~started)

\* Mutant: an ended turn stays in _turn_carry.
CarryAfter_Kept == carry

CarryAfter == 0

\* _finalize_emit: the turn is bracketed, handed on, and the microphone closed.
FinalizeEmit(accepted, emitted) ==
  /\ listening' = FALSE
  /\ hold' = "off"
  /\ started' = FALSE
  /\ carry' = CarryAfter
  /\ owed' = owed + accepted - emitted
  /\ Announce(AnnounceLate, 1)
  /\ cut' = (cut /\ carry # 0)

\* The hold ran out in silence.
HoldIsOver == carry > 0 /\ hold = "expired" /\ ~it.triggered

\* Mutant: the iterator keeps what it heard during the hold.
IteratorAfterHold_AsIs == it

IteratorAfterHold == Idle

\* _force_finalize_turn; the chunk that finds the hold over is not scored.
ForceFinalize ==
  /\ listening /\ HoldIsOver
  /\ it' = IteratorAfterHold
  /\ FinalizeEmit(0, carry)
  /\ UNCHANGED <<detector, pause, userDone>>

\* The user resumed: the hold is off until the next pause.
HoldAfterCheck == IF carry > 0 /\ it.triggered THEN "off" ELSE hold

\* _apply_runtime_turn_detection: a session.update since the last chunk may have
\* changed the pause; with Smart Turn the handler keeps its own.
Offered == IF detector THEN {pause} ELSE Pauses

\* A chunk is scored.
Feed(score) ==
  /\ listening /\ ~HoldIsOver
  /\ pause' \in Offered
  /\ userDone => score = "silence"
  /\ it' = AfterChunk(it, score)
  /\ UNCHANGED <<detector, userDone>>

\* It ends no segment, and may confirm one.
GoOn(score) ==
  /\ Feed(score) /\ ~SegmentEnds(it, score)
  /\ hold' = HoldAfterCheck
  /\ started' = (started \/ Begins(it'))
  /\ Announce(One(Begins(it')), 0)
  /\ cut' = (cut /\ carry # 0)
  /\ UNCHANGED <<listening, carry, owed>>

Acceptable(length) == MinSpeech <= length /\ length <= MaxSpeech

\* It ends a segment too short or too long to be speech.
Discard(score) ==
  /\ Feed(score) /\ SegmentEnds(it, score) /\ ~Acceptable(Segment(it))
  /\ hold' = HoldAfterCheck
  /\ started' = FALSE
  /\ Announce(0, One(started))
  /\ cut' = (carry # 0)
  /\ UNCHANGED <<listening, carry, owed>>

\* Mutant: every held segment gets a bracket of its own.
StartedInHold_Cleared == FALSE

StartedInHold == started

\* Mutant: a held turn has no deadline.
HoldArmed_Never == "off"

HoldArmed == "armed"

\* _should_end_turn, on a segment that was accepted: without a detector every
\* pause ends the turn; with one, its verdict or the ceiling does.
EndTurn(score) ==
  /\ Feed(score) /\ SegmentEnds(it, score) /\ Acceptable(Segment(it))
  /\ FinalizeEmit(Segment(it), IF detector THEN carry + Segment(it) ELSE Segment(it))

\* is_complete: a detector without a model, or whose inference fails, finds every
\* turn complete.
Verdicts == IF detector THEN {"complete", "incomplete"} ELSE {"complete"}

HoldTurn(score) ==
  /\ Feed(score) /\ SegmentEnds(it, score) /\ Acceptable(Segment(it))
  /\ "incomplete" \in Verdicts /\ carry + Segment(it) < TurnMax
  /\ carry' = carry + Segment(it)
  /\ owed' = owed + Segment(it)
  /\ hold' = HoldArmed
  /\ started' = StartedInHold
  /\ Announce(0, 0)
  /\ cut' = (cut /\ carry # 0)
  /\ UNCHANGED listening

\* turn_hold_grace_s passes.
GraceExpires ==
  /\ hold = "armed"
  /\ hold' = "expired"
  /\ UNCHANGED <<listening, it, started, carry, detector, pause, userDone, depth, starts,
                 owed, cut>>

-----------------------------------------------------------------------------
(* The other threads and the user. *)

\* The end of a response, a cancellation or a failed transcription reopens the
\* microphone.
Relisten ==
  /\ ~listening
  /\ listening' = TRUE
  /\ UNCHANGED <<it, started, carry, hold, detector, pause, userDone, depth, starts, owed,
                 cut>>

\* on_session_end: the client is gone, and its open bracket with it.
OnSessionEnd ==
  /\ it' = Idle /\ started' = FALSE /\ carry' = 0 /\ hold' = "off"
  /\ listening' = TRUE
  /\ depth' = 0 /\ starts' = 0 /\ owed' = 0 /\ cut' = FALSE
  /\ UNCHANGED <<detector, pause, userDone>>

UserFinishes ==
  /\ ~userDone
  /\ userDone' = TRUE
  /\ UNCHANGED <<listening, it, started, carry, hold, detector, pause, depth, starts, owed,
                 cut>>

Chunk ==
  \/ ForceFinalize
  \/ \E score \in Scores : GoOn(score) \/ Discard(score) \/ EndTurn(score) \/ HoldTurn(score)

Next == Chunk \/ GraceExpires \/ Relisten \/ OnSessionEnd \/ UserFinishes

Spec == Init /\ [][Next]_vars

\* The client streams the microphone without pause, and time passes.
FairSpec == Spec /\ WF_vars(Chunk) /\ WF_vars(GraceExpires)

-----------------------------------------------------------------------------
(* Properties. *)

Iterator ==
  [triggered : BOOLEAN, buf : 0..(MaxSpeech + 1), prefix : 0..Pad, pre : 0..Pad,
   quiet : 0..(MinSilence + 1)]

\* The type invariant.
TypeOK ==
  /\ {listening, started, detector, userDone, cut} \subseteq BOOLEAN
  /\ it \in Iterator
  /\ carry \in 0..TurnMax /\ owed \in Nat
  /\ hold \in {"off", "armed", "expired"} /\ pause \in Pauses
  /\ depth \in Int /\ starts \in Nat

\* speech_started and speech_stopped alternate on the wire, whichever path
\* closes the bracket (end of turn, hold run out, discarded segment): the event
\* loop takes a second start for a barge-in and cancels what the first began.
BracketsAlternate == depth = One(started)

\* A turn held across pauses is announced once, unless a segment of it was
\* discarded (the exception: see HoldEnds).
OneBracketPerTurn == starts <= 1 \/ cut

\* The client and the event loop see each turn begin once and end once.
TurnsBracketed == BracketsAlternate /\ OneBracketPerTurn

\* Every accepted segment is emitted exactly once: what _turn_carry holds is
\* all that was accepted and not emitted, across pauses, ceilings and holds.
AudioConserved == owed = carry

\* When the microphone is closed nothing of a turn is left in the handler: what
\* stayed would be prepended to the next turn, after the response.
ClosedMicIsIdle ==
  ~listening => it = Idle /\ carry = 0 /\ ~started /\ hold = "off"

\* Once the user has finished, a held turn is handed on, unless a segment of it
\* was discarded.
TurnEnds == userDone /\ carry # 0 ~> carry = 0 \/ cut

\* The comment at vad_handler.py:113: a held turn can never hang.
HoldEnds == userDone /\ carry # 0 ~> carry = 0
=============================================================================
