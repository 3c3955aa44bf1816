--------------------------- MODULE Microphone_proof ---------------------------
(***************************************************************************)
(* The safety properties of the microphone path, for every value of the    *)
(* constants: of the VAD's turns (VadTurn), and of the canceller and the   *)
(* energy gate in front of it (EchoCanceller).                             *)
(*                                                                         *)
(* Those of VadTurn hold together: that the brackets alternate needs that  *)
(* a closed microphone leaves nothing of a turn behind, which needs the    *)
(* types.                                                                  *)
(*                                                                         *)
(* FramesSound is inductive by itself: what a call puts in as silence is   *)
(* what it could not take out of the clean buffer, so the silence is       *)
(* always what the two buffers still owe, and when the clean buffer is     *)
(* empty the near buffer is short of a frame (Reframed).  DroppedOnLoop    *)
(* needs the order of the end of a session: the send loop is over before   *)
(* the endpoint closes the canceller, and an endpoint that has torn down   *)
(* appends nothing, whatever a shutdown has done in between (Left).        *)
(***************************************************************************)
EXTENDS VadTurn, EchoCanceller, TLAPS

-----------------------------------------------------------------------------
(* The iterator. *)

\* The least of two numbers is one of them and at most each.
LEMMA MinOfTwo ==
  ASSUME NEW a \in Int, NEW b \in Int
  PROVE  /\ Min({a, b}) \in {a, b}
         /\ Min({a, b}) <= a /\ Min({a, b}) <= b
<1>1. \E x \in {a, b} : \A y \in {a, b} : x <= y
  OBVIOUS
<1> QED  BY <1>1 DEF Min

\* The fields of an iterator.
LEMMA IteratorFields ==
  ASSUME NEW i \in Iterator
  PROVE  /\ i.triggered \in BOOLEAN
         /\ i.buf \in 0..(MaxSpeech + 1)
         /\ i.prefix \in 0..Pad /\ i.pre \in 0..Pad
         /\ i.quiet \in 0..(MinSilence + 1)
BY DEF Iterator

\* An iterator just reset.
LEMMA IdleIterator == Idle \in Iterator
BY LengthsAssumption DEF Idle, Iterator

\* A count capped at c stays within 0..c, and leaves 0 for good.
LEMMA CappedCount ==
  ASSUME NEW n \in Nat, NEW c \in Nat
  PROVE  /\ Min({n + 1, c}) \in 0..c
         /\ c > 0 => Min({n + 1, c}) > 0
<1> DEFINE m == n + 1
<1>1. m \in Int /\ m > 0 /\ c \in Int
  OBVIOUS
<1>2. Min({m, c}) \in {m, c} /\ Min({m, c}) <= c
  <2> HIDE DEF m
  <2> QED  BY <1>1, MinOfTwo
<1> QED  BY <1>1, <1>2

\* A segment being recorded has a length.
LEMMA RecordedLength ==
  ASSUME NEW i \in Iterator
  PROVE  Longer(i.buf) \in 1..(MaxSpeech + 1)
<1>1. MaxSpeech + 1 \in Nat /\ MaxSpeech + 1 > 0 /\ i.buf \in Nat
  BY LengthsAssumption, IteratorFields
<1> DEFINE c == MaxSpeech + 1
<1>2. Min({i.buf + 1, c}) \in 0..c /\ Min({i.buf + 1, c}) > 0
  <2> HIDE DEF c
  <2>1. c \in Nat /\ c > 0
    BY <1>1 DEF c
  <2> QED  BY <2>1, <1>1, CappedCount
<1> QED  BY <1>1, <1>2 DEF Longer

\* The pause so far stays within its cap.
LEMMA PauseLength ==
  ASSUME NEW i \in Iterator, NEW score \in Scores
  PROVE  Quiet(i, score) \in 0..(MinSilence + 1)
<1>1. MinSilence + 1 \in Nat /\ i.quiet \in Nat
  BY LengthsAssumption, IteratorFields
<1> DEFINE c == MinSilence + 1
<1>2. Min({i.quiet + 1, c}) \in 0..c
  <2> HIDE DEF c
  <2>1. c \in Nat
    BY <1>1 DEF c
  <2> QED  BY <2>1, <1>1, CappedCount
<1> QED  BY <1>1, <1>2 DEF Quiet

\* A chunk makes an iterator of an iterator.
LEMMA ChunkKeepsIterator ==
  ASSUME NEW i \in Iterator, NEW score \in Scores
  PROVE  AfterChunk(i, score) \in Iterator
<1>1. /\ Longer(i.buf) \in 0..(MaxSpeech + 1)
      /\ Min({i.pre + 1, Pad}) \in 0..Pad
      /\ Quiet(i, score) \in 0..(MinSilence + 1)
  <2>1. MaxSpeech \in Nat /\ Pad \in Nat /\ i.pre \in Nat
    BY LengthsAssumption, IteratorFields
  <2>2. Longer(i.buf) \in 0..(MaxSpeech + 1)
    BY <2>1, RecordedLength
  <2> QED  BY <2>1, <2>2, CappedCount, PauseLength
<1>2. 0 \in 0..Pad
  BY LengthsAssumption
<1>3. Trigger(i) \in Iterator
  BY <1>1, <1>2 DEF Trigger, Iterator
<1>4. Record(i, score) \in Iterator
  BY <1>1 DEF Record, Iterator
<1>5. Remember(i) \in Iterator
  BY <1>1 DEF Remember, Iterator
<1> QED  BY <1>3, <1>4, <1>5, IdleIterator DEF AfterChunk

\* A segment has a length, and one that is accepted is not empty.
LEMMA SegmentLength ==
  ASSUME NEW i \in Iterator
  PROVE  Segment(i) \in Nat /\ (Acceptable(Segment(i)) => Segment(i) > 0)
<1>1. Longer(i.buf) \in Nat /\ i.prefix \in Nat
  <2>1. MaxSpeech \in Nat /\ Pad \in Nat
    BY LengthsAssumption
  <2> QED  BY <2>1, RecordedLength, IteratorFields
<1>2. MinSpeech \in Nat \ {0}
  BY LengthsAssumption
<1> QED  BY <1>1, <1>2 DEF Segment, Acceptable

-----------------------------------------------------------------------------
(* The invariant. *)

\* While a turn is under way and none of its segments was discarded, it has
\* been announced once if started says so, and not at all otherwise.
AnnouncedAsStarted ==
  \/ cut
  \/ IF carry = 0 /\ ~started THEN starts <= 1 ELSE starts = One(started)

\* A discarded segment is remembered while its turn is held, and until the
\* next chunk after that.
CutIsOfHeldTurn == cut /\ carry = 0 => ~started

\* Without Smart Turn no pause is held.
NothingHeldUndetected == ~detector => carry = 0

IInv ==
  /\ TypeOK
  /\ BracketsAlternate /\ AudioConserved /\ ClosedMicIsIdle
  /\ AnnouncedAsStarted /\ CutIsOfHeldTurn /\ NothingHeldUndetected

\* What a step that announces starts from.
Announced == IF carry = 0 /\ ~started THEN 0 ELSE starts

\* The types, one by one.
LEMMA Types ==
  ASSUME TypeOK
  PROVE  /\ listening \in BOOLEAN /\ started \in BOOLEAN /\ detector \in BOOLEAN
         /\ userDone \in BOOLEAN /\ cut \in BOOLEAN
         /\ it \in Iterator /\ carry \in 0..TurnMax /\ owed \in Nat
         /\ hold \in {"off", "armed", "expired"} /\ depth \in Int /\ starts \in Nat
         /\ pause \in Pauses
BY DEF TypeOK

\* A chunk leaves the pause among those a session may ask for.
LEMMA FeedPause ==
  ASSUME TypeOK, NEW score \in Scores, Feed(score)
  PROVE  pause' \in Pauses
BY DEF TypeOK, Feed, Offered

\* The count of announcements is right up to 2.
LEMMA AnnounceCounts ==
  ASSUME TypeOK, NEW begun \in {0, 1}, NEW stopped \in {0, 1},
         Announce(begun, stopped)
  PROVE  /\ Announced \in Nat /\ starts' \in Nat /\ depth' \in Int
         /\ Announced + begun <= 2 => starts' = Announced + begun
<1>1. Announced \in Nat /\ depth \in Int
  BY Types DEF Announced
<1> DEFINE n == Announced + begun
<1>2. n \in Nat
  BY <1>1
<1>3. starts' = Min({2, n}) /\ depth' = depth + begun - stopped
  BY DEF Announce, Announced
<1>4. /\ Min({2, n}) \in {2, n}
      /\ Min({2, n}) <= 2 /\ Min({2, n}) <= n
  <2> HIDE DEF n
  <2> QED  BY <1>2, MinOfTwo
<1>5. n <= 2 => Min({2, n}) = n
  <2> HIDE DEF n
  <2> QED  BY <1>2, <1>4
<1> QED  BY <1>1, <1>2, <1>3, <1>4, <1>5

\* Unless a segment of a turn still held was discarded, what was announced is
\* the bracket that is open.
LEMMA AnnouncedIsOpen ==
  ASSUME IInv, ~(cut /\ carry # 0)
  PROVE  Announced = One(started)
BY Types DEF IInv, AnnouncedAsStarted, CutIsOfHeldTurn, Announced, One

-----------------------------------------------------------------------------
(* The steps. *)

\* The initial states.
LEMMA InitIInv == Init => IInv
<1> SUFFICES ASSUME Init PROVE IInv
  OBVIOUS
<1>1. /\ {listening, started, detector, userDone, cut} \subseteq BOOLEAN
      /\ hold \in {"off", "armed", "expired"}
  BY DEF Init
<1>2. it \in Iterator /\ carry \in 0..TurnMax /\ owed \in Nat
  BY IdleIterator, LengthsAssumption DEF Init
<1>3. depth \in Int /\ starts \in Nat /\ pause \in Pauses
  BY DEF Init
<1>4. TypeOK
  BY <1>1, <1>2, <1>3 DEF TypeOK
<1> QED
  BY <1>4 DEF Init, IInv, BracketsAlternate, AudioConserved, ClosedMicIsIdle,
              AnnouncedAsStarted, CutIsOfHeldTurn, NothingHeldUndetected, One

\* The end of a turn: what was accepted is emitted with all that was held.
LEMMA FinalizeKeepsIInv ==
  ASSUME IInv, NEW accepted \in Nat, NEW emitted \in Nat,
         FinalizeEmit(accepted, emitted), emitted = carry + accepted,
         it' = Idle, UNCHANGED detector, userDone' \in BOOLEAN, pause' \in Pauses
  PROVE  IInv'
<1>1. TypeOK /\ depth = One(started) /\ owed = carry
  BY DEF IInv, BracketsAlternate, AudioConserved
<1>2. /\ listening' = FALSE /\ hold' = "off" /\ started' = FALSE /\ carry' = 0
      /\ owed' = owed + accepted - emitted /\ cut' = (cut /\ carry # 0)
      /\ Announce(One(~started), 1)
  BY DEF FinalizeEmit, CarryAfter, AnnounceLate
<1>3. started \in BOOLEAN /\ cut \in BOOLEAN /\ carry \in Nat /\ detector \in BOOLEAN
  BY <1>1, Types, LengthsAssumption
<1>4. /\ Announced \in Nat /\ starts' \in Nat /\ depth' \in Int
      /\ Announced + One(~started) <= 2 => starts' = Announced + One(~started)
  <2>1. One(~started) \in {0, 1}
    BY DEF One
  <2> QED  BY <1>1, <1>2, <2>1, AnnounceCounts
<1>5. owed' = 0
  BY <1>1, <1>2, <1>3
<1>6. depth' = 0
  BY <1>1, <1>2, <1>3 DEF Announce, One
<1>7. TypeOK'
  <2>1. {listening, started, detector, userDone, cut}' \subseteq BOOLEAN
    BY <1>2, <1>3
  <2>2. it' \in Iterator /\ carry' \in 0..TurnMax /\ owed' \in Nat
    BY <1>2, <1>5, IdleIterator, LengthsAssumption
  <2>3. hold' \in {"off", "armed", "expired"} /\ depth' \in Int /\ starts' \in Nat
    BY <1>2, <1>4
  <2> QED  BY <2>1, <2>2, <2>3 DEF TypeOK
<1>8. BracketsAlternate' /\ AudioConserved' /\ ClosedMicIsIdle' /\ CutIsOfHeldTurn'
  BY <1>2, <1>5, <1>6
     DEF BracketsAlternate, AudioConserved, ClosedMicIsIdle, CutIsOfHeldTurn, One
<1>9. AnnouncedAsStarted'
  <2> SUFFICES ASSUME ~cut' PROVE starts' <= 1
    BY <1>2 DEF AnnouncedAsStarted
  <2>1. Announced = One(started)
    BY <1>2, AnnouncedIsOpen
  <2> QED  BY <2>1, <1>3, <1>4 DEF One
<1>10. NothingHeldUndetected'
  BY <1>2 DEF NothingHeldUndetected
<1> QED  BY <1>7, <1>8, <1>9, <1>10 DEF IInv

\* The hold runs out.
LEMMA ForceFinalizeStep ==
  ASSUME IInv, ForceFinalize
  PROVE  IInv'
<1>1. TypeOK
  BY DEF IInv
<1>2. carry \in Nat /\ userDone \in BOOLEAN
  BY <1>1, Types, LengthsAssumption
<1>3. /\ FinalizeEmit(0, carry) /\ it' = Idle /\ UNCHANGED detector
      /\ userDone' \in BOOLEAN /\ carry = carry + 0 /\ pause' \in Pauses
  BY <1>1, <1>2, Types DEF ForceFinalize, IteratorAfterHold
<1> QED  BY <1>2, <1>3, FinalizeKeepsIInv

\* A chunk ends the turn.
LEMMA EndTurnStep ==
  ASSUME IInv, NEW score \in Scores, EndTurn(score)
  PROVE  IInv'
<1> DEFINE length == Segment(it)
           emitted == IF detector THEN carry + length ELSE length
<1>1. TypeOK /\ NothingHeldUndetected
  BY DEF IInv
<1>2. /\ it \in Iterator /\ carry \in Nat /\ userDone \in BOOLEAN
      /\ detector \in BOOLEAN
  BY <1>1, Types, LengthsAssumption
<1>3. length \in Nat
  BY <1>2, SegmentLength
<1>4. emitted = carry + length /\ emitted \in Nat
  <2> HIDE DEF length
  <2> QED  BY <1>1, <1>2, <1>3 DEF NothingHeldUndetected
<1>5. /\ FinalizeEmit(length, emitted) /\ it' = Idle /\ UNCHANGED detector
      /\ userDone' \in BOOLEAN
  BY <1>2 DEF EndTurn, Feed, AfterChunk
<1>6. pause' \in Pauses
  BY <1>1, FeedPause DEF EndTurn
<1> HIDE DEF length, emitted
<1> QED  BY <1>3, <1>4, <1>5, <1>6, FinalizeKeepsIInv

\* A chunk ends nothing.
LEMMA GoOnStep ==
  ASSUME IInv, NEW score \in Scores, GoOn(score)
  PROVE  IInv'
<1> DEFINE begun == One(Begins(it'))
<1>1. TypeOK /\ depth = One(started) /\ owed = carry /\ NothingHeldUndetected
  BY DEF IInv, BracketsAlternate, AudioConserved
<1>2. /\ listening /\ UNCHANGED <<listening, carry, owed, detector, userDone>>
      /\ it' = AfterChunk(it, score) /\ hold' = HoldAfterCheck
      /\ started' = (started \/ Begins(it')) /\ Announce(begun, 0)
      /\ cut' = (cut /\ carry # 0)
  BY DEF GoOn, Feed
<1>3. /\ started \in BOOLEAN /\ cut \in BOOLEAN /\ carry \in 0..TurnMax
      /\ it \in Iterator /\ hold \in {"off", "armed", "expired"}
      /\ detector \in BOOLEAN /\ userDone \in BOOLEAN /\ listening \in BOOLEAN
      /\ owed \in Nat
  BY <1>1, Types
<1>4. /\ started' \in BOOLEAN /\ begun \in {0, 1}
      /\ One(started') = One(started) + begun
      /\ One(started) \in {0, 1} /\ One(started') \in {0, 1}
  <2>1. Begins(it') \in BOOLEAN /\ (Begins(it') => ~started)
    BY DEF Begins
  <2>2. CASE Begins(it')
    <3>1. started = FALSE /\ started' = TRUE
      BY <1>2, <1>3, <2>1, <2>2
    <3> QED  BY <2>2, <3>1 DEF One
  <2>3. CASE ~Begins(it')
    <3>1. started' = started
      BY <1>2, <1>3, <2>1, <2>3
    <3>2. begun = 0
      BY <2>3 DEF One
    <3>3. One(started) \in {0, 1}
      BY DEF One
    <3> HIDE DEF begun
    <3> QED  BY <1>3, <3>1, <3>2, <3>3
  <2> QED  BY <2>2, <2>3
<1>5. /\ Announced \in Nat /\ starts' \in Nat /\ depth' \in Int
      /\ Announced + begun <= 2 => starts' = Announced + begun
  <2> HIDE DEF begun
  <2> QED  BY <1>1, <1>2, <1>4, AnnounceCounts
<1>6. /\ it' \in Iterator /\ hold' \in {"off", "armed", "expired"}
      /\ pause' \in Pauses
  BY <1>1, <1>2, <1>3, ChunkKeepsIterator, FeedPause DEF HoldAfterCheck, GoOn
<1>7. TypeOK'
  BY <1>2, <1>3, <1>4, <1>5, <1>6 DEF TypeOK
<1>8. BracketsAlternate'
  <2> HIDE DEF begun
  <2> QED  BY <1>1, <1>2, <1>4 DEF Announce, BracketsAlternate
<1>9. AudioConserved' /\ ClosedMicIsIdle' /\ CutIsOfHeldTurn' /\ NothingHeldUndetected'
  BY <1>1, <1>2 DEF AudioConserved, ClosedMicIsIdle, CutIsOfHeldTurn, NothingHeldUndetected
<1>10. AnnouncedAsStarted'
  <2> HIDE DEF begun
  <2> SUFFICES ASSUME ~cut' PROVE starts' = One(started')
    BY <1>4 DEF AnnouncedAsStarted
  <2>1. Announced = One(started)
    BY <1>2, AnnouncedIsOpen
  <2> QED  BY <2>1, <1>4, <1>5
<1> QED  BY <1>7, <1>8, <1>9, <1>10 DEF IInv

\* A chunk ends a segment that is no speech.
LEMMA DiscardStep ==
  ASSUME IInv, NEW score \in Scores, Discard(score)
  PROVE  IInv'
<1>1. TypeOK /\ depth = One(started) /\ owed = carry /\ NothingHeldUndetected
  BY DEF IInv, BracketsAlternate, AudioConserved
<1>2. /\ listening /\ UNCHANGED <<listening, carry, owed, detector, userDone>>
      /\ it' = Idle /\ hold' = HoldAfterCheck /\ started' = FALSE
      /\ Announce(0, One(started)) /\ cut' = (carry # 0)
  BY DEF Discard, Feed, AfterChunk
<1>3. /\ started \in BOOLEAN /\ cut \in BOOLEAN /\ carry \in 0..TurnMax
      /\ hold \in {"off", "armed", "expired"}
      /\ detector \in BOOLEAN /\ userDone \in BOOLEAN /\ listening \in BOOLEAN
      /\ owed \in Nat
  BY <1>1, Types
<1>4. One(started) \in {0, 1}
  BY DEF One
<1>5. /\ Announced \in Nat /\ starts' \in Nat /\ depth' \in Int
      /\ Announced + 0 <= 2 => starts' = Announced + 0
  BY <1>1, <1>2, <1>4, AnnounceCounts
<1>6. hold' \in {"off", "armed", "expired"} /\ pause' \in Pauses
  BY <1>1, <1>2, <1>3, FeedPause DEF HoldAfterCheck, Discard
<1>7. TypeOK'
  BY <1>2, <1>3, <1>5, <1>6, IdleIterator DEF TypeOK
<1>8. BracketsAlternate'
  BY <1>1, <1>2, <1>4 DEF Announce, BracketsAlternate, One
<1>9. AudioConserved' /\ ClosedMicIsIdle' /\ CutIsOfHeldTurn' /\ NothingHeldUndetected'
  BY <1>1, <1>2 DEF AudioConserved, ClosedMicIsIdle, CutIsOfHeldTurn, NothingHeldUndetected
<1>10. AnnouncedAsStarted'
  <2> SUFFICES ASSUME ~cut' PROVE starts' <= 1
    BY <1>2 DEF AnnouncedAsStarted
  <2>1. Announced = One(started)
    BY <1>2, AnnouncedIsOpen
  <2> QED  BY <2>1, <1>4, <1>5
<1> QED  BY <1>7, <1>8, <1>9, <1>10 DEF IInv

\* A pause that does not end the turn.
LEMMA HoldTurnStep ==
  ASSUME IInv, NEW score \in Scores, HoldTurn(score)
  PROVE  IInv'
<1> DEFINE length == Segment(it)
<1>1. TypeOK /\ depth = One(started) /\ owed = carry
  BY DEF IInv, BracketsAlternate, AudioConserved
<1>2. /\ listening /\ detector /\ UNCHANGED <<listening, detector, userDone>>
      /\ it' = Idle /\ hold' = "armed" /\ started' = started
      /\ Announce(0, 0) /\ cut' = (cut /\ carry # 0)
      /\ carry' = carry + length /\ owed' = owed + length /\ carry + length < TurnMax
      /\ Acceptable(length)
  BY DEF HoldTurn, Feed, AfterChunk, HoldArmed, StartedInHold, Verdicts
<1>3. /\ started \in BOOLEAN /\ cut \in BOOLEAN /\ carry \in 0..TurnMax
      /\ it \in Iterator /\ detector \in BOOLEAN /\ userDone \in BOOLEAN
      /\ listening \in BOOLEAN /\ owed \in Nat
  BY <1>1, Types
<1>4. length \in Nat /\ length > 0
  BY <1>2, <1>3, SegmentLength
<1> HIDE DEF length
<1>5. carry' \in 0..TurnMax /\ carry' # 0 /\ owed' = carry' /\ owed' \in Nat
  BY <1>1, <1>2, <1>3, <1>4, LengthsAssumption
<1>6. /\ Announced \in Nat /\ starts' \in Nat /\ depth' \in Int
      /\ Announced + 0 <= 2 => starts' = Announced + 0
  BY <1>1, <1>2, AnnounceCounts
<1>7. TypeOK'
  <2>1. pause' \in Pauses
    BY <1>1, FeedPause DEF HoldTurn
  <2> QED  BY <1>2, <1>3, <1>5, <1>6, <2>1, IdleIterator DEF TypeOK
<1>8. BracketsAlternate'
  BY <1>1, <1>2, <1>3 DEF Announce, BracketsAlternate, One
<1>9. AudioConserved' /\ ClosedMicIsIdle' /\ CutIsOfHeldTurn' /\ NothingHeldUndetected'
  BY <1>2, <1>5 DEF AudioConserved, ClosedMicIsIdle, CutIsOfHeldTurn, NothingHeldUndetected
<1>10. AnnouncedAsStarted'
  <2> SUFFICES ASSUME ~cut' PROVE starts' = One(started')
    BY <1>5 DEF AnnouncedAsStarted
  <2>1. Announced = One(started)
    BY <1>2, AnnouncedIsOpen
  <2> QED  BY <2>1, <1>2, <1>6 DEF One
<1> QED  BY <1>7, <1>8, <1>9, <1>10 DEF IInv

\* The clock, the other threads and the user.
LEMMA OutsideStep ==
  ASSUME IInv, GraceExpires \/ Relisten \/ OnSessionEnd \/ UserFinishes
  PROVE  IInv'
<1> USE DEF IInv, BracketsAlternate, AudioConserved, ClosedMicIsIdle,
            AnnouncedAsStarted, CutIsOfHeldTurn, NothingHeldUndetected, One
<1>1. CASE GraceExpires
  BY <1>1 DEF GraceExpires, TypeOK
<1>2. CASE Relisten
  BY <1>2 DEF Relisten, TypeOK
<1>3. CASE OnSessionEnd
  <2>1. TypeOK'
    <3>1. {listening, started, detector, userDone, cut}' \subseteq BOOLEAN
      BY <1>3 DEF OnSessionEnd, TypeOK
    <3>2. it' \in Iterator /\ carry' \in 0..TurnMax /\ owed' \in Nat
      BY <1>3, IdleIterator, LengthsAssumption DEF OnSessionEnd
    <3>3. /\ hold' \in {"off", "armed", "expired"} /\ depth' \in Int /\ starts' \in Nat
          /\ pause' \in Pauses
      BY <1>3, Types DEF OnSessionEnd
    <3> QED  BY <3>1, <3>2, <3>3 DEF TypeOK
  <2> QED  BY <1>3, <2>1 DEF OnSessionEnd
<1>4. CASE UserFinishes
  BY <1>4 DEF UserFinishes, TypeOK
<1> QED  BY <1>1, <1>2, <1>3, <1>4

\* Every step.
LEMMA NextIInv == IInv /\ [Next]_vars => IInv'
<1> SUFFICES ASSUME IInv, [Next]_vars PROVE IInv'
  OBVIOUS
<1>1. CASE ForceFinalize
  BY <1>1, ForceFinalizeStep
<1>2. CASE \E score \in Scores :
             GoOn(score) \/ Discard(score) \/ EndTurn(score) \/ HoldTurn(score)
  <2> PICK score \in Scores :
             GoOn(score) \/ Discard(score) \/ EndTurn(score) \/ HoldTurn(score)
    BY <1>2
  <2> QED  BY GoOnStep, DiscardStep, EndTurnStep, HoldTurnStep
<1>3. CASE GraceExpires \/ Relisten \/ OnSessionEnd \/ UserFinishes
  BY <1>3, OutsideStep
<1>4. CASE UNCHANGED vars
  BY <1>4 DEF vars, IInv, TypeOK, BracketsAlternate, AudioConserved, ClosedMicIsIdle,
              AnnouncedAsStarted, CutIsOfHeldTurn, NothingHeldUndetected
<1> QED  BY <1>1, <1>2, <1>3, <1>4 DEF Next, Chunk

\* The invariant holds in every state the detector reaches.
THEOREM Invariance == Spec => []IInv
BY InitIInv, NextIInv, PTL DEF Spec

-----------------------------------------------------------------------------
(* What it says. *)

\* Every variable keeps its type: the iterator its caps, the held turn its
\* ceiling (turn_max_s).
THEOREM TypeCorrect == Spec => []TypeOK
<1>1. IInv => TypeOK
  BY DEF IInv
<1> QED  BY <1>1, Invariance, PTL

\* speech_started and speech_stopped alternate on the wire.
THEOREM Brackets == Spec => []BracketsAlternate
<1>1. IInv => BracketsAlternate
  BY DEF IInv
<1> QED  BY <1>1, Invariance, PTL

\* Every accepted segment is emitted exactly once.
THEOREM Conservation == Spec => []AudioConserved
<1>1. IInv => AudioConserved
  BY DEF IInv
<1> QED  BY <1>1, Invariance, PTL

\* A closed microphone leaves nothing of a turn in the handler.
THEOREM IdleWhenClosed == Spec => []ClosedMicIsIdle
<1>1. IInv => ClosedMicIsIdle
  BY DEF IInv
<1> QED  BY <1>1, Invariance, PTL

\* A held turn none of whose segments was discarded is announced once.
THEOREM OneBracket == Spec => []OneBracketPerTurn
<1>1. IInv => OneBracketPerTurn
  BY DEF IInv, AnnouncedAsStarted, OneBracketPerTurn, One
<1> QED  BY <1>1, Invariance, PTL

\* The client and the event loop see each turn begin once and end once.
THEOREM Bracketed == Spec => []TurnsBracketed
<1>1. BracketsAlternate /\ OneBracketPerTurn => TurnsBracketed
  BY DEF TurnsBracketed
<1> QED  BY <1>1, Brackets, OneBracket, PTL

-----------------------------------------------------------------------------
(* The canceller and the gate. *)

\* Once the endpoint has torn down there is no native object and nobody left to
\* make one, whichever of the two teardowns came first.
Left == life \in {"gone", "returned"} => send = "ended" /\ ~ec.native

\* What a canceller must be for FramesSound.
Kept(e) == e \in Canceller /\ e.silence = e.near + e.clean /\ e.silence < Frame

EchoIInv == EchoTypeOK /\ Kept(ec) /\ Left

\* The constants of the canceller.
LEMMA Lengths == Frame \in Nat \ {0} /\ SpeexFrame \in Nat \ {0} /\ MicChunk \in Nat \ {0} /\ FarCap \in Nat
  BY FramesAssumption

-----------------------------------------------------------------------------
(* Arithmetic of frames. *)

\* Quotient and rest.
LEMMA Division ==
  ASSUME NEW n \in Nat, NEW size \in Nat \ {0}
  PROVE  /\ n \div size \in Nat
         /\ n % size \in 0..(size - 1)
         /\ n = (n \div size) * size + (n % size)
  BY Z3

\* Frames that are taken from a buffer were in it.
LEMMA Taken ==
  ASSUME NEW n \in Nat, NEW size \in Nat \ {0}, NEW frames \in Nat
  PROVE  Fewer(frames, n \div size) * size \in 0..n
<1>. DEFINE q == n \div size
            f == Fewer(frames, q)
<1>1. q \in Nat /\ q * size <= n
  BY Division
<1>2. f \in Nat /\ f <= q
  BY <1>1 DEF Fewer
<1>. HIDE DEF q, f
<1>3. f * size <= q * size /\ f * size \in Nat
  BY <1>1, <1>2, Z3
<1>4. q * size \in Nat
  BY <1>1, Z3
<1>5. f * size \in 0..n
  BY <1>1, <1>3, <1>4
<1>. QED  BY <1>5 DEF f, q

-----------------------------------------------------------------------------
(* What the canceller's operations keep. *)

\* The far end a call takes.
LEMMA RenderKeeps ==
  ASSUME NEW e \in Canceller, NEW frames \in Nat, NEW size \in Nat \ {0}
  PROVE  /\ Rendered(e, frames, size) \in Canceller
         /\ Rendered(e, frames, size).near = e.near
         /\ Rendered(e, frames, size).clean = e.clean
         /\ Rendered(e, frames, size).silence = e.silence
         /\ Rendered(e, frames, size).enabled = e.enabled
         /\ Rendered(e, frames, size).native = e.native
<1>1. e.far \in 0..FarCap /\ e.far \in Nat
  BY Lengths DEF Canceller
<1>. DEFINE taken == Fewer(frames, e.far \div size) * size
<1>2. taken \in 0..e.far
  BY <1>1, Taken
<1>. HIDE DEF taken
<1>3. e.far - taken \in 0..FarCap
  BY <1>1, <1>2, Lengths
<1>4. Rendered(e, frames, size) = [e EXCEPT !.far = e.far - taken]
  BY DEF Rendered, taken
<1>. QED  BY <1>3, <1>4 DEF Canceller

\* The chunk is cut into whole frames and what is left of it; the output is
\* a chunk long, and what it lacks is the silence that is added to the lag.
LEMMA Reframed ==
  ASSUME NEW e, Kept(e)
  PROVE  Kept(ProcessAec3(e))
<1>. DEFINE held   == e.near + MicChunk
            frames == held \div Frame
            left   == held % Frame
            taken  == Fewer(frames, e.far \div Frame) * Frame
            whole  == e.clean + (frames * Frame)
            out    == Fewer(whole, MicChunk)
<1>1. /\ e \in Canceller /\ e.near \in Nat /\ e.clean \in Nat /\ e.far \in 0..FarCap
      /\ e.silence = e.near + e.clean /\ e.silence < Frame
  BY Lengths DEF Kept, Canceller
<1>2. held \in Nat
  BY <1>1, Lengths
<1>3. frames \in Nat /\ left \in 0..(Frame - 1) /\ held = frames * Frame + left
  BY <1>2, Division, Lengths
<1>. DEFINE framed == frames * Frame
<1>4. framed \in Nat
  <2>. HIDE DEF frames
  <2>. QED  BY <1>3, Lengths, Z3
<1>5. taken \in 0..e.far
  <2>. HIDE DEF frames
  <2>1. e.far \in Nat
    BY <1>1, Lengths
  <2>. QED  BY <1>3, <2>1, Taken, Lengths, Zenon
<1>6. whole = e.clean + framed /\ held = framed + left
  <2>. HIDE DEF frames, left, held
  <2>. QED  BY <1>3
<1>7. ProcessAec3(e) =
        [e EXCEPT !.native = TRUE, !.near = left, !.far = e.far - taken,
                  !.clean = whole - out, !.silence = e.silence + MicChunk - out]
  <2>. DEFINE r == [Rendered(e, frames, Frame) EXCEPT
                       !.native = TRUE, !.near = left, !.clean = @ + (frames * Frame)]
  <2>1. ProcessAec3(e) = Emitted(r)
    BY DEF ProcessAec3
  <2>2. r = [e EXCEPT !.native = TRUE, !.near = left, !.far = e.far - taken, !.clean = whole]
    <3>. HIDE DEF frames, left
    <3>. QED  BY <1>1 DEF Rendered, Canceller
  <2>. HIDE DEF r, frames, left, taken, whole
  <2>3. r.clean = whole /\ r.silence = e.silence
    BY <1>1, <2>2 DEF Canceller
  <2>4. Emitted(r) = [r EXCEPT !.clean = whole - out, !.silence = e.silence + MicChunk - out]
    BY <2>3 DEF Emitted
  <2>. HIDE DEF out
  <2>. QED  BY <1>1, <2>1, <2>2, <2>4 DEF Canceller
<1>. HIDE DEF frames, left, taken, whole, framed
<1>8. /\ left \in 0..(Frame - 1) /\ whole \in Nat /\ e.far - taken \in 0..FarCap
      /\ e.near + MicChunk = framed + left
  BY <1>1, <1>2, <1>3, <1>4, <1>5, <1>6, Lengths
<1>9. out \in Nat /\ out <= whole /\ out <= MicChunk /\ (out = whole \/ out = MicChunk)
  BY <1>8, Lengths DEF Fewer
<1>. HIDE DEF out
<1>10. /\ whole - out \in Nat /\ e.silence + MicChunk - out \in Nat
       /\ e.silence + MicChunk - out = left + (whole - out)
       /\ e.silence + MicChunk - out < Frame
  BY <1>1, <1>4, <1>6, <1>8, <1>9, Lengths
<1>. QED  BY <1>1, <1>7, <1>8, <1>10 DEF Kept, Canceller

\* One chunk through the canceller, by either backend or by none.
LEMMA ProcessKeeps ==
  ASSUME NEW e, NEW loads \in BOOLEAN, Kept(e)
  PROVE  Kept(Process(e, loads))
<1>1. CASE ~e.enabled
  BY <1>1 DEF Process
<1>2. CASE e.enabled /\ backend = "speex"
  <2>1. MicChunk \div SpeexFrame \in Nat
    BY Division, Lengths
  <2>2. Kept(ProcessSpeex(e))
    BY <2>1, RenderKeeps, Lengths DEF Kept, ProcessSpeex
  <2>. QED  BY <1>2, <2>2 DEF Process
<1>3. CASE e.enabled /\ backend # "speex" /\ ~Ready(e, loads)
  BY <1>3 DEF Process, Disabled, Kept, Canceller
<1>4. CASE e.enabled /\ backend # "speex" /\ Ready(e, loads)
  BY <1>4, Reframed DEF Process
<1>. QED  BY <1>1, <1>2, <1>3, <1>4

\* Far end of the agent, capped.
LEMMA AddKeeps ==
  ASSUME NEW e, NEW length \in Nat, NEW loads \in BOOLEAN, Kept(e)
  PROVE  Kept(AddFarEnd(e, length, loads))
<1>1. e.far \in Nat /\ Capped(e.far + length) \in 0..FarCap
  BY Lengths DEF Kept, Canceller, Capped, Fewer
<1>2. Kept([e EXCEPT !.recent = TRUE, !.far = Capped(e.far + length)])
  BY <1>1 DEF Kept, Canceller
<1>3. Kept([e EXCEPT !.recent = TRUE, !.far = Capped(e.far + length), !.native = TRUE])
  BY <1>1 DEF Kept, Canceller
<1>4. Kept([e EXCEPT !.recent = TRUE, !.enabled = FALSE])
  BY DEF Kept, Canceller
<1>5. AddFarEnd(e, length, loads) \in
        {e, [e EXCEPT !.recent = TRUE, !.enabled = FALSE],
         [e EXCEPT !.recent = TRUE, !.far = Capped(e.far + length)],
         [e EXCEPT !.recent = TRUE, !.far = Capped(e.far + length), !.native = TRUE]}
  BY DEF AddFarEnd, Disabled, Kept, Canceller
<1>. QED  BY <1>2, <1>3, <1>4, <1>5

-----------------------------------------------------------------------------
(* The gate. *)

\* The window is never shorter than the count that must be sustained.
LEMMA WindowLength == RunLength \in Nat /\ SustainMin <= RunLength
<1>. DEFINE S == {SustainMin, SustainWindow}
<1>1. \E n \in S : \A m \in S : n >= m
  BY FramesAssumption
<1>2. Max(S) \in S /\ \A m \in S : Max(S) >= m
  BY <1>1 DEF Max
<1>. QED  BY <1>2, FramesAssumption DEF RunLength

\* The run never grows beyond its window.
LEMMA RecordedShort ==
  ASSUME run \in Seq(BOOLEAN), Len(run) <= RunLength, NEW above \in BOOLEAN
  PROVE  Recorded(above) \in Seq(BOOLEAN) /\ Len(Recorded(above)) <= RunLength
<1>1. Append(run, above) \in Seq(BOOLEAN) /\ Len(Append(run, above)) = Len(run) + 1
  OBVIOUS
<1>2. CASE Len(run) + 1 > RunLength
  <2>1. /\ Recorded(above) = Tail(Append(run, above))
        /\ Append(run, above) # << >>
    BY <1>1, <1>2 DEF Recorded
  <2>. QED  BY <1>1, <2>1
<1>3. CASE ~(Len(run) + 1 > RunLength)
  BY <1>1, <1>3, WindowLength DEF Recorded
<1>. QED  BY <1>2, <1>3

\* The record of the gate stays within its window, whoever hears the chunk.
LEMMA GateKeeps ==
  ASSUME run \in Seq(BOOLEAN), Len(run) <= RunLength,
         NEW far \in BOOLEAN, NEW above \in BOOLEAN, Gate(far, above)
  PROVE  run' \in Seq(BOOLEAN) /\ Len(run') <= RunLength /\ passed' \in BOOLEAN
<1>1. CASE far
  BY <1>1, RecordedShort DEF Gate
<1>2. CASE ~far
  <2>1. run' = << >> /\ passed' = above
    BY <1>2 DEF Gate
  <2>. QED  BY <2>1, WindowLength
<1>. QED  BY <1>1, <1>2

-----------------------------------------------------------------------------
(* The invariant. *)

\* Empty buffers.
LEMMA EchoInitially == EchoInit => EchoIInv
<1>. SUFFICES ASSUME EchoInit PROVE EchoIInv
  OBVIOUS
<1>1. Kept(ec) /\ ~ec.native
  BY Lengths DEF EchoInit, Kept, Canceller
<1>2. run = << >> /\ Len(run) = 0 /\ remainder \in 0..(MicChunk - 1)
  BY Lengths DEF EchoInit
<1>3. run \in Seq(BOOLEAN) /\ Len(run) <= RunLength
  BY <1>2, WindowLength
<1>4. EchoTypeOK
  BY <1>1, <1>2, <1>3 DEF EchoInit, EchoTypeOK, Kept
<1>. QED  BY <1>1, <1>4 DEF EchoIInv, Left, EchoInit

\* An append, short of a chunk or completing one.
LEMMA MicrophoneStep == EchoIInv /\ Microphone => EchoIInv'
<1>. SUFFICES ASSUME EchoIInv, NEW length \in AppendSizes, AppendShort(length) \/ AppendChunk(length)
              PROVE  EchoIInv'
  BY DEF Microphone
<1>1. length \in 0..MicChunk /\ remainder \in 0..(MicChunk - 1)
  BY FramesAssumption DEF EchoIInv, EchoTypeOK
<1>2. CASE AppendShort(length)
  <2>1. remainder' \in 0..(MicChunk - 1)
    BY <1>1, <1>2, Lengths DEF AppendShort
  <2>. QED  BY <1>2, <2>1 DEF teardown, AppendShort, EchoIInv, EchoTypeOK, Left
<1>3. CASE AppendChunk(length)
  <2>1. PICK loads \in BOOLEAN : ec' = Process(ec, loads)
    BY <1>3 DEF AppendChunk
  <2>2. Kept(ec')
    BY <2>1, ProcessKeeps DEF EchoIInv
  <2>3. remainder' \in 0..(MicChunk - 1)
    BY <1>1, <1>3, Lengths DEF AppendChunk
  <2>4. run' \in Seq(BOOLEAN) /\ Len(run') <= RunLength /\ passed' \in BOOLEAN
    <3>1. CASE \E above \in Above : Gate(FarActive(ec'), above)
      <4>1. PICK above \in Above : Gate(FarActive(ec'), above)
        BY <3>1
      <4>2. above \in BOOLEAN /\ FarActive(ec') \in BOOLEAN
        BY <2>2 DEF Above, FarActive, Kept, Canceller
      <4>. QED  BY <4>1, <4>2, GateKeeps DEF EchoIInv, EchoTypeOK
    <3>2. CASE UNCHANGED <<run, passed>>
      BY <3>2 DEF EchoIInv, EchoTypeOK
    <3>. QED  BY <1>3, <3>1, <3>2 DEF AppendChunk
  <2>. QED  BY <1>3, <2>2, <2>3, <2>4 DEF teardown, AppendChunk, EchoIInv, EchoTypeOK, Left, Kept
<1>. QED  BY <1>2, <1>3

\* The send loop hands on the far end.
LEMMA AudioSentStep == EchoIInv /\ AudioSent => EchoIInv'
<1>. SUFFICES ASSUME EchoIInv, AudioSent PROVE EchoIInv'
  OBVIOUS
<1>1. PICK length \in ChunkLengths, loads \in BOOLEAN : ec' = AddFarEnd(ec, length, loads)
  BY DEF AudioSent
<1>2. Kept(ec')
  BY <1>1, AddKeeps, FramesAssumption DEF EchoIInv, ChunkLengths
<1>. QED  BY <1>2 DEF teardown, AudioSent, EchoIInv, EchoTypeOK, Left, Kept

\* Every step keeps the invariant.
LEMMA EchoInductive == EchoIInv /\ [EchoNext]_echoVars => EchoIInv'
<1>. SUFFICES ASSUME EchoIInv, [EchoNext]_echoVars PROVE EchoIInv'
  OBVIOUS
<1>1. CASE UNCHANGED echoVars
  BY <1>1 DEF teardown, echoVars, EchoIInv, EchoTypeOK, Left
<1>2. CASE Microphone
  BY <1>2, MicrophoneStep
<1>3. CASE AudioSent
  BY <1>3, AudioSentStep
<1>4. CASE TakeAudio \/ StartResponse \/ ResponseCancel
  BY <1>4 DEF teardown, TakeAudio, StartResponse, ResponseCancel, EchoIInv, EchoTypeOK, Left
<1>5. CASE BargeIn \/ TearDown \/ TailPasses
  <2>1. ec' \in {FlushFar(ec), Closed(ec), [ec EXCEPT !.recent = FALSE]}
    BY <1>5 DEF BargeIn, TearDown, TailPasses
  <2>2. Kept(ec')
    <3>1. Kept(FlushFar(ec))
      BY Lengths DEF EchoIInv, FlushFar, Kept, Canceller
    <3>2. Kept(Closed(ec))
      BY DEF EchoIInv, Closed, Kept, Canceller
    <3>3. Kept([ec EXCEPT !.recent = FALSE])
      BY DEF EchoIInv, Kept, Canceller
    <3>. QED  BY <2>1, <3>1, <3>2, <3>3
  <2>3. TearDown => ~ec'.native
    BY DEF TearDown, Closed, EchoIInv, Kept, Canceller
  <2>4. TailPasses /\ ~ec.native => ~ec'.native
    BY DEF TailPasses, EchoIInv, Kept, Canceller
  <2>. QED  BY <1>5, <2>2, <2>3, <2>4 DEF teardown, BargeIn, TearDown, TailPasses, EchoIInv, EchoTypeOK, Left, Kept
<1>6. CASE UtteranceEnds \/ User
  BY <1>6 DEF teardown, UtteranceEnds, User, EchoIInv, EchoTypeOK, Left
<1>7. CASE SendEnds \/ SendStops \/ Leave \/ Return
  BY <1>7 DEF teardown, SendEnds, SendStops, SendCancelled, Leave, Return, EchoIInv, EchoTypeOK, Left
<1>8. CASE Shutdown \/ Drain \/ DrainStop \/ Drained \/ WorkerEnds
  BY <1>8 DEF Shutdown, SendCancelled, Drain, DrainStop, Drained, WorkerEnds, EchoIInv, EchoTypeOK, Left
<1>. QED  BY <1>1, <1>2, <1>3, <1>4, <1>5, <1>6, <1>7, <1>8 DEF EchoNext, SendLoop

\* The inductive invariant holds in every reachable state.
THEOREM EchoInvariance == EchoSpec => []EchoIInv
BY EchoInitially, EchoInductive, PTL DEF EchoSpec

\* However long the session runs, reframing delays the microphone by less than
\* a frame of the canceller, and the buffers stay within their bounds
\* (echo_canceller.py, process).
THEOREM FramesAreSound == EchoSpec => []FramesSound
<1>1. EchoIInv => FramesSound
  BY DEF EchoIInv, FramesSound, LagBounded, Kept
<1>. QED  BY <1>1, EchoInvariance, PTL

\* However the endpoint's teardown and the server's shutdown interleave, and
\* though the shutdown hands the pipeline to its worker without closing the
\* canceller (websocket_router.py, lifespan), no worker is the last to hold a
\* native object: the endpoint closes it on the event loop, after the last call
\* that could have made it anew.
THEOREM DroppedInTime == EchoSpec => []DroppedOnLoop
<1>1. EchoIInv => DroppedOnLoop
  BY DEF EchoIInv, EchoTypeOK, Left, DroppedOnLoop, HeldOnLoop
<1>. QED  BY <1>1, EchoInvariance, PTL
=============================================================================
