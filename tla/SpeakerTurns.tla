------------------------------ MODULE SpeakerTurns ------------------------------
(***************************************************************************)
(* The speaker-id service and the session that calls it.  A turn's audio   *)
(* is identified while it is transcribed: a pool of one worker makes the   *)
(* call, and the STT thread joins its future within a bound.  After the    *)
(* turn's response has been requested, a pool of two workers has the turn  *)
(* diarized and emits a correction keyed by the item the transcript was    *)
(* announced under.  Both calls are best effort: the client never raises.  *)
(***************************************************************************)
EXTENDS SpeakerService, SequencesExt

CONSTANT MaxTurns    \* bound: utterances in any workload

ASSUME TurnsAssumption ==
  /\ MaxTurns \in Nat
  /\ \A l \in Loads : l.turns \in Seq(Clips) /\ Len(l.turns) <= MaxTurns /\ l.opens \in Nat

VARIABLES
  turn,        \* each utterance: what became of it
  stt,         \* the STT thread: [pc, turn]
  pool,        \* identify calls handed to the worker and not finished
  jobs,        \* diarize jobs handed to the pool and not finished
  textOutput,  \* the session's event queue
  conn,        \* ConnState: current_item_id, in_response, items generated
  opens        \* counter: responses opened outside a turn

session == <<turn, stt, pool, jobs, textOutput, conn, opens>>
vars    == <<service, session>>

-----------------------------------------------------------------------------
Turns  == 1..MaxTurns
NoItem == 0
NoCall == 0
None   == [decision |-> "none", id |-> NoSpeaker]  \* no label, or none yet
DiarizeWorkers == 2

\* stage: silent, spoken, transcribed, completed or dropped; item and
\* completed are the items speech_started and transcription.completed named;
\* call is the request of the identify call; future is its result and label
\* what the transcript was given.
NoTurn == [stage |-> "silent", clip |-> << >>, item |-> NoItem, completed |-> NoItem,
           call |-> NoCall, future |-> None, label |-> None]

InitSession ==
  /\ turn = [u \in Turns |-> NoTurn]
  /\ stt = [pc |-> "idle", turn |-> 0]
  /\ pool = << >>
  /\ jobs = << >>
  /\ textOutput = << >>
  /\ conn = [item |-> NoItem, responding |-> FALSE, next |-> 1]
  /\ opens = 0

(* VAD and STT.                                                            *)

Waiting == {u \in Turns : turn[u].stage = "spoken"}

\* The user speaks: speech_started is queued and, at the end of the
\* utterance, its audio is handed to STT.
Speak(u) ==
  /\ turn[u].stage = "silent" /\ u <= Len(load.turns)
  /\ \A w \in 1..(u - 1) : turn[w].stage # "silent"
  /\ turn' = [turn EXCEPT ![u].stage = "spoken", ![u].clip = load.turns[u]]
  /\ textOutput' = Append(textOutput, [kind |-> "speech_started", turn |-> u])
  /\ UNCHANGED <<service, stt, pool, jobs, conn, opens>>

\* STT takes the oldest utterance, hands its identification to the pool and
\* posts it for transcription.
SttTake ==
  /\ stt.pc = "idle" /\ Waiting # {}
  /\ LET u == CHOOSE t \in Waiting : \A w \in Waiting : t <= w IN
     /\ stt' = [pc |-> "post", turn |-> u]
     /\ turn' = [turn EXCEPT ![u].stage = "posted"]
     /\ pool' = Append(pool, u)
  /\ UNCHANGED <<service, jobs, textOutput, conn, opens>>

\* Transcribed; or an HTTP error or silence, and nobody is told.
SttPosted ==
  /\ stt.pc = "post"
  /\ \/ stt' = [stt EXCEPT !.pc = "join"] /\ UNCHANGED turn
     \/ /\ stt' = [pc |-> "idle", turn |-> 0]
        /\ turn' = [turn EXCEPT ![stt.turn].stage = "dropped"]
  /\ UNCHANGED <<service, pool, jobs, textOutput, conn, opens>>

\* Mutant: the future is waited for without a bound.
JoinGivesUp_Never(u) == FALSE

\* result(timeout=speaker_timeout + 0.2): the wait may end at any time
JoinGivesUp(u) == turn[u].future = None

\* Mutant: a turn takes the newest label there is.
JoinedLabel_Newest(u) ==
  LET done == {t \in Turns : turn[t].future # None} IN
  IF done = {} THEN None ELSE turn[CHOOSE t \in done : \A w \in done : w <= t].future

JoinedLabel(u) == turn[u].future

\* The transcript goes out with what is known of its speaker by now, through
\* the notifier: a name is prefixed on a known label only.
SttJoin ==
  /\ stt.pc = "join"
  /\ turn[stt.turn].future # None \/ JoinGivesUp(stt.turn)
  /\ turn' = [turn EXCEPT ![stt.turn].stage = "transcribed",
                          ![stt.turn].label = JoinedLabel(stt.turn)]
  /\ textOutput' = Append(textOutput, [kind |-> "transcription_completed", turn |-> stt.turn])
  /\ stt' = [pc |-> "idle", turn |-> 0]
  /\ UNCHANGED <<service, pool, jobs, conn, opens>>

(* RemoteSpeakerClient.identify on the pool's one worker.                  *)

IdentifyCalls ==
  /\ pool # << >> /\ turn[Head(pool)].call = NoCall
  /\ Arrive("identify", NoSpeaker, NoInvite, turn[Head(pool)].clip)
  /\ turn' = [turn EXCEPT ![Head(pool)].call = arrived + 1]
  /\ UNCHANGED <<stt, pool, jobs, textOutput, conn, opens>>

Answered(call) == call # NoCall /\ req[call].pc = "answered" /\ req[call].status = 200

\* The answer, or after a time-out or any error an unknown speaker; a call
\* given up runs on in the service.
IdentifyReturns ==
  /\ pool # << >>
  /\ LET u == Head(pool) IN
     \/ /\ Answered(turn[u].call)
        /\ turn' = [turn EXCEPT ![u].future = Last(req[turn[u].call].verdicts)]
     \/ /\ ~Answered(turn[u].call)
        /\ turn' = [turn EXCEPT ![u].future = Unknown]
  /\ pool' = Tail(pool)
  /\ UNCHANGED <<service, stt, jobs, textOutput, conn, opens>>

(* RealtimeService, called by the send loop for each queued event.         *)

Started(c)  == [c EXCEPT !.item = c.next, !.next = c.next + 1]         \* _start_item
Current(c)  == IF c.item = NoItem THEN Started(c) ELSE c               \* _current_item_id
Opened(c)   == IF c.responding THEN c                                  \* begin_turn_response
               ELSE [Started(c) EXCEPT !.responding = TRUE]
Finished(c) == [c EXCEPT !.item = NoItem, !.responding = FALSE]        \* _end_response

OnSpeechStarted ==
  /\ textOutput # << >> /\ Head(textOutput).kind = "speech_started"
  /\ conn' = Started(IF conn.responding THEN Finished(conn) ELSE conn)
  /\ turn' = [turn EXCEPT ![Head(textOutput).turn].item = conn'.item]
  /\ textOutput' = Tail(textOutput)
  /\ UNCHANGED <<service, stt, pool, jobs, opens>>

\* Mutant: the item is read once the response has been opened.
InputItem_Late(c) == Opened(c).item

InputItem(c) == c.item

\* The transcript is announced under the current item, its response is opened
\* and the diarization is handed to the pool, keyed by the item read between.
OnTranscriptionCompleted ==
  /\ textOutput # << >> /\ Head(textOutput).kind = "transcription_completed"
  /\ LET u == Head(textOutput).turn
         c == Current(conn)
     IN /\ turn' = [turn EXCEPT ![u].stage = "completed", ![u].completed = c.item]
        /\ conn' = Opened(c)
        /\ jobs' = Append(jobs, [turn |-> u, item |-> InputItem(c), call |-> NoCall])
  /\ textOutput' = Tail(textOutput)
  /\ UNCHANGED <<service, stt, pool, opens>>

\* No handler is registered for a correction yet: dispatch drops it.
OnTranscriptionCorrected ==
  /\ textOutput # << >> /\ Head(textOutput).kind = "transcription_corrected"
  /\ textOutput' = Tail(textOutput)
  /\ UNCHANGED <<service, turn, stt, pool, jobs, conn, opens>>

\* response.create, or late text of a cancelled generation, opens a response.
OpenResponse ==
  /\ opens < load.opens /\ ~conn.responding
  /\ opens' = opens + 1
  /\ conn' = Opened(conn)
  /\ UNCHANGED <<service, turn, stt, pool, jobs, textOutput>>

FinishResponse ==
  /\ conn.responding
  /\ conn' = Finished(conn)
  /\ UNCHANGED <<service, turn, stt, pool, jobs, textOutput, opens>>

(* _diarize_and_emit on the service's two workers.                         *)

Working == 1..(IF Len(jobs) < DiarizeWorkers THEN Len(jobs) ELSE DiarizeWorkers)

DiarizeCalls(j) ==
  /\ jobs[j].call = NoCall
  /\ Arrive("diarize", NoSpeaker, NoInvite, turn[jobs[j].turn].clip)
  /\ jobs' = [jobs EXCEPT ![j].call = arrived + 1]
  /\ UNCHANGED <<turn, stt, pool, textOutput, conn, opens>>

\* A correction, unless there is nothing to correct or the call has failed.
DiarizeReturns(j) ==
  /\ textOutput' =
       IF Answered(jobs[j].call) /\ req[jobs[j].call].verdicts # << >>
       THEN Append(textOutput, [kind |-> "transcription_corrected", turn |-> jobs[j].turn,
                                item |-> jobs[j].item, call |-> jobs[j].call])
       ELSE textOutput
  /\ jobs' = RemoveAt(jobs, j)
  /\ UNCHANGED <<service, turn, stt, pool, conn, opens>>

SessionNext ==
  \/ \E u \in Turns : Speak(u)
  \/ SttTake \/ SttPosted \/ SttJoin
  \/ IdentifyCalls \/ IdentifyReturns
  \/ OnSpeechStarted \/ OnTranscriptionCompleted \/ OnTranscriptionCorrected
  \/ OpenResponse \/ FinishResponse
  \/ \E j \in Working : DiarizeCalls(j) \/ DiarizeReturns(j)

Next == (ServiceNext /\ UNCHANGED session) \/ SessionNext

\* A workload: how many of the requests, turns and responses it has.
Init(stored) == InitService(stored) /\ InitSession

\* The service's and the handlers' threads run whenever they can; callers,
\* restarts, expiry and the answers the pools wait for owe nothing.
Fairness ==
  /\ \A r \in Requests : WF_vars(Serve(r) /\ UNCHANGED session)
  /\ WF_vars(SttTake) /\ WF_vars(SttPosted) /\ WF_vars(SttJoin)

-----------------------------------------------------------------------------
(* Properties. *)

Label == [decision : {"none", "known", "unknown", "ambiguous"}, id : Ids \cup {NoSpeaker}]

TypeOK ==
  /\ ServiceTypeOK
  /\ turn \in [Turns -> [stage : {"silent", "spoken", "posted", "transcribed", "completed", "dropped"},
                         clip : Clips \cup {<< >>}, item : Nat, completed : Nat,
                         call : 0..MaxRequests, future : Label, label : Label]]
  /\ stt \in [pc : {"idle", "post", "join"}, turn : 0..MaxTurns]
  /\ pool \in Seq(Turns)
  /\ jobs \in Seq([turn : Turns, item : Nat, call : 0..MaxRequests])
  /\ conn \in [item : Nat, responding : BOOLEAN, next : Nat \ {0}]
  /\ opens \in Nat

\* The name a transcript is given is that of a speaker who was enrolled with
\* the voice of this very turn: neither a late answer, nor the backlog of the
\* one worker, nor a call given up gives one turn the label of another.
LabelOfOwnTurn ==
  \A u \in Turns :
    (turn[u].label.decision = "known" /\ (turn[u].call # NoCall => ~req[turn[u].call].torn))
      => <<turn[u].label.id, Head(turn[u].clip)>> \in past.enrolled

\* A correction is keyed to the item its transcript was announced under, and
\* never to the output item of the response opened in the same call ("must be
\* keyed to the input item_id the client just received", service.py 432).
CorrectionOfAnnouncedItem ==
  \A j \in DOMAIN jobs : jobs[j].item = turn[jobs[j].turn].completed

\* No voice, turn or item is given the name of another.
NamesFit == TypeOK /\ NamedForOwnVoice /\ LabelOfOwnTurn /\ CorrectionOfAnnouncedItem

\* Identity never blocks a turn (remote_speaker_client.py 8): an utterance
\* leaves STT even if the speaker-id service never answers.
TurnHandedOn ==
  \A u \in Turns : turn[u].stage = "spoken" ~> turn[u].stage \notin {"spoken", "posted"}

\* Neither a caller of the service nor a turn waits for ever.
EveryoneServed == EveryRequestEnds /\ TurnHandedOn
=============================================================================
