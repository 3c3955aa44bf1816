----------------------------- MODULE ServerLife -----------------------------
(***************************************************************************)
(* The life of the server process (s2s_pipeline.py main, server.py,        *)
(* thread_manager.py, HandlerFactory): the models pre-warmed before any    *)
(* client is served, the signal handlers and the server thread, and what   *)
(* every connection's build takes from the pre-warmed state - in a thread  *)
(* of its own, with one lock around the warm-up of the remote LLM - until  *)
(* a signal stops it all.  Admission, wiring and teardown of a session are *)
(* the subject of Sessions; here a session is built, served and ended.     *)
(***************************************************************************)
EXTENDS Naturals

CONSTANTS Conns,       \* connections, each of which comes once
          MaxSignals   \* bound: SIGINT and SIGTERM received

ASSUME MaxSignalsAssumption == MaxSignals \in Nat

Main == "main"
Nobody == "nobody"
ASSUME NamesAssumption == {Main, Nobody, "template"} \cap Conns = {}

Actors == Conns \cup {Main}   \* who constructs an LLM handler

VARIABLES env,        \* S2S_LLM_WARMUP_PER_SESSION, TURN_DETECTION=smart_turn
          at,         \* where the main thread and each connection's thread are
          template,   \* was the Silero template loaded?
          detector,   \* is there a shared Smart Turn detector?
          warmed,     \* the process-global _warmed
          lock,       \* who holds _warmed_lock
          trips,      \* history: warm-up round trips that came back
          model,      \* the Silero object each session's VAD runs on
          turns,      \* how each session ends turns
          server,     \* the server thread
          stop,       \* the server's stop_event
          exit,       \* uvicorn's should_exit
          asked,      \* shutdown_requested
          joining,    \* the signal handler joins the server thread
          signals

shared == <<env, template, detector>>
warmth == <<warmed, lock, trips>>
gear   == <<model, turns>>
ending == <<stop, exit, asked, joining, signals>>
vars   == <<shared, at, warmth, gear, server, ending>>

Init ==
  /\ env \in [perSession : BOOLEAN, smartTurn : BOOLEAN]
  /\ at = [a \in Actors |-> IF a = Main THEN "vad" ELSE "new"]
  /\ template = FALSE /\ detector = FALSE
  /\ warmed = FALSE /\ lock = Nobody /\ trips = 0
  /\ model = [c \in Conns |-> Nobody] /\ turns = [c \in Conns |-> "none"]
  /\ server = "none"
  /\ stop = FALSE /\ exit = FALSE /\ asked = FALSE /\ joining = FALSE /\ signals = 0

Goes(a, to) == at' = [at EXCEPT ![a] = to]

\* While the signal handler runs, on the main thread, main does nothing else.
MainGoes(from, to) == at[Main] = from /\ ~joining /\ Goes(Main, to)

-----------------------------------------------------------------------------
(* Pre-warming, best effort: a failure leaves the work to the sessions. *)

PrewarmVad ==
  /\ MainGoes("vad", "detector")
  /\ template' \in BOOLEAN
  /\ UNCHANGED <<env, detector, warmth, gear, server, ending>>

\* A detector whose model did not load is not kept.
PrewarmSmartTurn ==
  /\ MainGoes("detector", "lock")
  /\ detector' \in {FALSE, env.smartTurn}
  /\ UNCHANGED <<env, template, warmth, gear, server, ending>>

\* A throwaway LLM handler, constructed for its warm-up alone: WarmUp(Main).

-----------------------------------------------------------------------------
(* ResponsesApiModelHandler.warmup: one round trip per process, under a lock *)
(* that is held across it; a session of its own each when so configured.     *)

After(a) == IF a = Main THEN "signals" ELSE "built"

\* Mutant: the flag is read and set under the lock, the round trip made outside.
MayEnter_Early(a) == at[a] = "lock"

MayEnter(a) == at[a] = "lock" /\ (env.perSession \/ lock = Nobody)

Skip(a) ==
  /\ MayEnter(a) /\ ~env.perSession /\ warmed
  /\ Goes(a, After(a))
  /\ UNCHANGED <<shared, warmth, gear, server, ending>>

BeginWarmUp(a) ==
  /\ MayEnter(a) /\ (env.perSession \/ ~warmed)
  /\ Goes(a, "warming")
  /\ lock' = IF env.perSession THEN lock ELSE a
  /\ UNCHANGED <<shared, warmed, trips, gear, server, ending>>

WarmUpAnswered(a) ==
  /\ at[a] = "warming"
  /\ Goes(a, After(a))
  /\ trips' = trips + 1
  /\ warmed' = ~env.perSession
  /\ lock' = Nobody
  /\ UNCHANGED <<shared, gear, server, ending>>

\* Mutant: the lock is released on success only.
LockAfterFailure_Held(a) == lock

LockAfterFailure(a) == Nobody

\* Mutant: a session goes on with an endpoint that did not answer.
AfterFailure_Served(a) == After(a)

\* prewarm_llm swallows the failure; a session's build fails with it.
AfterFailure(a) == IF a = Main THEN "signals" ELSE "refused"

\* The round trip raises; request_timeout bounds the wait.
WarmUpFails(a) ==
  /\ at[a] = "warming"
  /\ Goes(a, AfterFailure(a))
  /\ lock' = LockAfterFailure(a)
  /\ UNCHANGED <<shared, warmed, trips, gear, server, ending>>

WarmUp(a) == Skip(a) \/ BeginWarmUp(a) \/ WarmUpAnswered(a) \/ WarmUpFails(a)

-----------------------------------------------------------------------------
(* The main thread, once everything is warm, and the signals. *)

\* Before this the signals keep their default meaning.
InstallHandlers ==
  /\ MainGoes("signals", "append")
  /\ UNCHANGED <<shared, warmth, gear, server, ending>>

\* ThreadManager.start, in its two statements: the thread is listed, ...
AppendThread ==
  /\ MainGoes("append", "launch")
  /\ UNCHANGED <<shared, warmth, gear, server, ending>>

\* Mutant: the server brings a stop_event of its own.
StopAtLaunch_Fresh == FALSE

StopAtLaunch == stop

\* ... then started, whatever a signal has asked for meanwhile.
LaunchThread ==
  /\ MainGoes("launch", "wait")
  /\ server' = "starting"
  /\ stop' = StopAtLaunch
  /\ UNCHANGED <<shared, warmth, gear, exit, asked, joining, signals>>

\* ThreadManager.wait: no timeout.
Exit ==
  /\ MainGoes("wait", "exited") /\ server = "ended"
  /\ UNCHANGED <<shared, warmth, gear, server, ending>>

Handled == at[Main] \in {"append", "launch", "wait"}

\* The first signal stops the server and joins its thread; the others are ignored.
Signal ==
  /\ Handled /\ signals < MaxSignals
  /\ signals' = signals + 1
  /\ asked' = TRUE
  /\ stop' = (stop \/ ~asked)
  /\ joining' = (joining \/ (~asked /\ server \notin {"none", "ended"}))
  /\ UNCHANGED <<shared, at, warmth, gear, server, exit>>

\* The join ends with the thread, or after five seconds without it.
JoinReturns ==
  /\ joining /\ joining' = FALSE
  /\ UNCHANGED <<shared, at, warmth, gear, server, stop, exit, asked, signals>>

\* A signal that finds no handler yet ends the process on the spot.
Killed ==
  /\ at[Main] \in {"vad", "detector", "lock", "warming", "signals"}
  /\ signals < MaxSignals
  /\ signals' = signals + 1
  /\ Goes(Main, "exited")
  /\ UNCHANGED <<shared, warmth, gear, server, stop, exit, asked, joining>>

-----------------------------------------------------------------------------
(* The server thread: uvicorn, and the watcher of stop_event. *)

Over == {"new", "refused", "ended"}

Serve ==
  /\ server = "starting" /\ server' = "serving"
  /\ UNCHANGED <<shared, at, warmth, gear, ending>>

\* The port is taken: uvicorn leaves by SystemExit, and the thread is over.
StartUpFails ==
  /\ server = "starting" /\ server' = "ended"
  /\ UNCHANGED <<shared, at, warmth, gear, ending>>

\* Mutant: the watcher looks at the event once, as the server comes up.
Noticed_AtStart == stop /\ server = "starting"

Noticed == stop /\ server \in {"starting", "serving"}

WatchStop ==
  /\ Noticed /\ ~exit /\ exit' = TRUE
  /\ UNCHANGED <<shared, at, warmth, gear, server, stop, asked, joining, signals>>

\* No more connections; the endpoints in progress are waited for.
ServerEnds ==
  /\ server = "serving" /\ exit
  /\ \A c \in Conns : at[c] \in Over
  /\ server' = "ended"
  /\ UNCHANGED <<shared, at, warmth, gear, ending>>

-----------------------------------------------------------------------------
(* A connection: its build, in a worker thread, and its session. *)

Connect(c) ==
  /\ server = "serving" /\ ~exit
  /\ at[c] = "new" /\ Goes(c, "vad")
  /\ UNCHANGED <<shared, warmth, gear, server, ending>>

\* Mutant: the template itself is handed out.
NewVadModel_Shared(c) == {"template"}

\* A deep copy of the template, or, without one, what the handler loads: an
\* object of the session's own either way.
NewVadModel(c) == {c}

BuildVad(c) ==
  /\ at[c] = "vad" /\ Goes(c, "detector")
  /\ model' \in {[model EXCEPT ![c] = m] : m \in IF template THEN NewVadModel(c) ELSE {c}}
  /\ UNCHANGED <<shared, warmth, turns, server, ending>>

\* Loading Silero in the handler raises: no template, or the copy failed.
BuildVadFails(c) ==
  /\ at[c] = "vad" /\ Goes(c, "refused")
  /\ UNCHANGED <<shared, warmth, gear, server, ending>>

\* The shared detector or one of its own; one that is not available leaves the
\* session on silence timing.
DetectorFor(c) ==
  CASE ~env.smartTurn -> {"silence"}
    [] env.smartTurn /\ detector -> {"shared"}
    [] OTHER -> {"own", "silence"}

BuildDetector(c) ==
  /\ at[c] = "detector" /\ Goes(c, "lock")
  /\ turns' \in {[turns EXCEPT ![c] = t] : t \in DetectorFor(c)}
  /\ UNCHANGED <<shared, warmth, model, server, ending>>

\* The endpoint resumes, starts the threads and serves until the server stops
\* or the peer leaves.
Attach(c) ==
  /\ at[c] = "built" /\ Goes(c, "serving")
  /\ UNCHANGED <<shared, warmth, gear, server, ending>>

Leave(c) ==
  /\ at[c] = "serving" /\ Goes(c, "ended")
  /\ UNCHANGED <<shared, warmth, gear, server, ending>>

-----------------------------------------------------------------------------
MainThread ==
  \/ PrewarmVad \/ PrewarmSmartTurn \/ WarmUp(Main)
  \/ InstallHandlers \/ AppendThread \/ LaunchThread \/ Exit \/ JoinReturns

ServerThread == Serve \/ StartUpFails \/ ServerEnds

Worker(c) == BuildVad(c) \/ BuildVadFails(c) \/ BuildDetector(c) \/ WarmUp(c) \/ Attach(c)

Next ==
  \/ MainThread \/ Signal \/ Killed
  \/ ServerThread \/ WatchStop
  \/ \E c \in Conns : Connect(c) \/ Worker(c) \/ Leave(c)

Spec == Init /\ [][Next]_vars

\* Threads run on, and a request in flight is answered or times out; a peer need
\* not come nor leave, but once stop_event is set its receive loop ends.
FairSpec ==
  /\ Spec
  /\ WF_vars(MainThread) /\ WF_vars(ServerThread) /\ WF_vars(WatchStop)
  /\ \A c \in Conns : WF_vars(Worker(c)) /\ WF_vars(stop /\ Leave(c))

-----------------------------------------------------------------------------
(* Properties. *)

\* The type invariant.
TypeOK ==
  /\ env \in [perSession : BOOLEAN, smartTurn : BOOLEAN]
  /\ at \in [Actors -> {"new", "vad", "detector", "lock", "warming", "built", "serving",
                        "refused", "ended", "signals", "append", "launch", "wait", "exited"}]
  /\ template \in BOOLEAN /\ detector \in BOOLEAN
  /\ warmed \in BOOLEAN /\ lock \in Actors \cup {Nobody} /\ trips \in Nat
  /\ model \in [Conns -> Conns \cup {Nobody}]
  /\ turns \in [Conns -> {"none", "silence", "shared", "own"}]
  /\ server \in {"none", "starting", "serving", "ended"}
  /\ stop \in BOOLEAN /\ exit \in BOOLEAN /\ asked \in BOOLEAN /\ joining \in BOOLEAN
  /\ signals \in 0..MaxSignals

\* However many builds race, the remote LLM is warmed once per process: a build
\* that finds another one warming waits for it, and after a failed warm-up the
\* next build makes the round trip again.
WarmedOnce ==
  ~env.perSession =>
    /\ trips = (IF warmed THEN 1 ELSE 0)
    /\ \A a, b \in Actors : at[a] = "warming" /\ at[b] = "warming" => a = b

\* A session that reaches its client runs on a Silero model nobody else runs on,
\* ends its turns by silence only where no detector was warmed, and has an LLM
\* endpoint that answered, whatever failed while the server started.
SessionEquipped ==
  \A c \in Conns :
    at[c] \in {"serving", "ended"} =>
      /\ model[c] \notin {"template", Nobody}
      /\ \A d \in Conns \ {c} : model[d] # model[c]
      /\ turns[c] = "silence" => ~env.smartTurn \/ ~detector
      /\ trips > 0

\* Every connect is answered: builds that queue behind the warm-up of another
\* one, even a failing one, all get a session or an error.
ConnectAnswered ==
  \A c \in Conns :
    at[c] \in {"vad", "detector", "lock", "warming", "built"} ~> at[c] \in {"serving", "refused", "ended"}

\* A signal the process handles ends it, even one that arrives before the server
\* thread is listed, started or has opened its port.
SignalEndsProcess == asked ~> at[Main] = "exited"

\* Neither a client nor an operator is left waiting.
EveryoneAnswered == ConnectAnswered /\ SignalEndsProcess
=============================================================================
