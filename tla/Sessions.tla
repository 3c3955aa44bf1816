------------------------------ MODULE Sessions ------------------------------
(***************************************************************************)
(* The life of the connections of one server: admission, the construction  *)
(* of each connection's pipeline in a worker thread from handler arguments *)
(* that all builds share, the send task, the idle reaper, the dead-thread  *)
(* supervisor, the teardown in the endpoint's finally block, and the       *)
(* server's own shutdown (websocket_router.py, session_pipeline.py).  The  *)
(* event loop runs one coroutine at a time up to its next await: a step    *)
(* here is the code between two awaits, or one access of a build thread to *)
(* the shared arguments.                                                   *)
(***************************************************************************)
EXTENDS Naturals, FiniteSets

CONSTANTS Conns,        \* connections, each of which comes once
          MaxSessions   \* S2S_MAX_SESSIONS

ASSUME MaxSessionsAssumption == MaxSessions \in Nat \ {0}

Nobody == "nobody"
ASSUME NobodyAssumption == Nobody \notin Conns

VARIABLES pc,           \* the endpoint coroutine of each connection
          open,         \* is the socket open?
          build,        \* the build thread of each connection
          args,         \* the shared arguments: whose text queue, whose cancel scope
          wired,        \* what each pipeline's handlers were built with
          overlapped,   \* history: connections built while another build ran
          send,         \* the send task
          threads,      \* the handler threads of the pipeline
          registered,   \* RealtimeService._conns
          attached,     \* RealtimeService._pipelines
          sessions,     \* app.state.sessions
          websockets,   \* app.state.websockets
          limit,        \* max_sessions of create_app
          stop,         \* the server's stop_event
          lifespan,     \* "up", "draining", "down"
          todo,         \* sessions the shutdown has still to stop
          current       \* the one whose send task it awaits

endpoint == <<pc, open>>
building == <<build, args, wired, overlapped>>
roster   == <<registered, attached, sessions, websockets>>
server   == <<limit, stop, lifespan, todo, current>>
vars     == <<endpoint, building, send, threads, roster, server>>

Unwired == [text |-> Nobody, llm |-> Nobody, tts |-> Nobody]

Init ==
  /\ pc = [c \in Conns |-> "new"] /\ open = [c \in Conns |-> FALSE]
  /\ build = [c \in Conns |-> "none"]
  /\ args = [text |-> Nobody, scope |-> Nobody]
  /\ wired = [c \in Conns |-> Unwired]
  /\ overlapped = {}
  /\ send = [c \in Conns |-> "none"] /\ threads = [c \in Conns |-> "none"]
  /\ registered = {} /\ attached = {} /\ sessions = {} /\ websockets = {}
  /\ limit \in {1, MaxSessions}      \* effective_max_sessions: 1 with a local model
  /\ stop = FALSE /\ lifespan = "up" /\ todo = {} /\ current = Nobody

-----------------------------------------------------------------------------
(* Admission. *)

\* Mutant: the pipelines attached are counted, as before builds left the loop.
AtCapacity_Attached == Cardinality(attached) >= limit

\* register() comes first: the newcomer counts itself.
AtCapacity == Cardinality(registered) + 1 > limit

Building == {c \in Conns : build[c] \notin {"none", "done", "failed"}}

\* The endpoint up to its first await after the capacity check: turned away
\* (and unregistered), or building.
Connect(c) ==
  /\ pc[c] = "new" /\ ~stop
  /\ IF AtCapacity
     THEN /\ pc' = [pc EXCEPT ![c] = "gone"]
          /\ UNCHANGED <<open, building, roster>>
     ELSE /\ pc' = [pc EXCEPT ![c] = "building"]
          /\ open' = [open EXCEPT ![c] = TRUE]
          /\ registered' = registered \cup {c}
          /\ build' = [build EXCEPT ![c] = "text"]
          /\ overlapped' = IF Building = {} THEN overlapped
                           ELSE overlapped \cup Building \cup {c}
          /\ UNCHANGED <<args, wired, attached, sessions, websockets>>
  /\ UNCHANGED <<send, threads, server>>

-----------------------------------------------------------------------------
(* build_session_pipeline, in a thread of its own.  It writes this session's *)
(* text queue and cancel scope into the shared arguments, then constructs    *)
(* the handlers from them; constructing the VAD takes seconds.               *)

After(step) ==
  CASE step = "text" -> "scope" [] step = "scope" -> "vad" [] step = "vad" -> "llm"
    [] step = "llm" -> "tts"    [] step = "tts" -> "done"

BuildStep(c, step) ==
  /\ build[c] = step
  /\ build' = [build EXCEPT ![c] = After(step)]
  /\ UNCHANGED <<endpoint, overlapped, send, threads, roster, server>>

WireText(c) ==
  /\ BuildStep(c, "text")
  /\ args' = [args EXCEPT !.text = c]
  /\ UNCHANGED wired

\* Mutant: the scope is wired by the first build only.
ScopeFor_First(c) == IF args.scope = Nobody THEN c ELSE args.scope

ScopeFor(c) == c

WireScope(c) ==
  /\ BuildStep(c, "scope")
  /\ args' = [args EXCEPT !.scope = ScopeFor(c)]
  /\ UNCHANGED wired

BuildVad(c) ==
  /\ BuildStep(c, "vad")
  /\ wired' = [wired EXCEPT ![c].text = args.text]
  /\ UNCHANGED args

BuildLlm(c) ==
  /\ BuildStep(c, "llm")
  /\ wired' = [wired EXCEPT ![c].llm = args.scope]
  /\ UNCHANGED args

BuildTts(c) ==
  /\ BuildStep(c, "tts")
  /\ wired' = [wired EXCEPT ![c].tts = args.scope]
  /\ UNCHANGED args

\* Constructing a handler raises.
BuildFails(c) ==
  /\ build[c] \in {"vad", "llm", "tts"}
  /\ build' = [build EXCEPT ![c] = "failed"]
  /\ UNCHANGED <<endpoint, args, wired, overlapped, send, threads, roster, server>>

-----------------------------------------------------------------------------
(* The endpoint. *)

\* The build is awaited; what follows runs up to sending session.created.
Attach(c) ==
  /\ pc[c] = "building" /\ build[c] = "done"
  /\ pc' = [pc EXCEPT ![c] = "live"]
  /\ threads' = [threads EXCEPT ![c] = "running"]
  /\ attached' = attached \cup {c} /\ sessions' = sessions \cup {c}
  /\ websockets' = websockets \cup {c}
  /\ send' = [send EXCEPT ![c] = "running"]
  /\ UNCHANGED <<open, building, registered, server>>

\* Mutant: a registration outlives its endpoint when the build failed.
Unregistered_Attached(c) == IF c \in attached THEN registered \ {c} ELSE registered

Unregistered(c) == registered \ {c}

\* The finally block when there is no pipeline: the build failed, or the server
\* stops and cancels the endpoint (the build thread runs on by itself).
Abandon(c) ==
  /\ pc[c] = "building"
  /\ build[c] = "failed" \/ stop
  /\ pc' = [pc EXCEPT ![c] = "gone"]
  /\ open' = [open EXCEPT ![c] = FALSE]
  /\ registered' = Unregistered(c)
  /\ UNCHANGED <<building, send, threads, attached, sessions, websockets, server>>

Cancelled(task) == IF task = "running" THEN "cancelling" ELSE task

\* The receive loop ends (the peer or the server closed the socket, or the
\* server stops): the finally block cancels the send task and awaits it.
Leave(c) ==
  /\ pc[c] = "live"
  /\ ~open[c] \/ stop
  /\ pc' = [pc EXCEPT ![c] = "ending"]
  /\ send' = [send EXCEPT ![c] = Cancelled(send[c])]
  /\ UNCHANGED <<open, building, threads, roster, server>>

\* Mutant: the cancelled task is not awaited.
MayTearDown_Now(c) == TRUE

MayTearDown(c) == send[c] = "ended"

\* Mutant: nobody is told to stop the threads.
Stopping_Left(status) == status

\* pipeline.shutdown in a daemon thread; a second call finds nothing to do.
Stopping(status) == IF status = "stopped" THEN status ELSE "stopping"

\* Mutant: the socket is left in the roster.
Forgotten_Kept(c) == websockets

Forgotten(c) == websockets \ {c}

\* The rest of the finally block.
TearDown(c) ==
  /\ pc[c] = "ending" /\ MayTearDown(c)
  /\ pc' = [pc EXCEPT ![c] = "gone"]
  /\ open' = [open EXCEPT ![c] = FALSE]
  /\ attached' = attached \ {c} /\ registered' = registered \ {c}
  /\ sessions' = sessions \ {c} /\ websockets' = Forgotten(c)
  /\ threads' = [threads EXCEPT ![c] = Stopping(threads[c])]
  /\ UNCHANGED <<building, send, server>>

-----------------------------------------------------------------------------
(* What ends a session. *)

\* The peer hangs up: during a build nobody is receiving, and nobody notices.
HangUp(c) ==
  /\ open[c]
  /\ open' = [open EXCEPT ![c] = FALSE]
  /\ UNCHANGED <<pc, building, send, threads, roster, server>>

\* _idle_reaper closes the socket of a session the client no longer talks on.
Reap(c) ==
  /\ c \in registered \cap websockets /\ open[c] /\ ~stop
  /\ open' = [open EXCEPT ![c] = FALSE]
  /\ UNCHANGED <<pc, building, send, threads, roster, server>>

\* A handler thread leaves its loop by an exception.
Crash(c) ==
  /\ threads[c] = "running"
  /\ threads' = [threads EXCEPT ![c] = "crashed"]
  /\ UNCHANGED <<endpoint, building, send, roster, server>>

\* Mutant: the supervisor only stops sending.
OpenAfterCrash_Kept(c) == open[c]

OpenAfterCrash(c) == FALSE

\* The supervisor in the send loop closes the socket and ends the loop.
Supervise(c) ==
  /\ send[c] = "running" /\ threads[c] = "crashed" /\ ~stop
  /\ open' = [open EXCEPT ![c] = OpenAfterCrash(c)]
  /\ send' = [send EXCEPT ![c] = "ended"]
  /\ UNCHANGED <<pc, building, threads, roster, server>>

\* The send loop ends, cancelled or because the server stops.
SendEnds(c) ==
  /\ send[c] = "cancelling" \/ (send[c] = "running" /\ stop)
  /\ send' = [send EXCEPT ![c] = "ended"]
  /\ UNCHANGED <<endpoint, building, threads, roster, server>>

ThreadsStop(c) ==
  /\ threads[c] = "stopping"
  /\ threads' = [threads EXCEPT ![c] = "stopped"]
  /\ UNCHANGED <<endpoint, building, send, roster, server>>

-----------------------------------------------------------------------------
(* The server's shutdown: the lifespan context exits while connections may   *)
(* still be building, live or ending.                                        *)

Stop ==
  /\ ~stop
  /\ stop' = TRUE
  /\ UNCHANGED <<endpoint, building, send, threads, roster, limit, lifespan, todo, current>>

Drain ==
  /\ stop /\ lifespan = "up"
  /\ lifespan' = "draining"
  /\ todo' = sessions
  /\ UNCHANGED <<endpoint, building, send, threads, roster, limit, stop, current>>

DrainNext(c) ==
  /\ lifespan = "draining" /\ current = Nobody /\ c \in todo
  /\ current' = c
  /\ send' = [send EXCEPT ![c] = Cancelled(send[c])]
  /\ UNCHANGED <<endpoint, building, threads, roster, limit, stop, lifespan, todo>>

\* Its send task has ended: close the socket if it is still known, and stop the
\* threads, which the endpoint may be doing too.
DrainStop(c) ==
  /\ current = c /\ MayTearDown(c)
  /\ current' = Nobody /\ todo' = todo \ {c}
  /\ open' = [open EXCEPT ![c] = FALSE]
  /\ threads' = [threads EXCEPT ![c] = Stopping(threads[c])]
  /\ UNCHANGED <<pc, building, send, roster, limit, stop, lifespan>>

Drained ==
  /\ lifespan = "draining" /\ todo = {}
  /\ lifespan' = "down"
  /\ UNCHANGED <<endpoint, building, send, threads, roster, limit, stop, todo, current>>

-----------------------------------------------------------------------------
Build(c) == WireText(c) \/ WireScope(c) \/ BuildVad(c) \/ BuildLlm(c) \/ BuildTts(c)

Endpoint(c) == Attach(c) \/ Abandon(c) \/ Leave(c) \/ TearDown(c)

Background(c) == Supervise(c) \/ SendEnds(c) \/ ThreadsStop(c)

Shutdown == Drain \/ Drained \/ \E c \in Conns : DrainNext(c) \/ DrainStop(c)

Next ==
  \/ \E c \in Conns :
       \/ Connect(c) \/ Build(c) \/ BuildFails(c) \/ Endpoint(c) \/ Background(c)
       \/ HangUp(c) \/ Reap(c) \/ Crash(c)
  \/ Stop \/ Shutdown

Spec == Init /\ [][Next]_vars

\* Threads and coroutines run on; peers, crashes and the operator need not.
FairSpec ==
  /\ Spec
  /\ \A c \in Conns : WF_vars(Build(c)) /\ WF_vars(Endpoint(c)) /\ WF_vars(Background(c))
  /\ WF_vars(Shutdown)

-----------------------------------------------------------------------------
(* Properties. *)

\* The type invariant, with what ties the four rosters together.
TypeOK ==
  /\ pc \in [Conns -> {"new", "building", "live", "ending", "gone"}]
  /\ open \in [Conns -> BOOLEAN]
  /\ build \in [Conns -> {"none", "text", "scope", "vad", "llm", "tts", "done", "failed"}]
  /\ args \in [text : Conns \cup {Nobody}, scope : Conns \cup {Nobody}]
  /\ wired \in [Conns -> [text : Conns \cup {Nobody}, llm : Conns \cup {Nobody},
                          tts : Conns \cup {Nobody}]]
  /\ send \in [Conns -> {"none", "running", "cancelling", "ended"}]
  /\ threads \in [Conns -> {"none", "running", "crashed", "stopping", "stopped"}]
  /\ overlapped \subseteq Conns /\ registered \subseteq Conns
  /\ attached \subseteq registered /\ sessions = attached /\ websockets = attached
  /\ limit \in Nat /\ stop \in BOOLEAN /\ lifespan \in {"up", "draining", "down"}
  /\ todo \subseteq Conns /\ current \in todo \cup {Nobody}

\* Simultaneous connects are never over-admitted although the builds take
\* seconds off the loop: at most max_sessions endpoints hold or build a pipeline.
CapacityHeld ==
  Cardinality({c \in Conns : pc[c] \in {"building", "live", "ending"}}) <= limit

Own(c) == [text |-> c, llm |-> c, tts |-> c]

\* A pipeline built while no other was under construction is wired to its own
\* text queue and cancel scope, whatever ran before it.
OwnWiringAlone ==
  \A c \in Conns : pc[c] \in {"live", "ending"} /\ c \notin overlapped => wired[c] = Own(c)

\* The docstring of create_app (websocket_router.py:143): every session has its
\* own queues and cancel scope.
Isolated == \A c \in Conns : pc[c] \in {"live", "ending"} => wired[c] = Own(c)

\* Whoever tears a pipeline down, the endpoint or the server's shutdown, its
\* send loop has ended: no PIPELINE_END is drained onto a closing socket.
SendStopsFirst ==
  \A c \in Conns : threads[c] \in {"stopping", "stopped"} => send[c] = "ended"

\* Handler threads never outlive their endpoint unattended.
NoOrphanThreads ==
  \A c \in Conns : threads[c] \in {"running", "crashed"} => pc[c] \in {"live", "ending"}

\* Rosters, wiring and threads of every session hang together.
SessionsSound == TypeOK /\ OwnWiringAlone /\ SendStopsFirst /\ NoOrphanThreads

\* A connection that ends, by whatever party and at whatever point, gives its
\* slot back.
SlotFreed == \A c \in Conns : c \in registered /\ ~open[c] ~> c \notin registered

\* A crashed handler fails its session instead of leaving it half dead.
FailFast == \A c \in Conns : threads[c] = "crashed" ~> pc[c] = "gone"

\* After a stop no pipeline runs, builds in progress included.
AllStopped == stop ~> [](\A c \in Conns : threads[c] \in {"none", "stopped"})

\* Everyone who has to leave does, and leaves nothing behind.
EveryoneLeaves == SlotFreed /\ FailFast /\ AllStopped
=============================================================================
