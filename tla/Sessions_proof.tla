--------------------------- MODULE Sessions_proof ---------------------------
(***************************************************************************)
(* Sessions, for any set of connections, finite or not, and any capacity:  *)
(* the server never holds more sessions than it may, and the rosters, the  *)
(* wiring and the threads of the sessions hang together.                   *)
(*                                                                         *)
(* The inductive invariant says which endpoints are in which roster, that  *)
(* the registered ones are as few as the capacity allows, that a pipeline  *)
(* is attached only when it is built, and how far the shared arguments     *)
(* belong to the one build in progress.                                    *)
(***************************************************************************)
EXTENDS Sessions, FiniteSetTheorems, TLAPS

Holding == {c \in Conns : pc[c] \in {"building", "live", "ending"}}
Serving == {c \in Conns : pc[c] \in {"live", "ending"}}

\* Who is in which roster; the shutdown awaits nobody before it has begun.
Rostered ==
  /\ registered = Holding /\ attached = Serving
  /\ lifespan = "up" => current = Nobody

\* The registered endpoints are counted, and few enough.
Counted == IsFiniteSet(registered) /\ Cardinality(registered) <= limit

\* An endpoint serves a pipeline that is built.
Built == \A c \in Conns : pc[c] \in {"live", "ending"} => build[c] = "done"

\* A build that runs alone finds in the arguments, and leaves in its handlers,
\* what it wrote itself.
WiresOwn(c) ==
  /\ build[c] \in {"scope", "vad"} => args.text = c
  /\ build[c] \in {"vad", "llm", "tts"} => args.scope = c
  /\ build[c] \in {"llm", "tts", "done"} => wired[c].text = c
  /\ build[c] \in {"tts", "done"} => wired[c].llm = c
  /\ build[c] = "done" => wired[c].tts = c

Alone ==
  \A c \in Conns \ overlapped : WiresOwn(c) /\ (c \in Building => Building = {c})

IInv ==
  TypeOK /\ Rostered /\ Counted /\ Built /\ Alone /\ SendStopsFirst /\ NoOrphanThreads

-----------------------------------------------------------------------------
(* Types and rosters. *)

LEMMA TypesInitially == Init => TypeOK /\ Rostered
<1> SUFFICES ASSUME Init PROVE TypeOK /\ Rostered
  OBVIOUS
<1>1. limit \in Nat
  BY MaxSessionsAssumption DEF Init
<1>2. wired \in [Conns -> [text : Conns \cup {Nobody}, llm : Conns \cup {Nobody},
                          tts : Conns \cup {Nobody}]]
  BY DEF Init, Unwired
<1>3. TypeOK
  BY <1>1, <1>2 DEF Init, TypeOK
<1>4. Holding = {} /\ Serving = {}
  BY DEF Init, Holding, Serving
<1> QED  BY <1>3, <1>4 DEF Init, Rostered

\* Every step keeps the types and the rosters.
LEMMA TypeStep ==
  ASSUME TypeOK, Rostered, [Next]_vars
  PROVE  TypeOK' /\ Rostered'
<1> USE DEF TypeOK, Rostered, Holding, Serving, endpoint, building, roster, server
<1>1. ASSUME NEW c \in Conns, Connect(c) PROVE TypeOK' /\ Rostered'
  <2>1. CASE AtCapacity
    BY <1>1, <2>1 DEF Connect
  <2>2. CASE ~AtCapacity
    <3>1. Building \subseteq Conns
      BY DEF Building
    <3>2. /\ pc' = [pc EXCEPT ![c] = "building"]
          /\ open' = [open EXCEPT ![c] = TRUE]
          /\ build' = [build EXCEPT ![c] = "text"]
          /\ registered' = registered \cup {c} /\ overlapped' \subseteq Conns
          /\ UNCHANGED <<args, wired, attached, sessions, websockets, send, threads, limit,
                         stop, lifespan, todo, current>>
      BY <1>1, <2>2, <3>1 DEF Connect
    <3>3. Holding' = Holding \cup {c} /\ Serving' = Serving
      BY <1>1, <3>2 DEF Connect
    <3>4. Rostered'
      BY <3>2, <3>3
    <3> QED  BY <3>2, <3>4
  <2> QED  BY <2>1, <2>2
<1>2. ASSUME NEW c \in Conns, Build(c) PROVE TypeOK' /\ Rostered'
  <2>1. /\ UNCHANGED <<pc, open, overlapped, send, threads, registered, attached, sessions,
                       websockets, limit, stop, lifespan, todo, current>>
        /\ build' \in [Conns -> {"none", "text", "scope", "vad", "llm", "tts", "done",
                                 "failed"}]
    BY <1>2 DEF Build, BuildStep, WireText, WireScope, BuildVad, BuildLlm, BuildTts, After
  <2>2. args' \in [text : Conns \cup {Nobody}, scope : Conns \cup {Nobody}]
    BY <1>2 DEF Build, WireText, WireScope, BuildVad, BuildLlm, BuildTts, ScopeFor
  <2>3. wired' \in [Conns -> [text : Conns \cup {Nobody}, llm : Conns \cup {Nobody},
                             tts : Conns \cup {Nobody}]]
    BY <1>2 DEF Build, WireText, WireScope, BuildVad, BuildLlm, BuildTts
  <2>4. TypeOK'
    BY <2>1, <2>2, <2>3
  <2> QED  BY <2>1, <2>4
<1>3. ASSUME NEW c \in Conns, BuildFails(c) PROVE TypeOK' /\ Rostered'
  BY <1>3 DEF BuildFails
<1>4. ASSUME NEW c \in Conns, Attach(c) PROVE TypeOK' /\ Rostered'
  BY <1>4 DEF Attach
<1>5. ASSUME NEW c \in Conns, Abandon(c) PROVE TypeOK' /\ Rostered'
  BY <1>5 DEF Abandon, Unregistered
<1>6. ASSUME NEW c \in Conns, Leave(c) PROVE TypeOK' /\ Rostered'
  BY <1>6 DEF Leave, Cancelled
<1>7. ASSUME NEW c \in Conns, TearDown(c) PROVE TypeOK' /\ Rostered'
  BY <1>7 DEF TearDown, Forgotten, Stopping
<1>8. ASSUME NEW c \in Conns, Background(c) PROVE TypeOK' /\ Rostered'
  <2>1. CASE Supervise(c)
    BY <2>1 DEF Supervise, OpenAfterCrash
  <2>2. CASE SendEnds(c)
    BY <2>2 DEF SendEnds
  <2>3. CASE ThreadsStop(c)
    BY <2>3 DEF ThreadsStop
  <2> QED  BY <1>8, <2>1, <2>2, <2>3 DEF Background
<1>9. ASSUME NEW c \in Conns, HangUp(c) \/ Reap(c) \/ Crash(c) PROVE TypeOK' /\ Rostered'
  <2>1. CASE HangUp(c)
    BY <2>1 DEF HangUp
  <2>2. CASE Reap(c)
    BY <2>2 DEF Reap
  <2>3. CASE Crash(c)
    BY <2>3 DEF Crash
  <2> QED  BY <1>9, <2>1, <2>2, <2>3
<1>10. ASSUME NEW c \in Conns, DrainNext(c) \/ DrainStop(c) PROVE TypeOK' /\ Rostered'
  <2>1. CASE DrainNext(c)
    BY <2>1 DEF DrainNext, Cancelled
  <2>2. CASE DrainStop(c)
    BY <2>2 DEF DrainStop, Stopping
  <2> QED  BY <1>10, <2>1, <2>2
<1>11. ASSUME Stop \/ Drain \/ Drained PROVE TypeOK' /\ Rostered'
  BY <1>11 DEF Stop, Drain, Drained
<1>12. ASSUME UNCHANGED vars PROVE TypeOK' /\ Rostered'
  BY <1>12 DEF vars
<1> QED
  BY <1>1, <1>2, <1>3, <1>4, <1>5, <1>6, <1>7, <1>8, <1>9, <1>10, <1>11, <1>12
     DEF Next, Endpoint, Shutdown

-----------------------------------------------------------------------------
(* The capacity. *)

\* Only an admission adds to the registered, and it has counted them.
LEMMA CountStep ==
  ASSUME TypeOK, Counted, [Next]_vars
  PROVE  Counted'
<1> USE DEF Counted
<1>1. ASSUME NEW c \in Conns, Connect(c) PROVE Counted'
  <2>1. CASE AtCapacity
    BY <1>1, <2>1 DEF Connect, roster, server
  <2>2. CASE ~AtCapacity
    <3>1. registered' = registered \cup {c} /\ limit' = limit
      BY <1>1, <2>2 DEF Connect, server
    <3>2. Cardinality(registered) + 1 <= limit
      <4>1. Cardinality(registered) \in Nat /\ limit \in Nat
        BY FS_CardinalityType DEF TypeOK
      <4> QED  BY <2>2, <4>1 DEF AtCapacity
    <3>3. IsFiniteSet(registered') /\ Cardinality(registered') <= Cardinality(registered) + 1
      <4>1. Cardinality(registered) \in Nat
        BY FS_CardinalityType
      <4> QED  BY <3>1, <4>1, FS_AddElement
    <3>4. {Cardinality(registered), Cardinality(registered')} \subseteq Nat /\ limit \in Nat
      BY <3>3, FS_CardinalityType DEF TypeOK
    <3> QED  BY <3>1, <3>2, <3>3, <3>4
  <2> QED  BY <2>1, <2>2
<1>2. ASSUME NEW c \in Conns, registered' = registered \ {c}, limit' = limit
      PROVE  Counted'
  <2>1. /\ IsFiniteSet(registered') /\ Cardinality(registered') <= Cardinality(registered)
    <3>1. Cardinality(registered) \in Nat
      BY FS_CardinalityType
    <3> QED  BY <1>2, <3>1, FS_RemoveElement
  <2>2. {Cardinality(registered), Cardinality(registered')} \subseteq Nat /\ limit \in Nat
    BY <2>1, FS_CardinalityType DEF TypeOK
  <2> QED  BY <1>2, <2>1, <2>2
<1>3. ASSUME NEW c \in Conns, Abandon(c) \/ TearDown(c) PROVE Counted'
  BY <1>2, <1>3 DEF Abandon, TearDown, Unregistered, server
<1>4. ASSUME UNCHANGED <<registered, limit>> PROVE Counted'
  BY <1>4
<1>5. ASSUME NEW c \in Conns,
             \/ Build(c) \/ BuildFails(c) \/ Attach(c) \/ Leave(c) \/ Background(c)
             \/ HangUp(c) \/ Reap(c) \/ Crash(c) \/ DrainNext(c) \/ DrainStop(c)
      PROVE  UNCHANGED <<registered, limit>>
  BY <1>5 DEF Build, BuildStep, WireText, WireScope, BuildVad, BuildLlm, BuildTts, BuildFails,
     Attach, Leave, Background, Supervise, SendEnds, ThreadsStop, HangUp, Reap, Crash,
     DrainNext, DrainStop, roster, server
<1>6. ASSUME Stop \/ Drain \/ Drained \/ UNCHANGED vars PROVE UNCHANGED <<registered, limit>>
  BY <1>6 DEF Stop, Drain, Drained, vars, roster, server
<1> QED  BY <1>1, <1>3, <1>4, <1>5, <1>6 DEF Next, Endpoint, Shutdown

-----------------------------------------------------------------------------
(* The builds. *)

\* A build step leaves everything of the other builds alone, and nothing else
\* touches a build but the admission that starts it.
LEMMA BuiltStep ==
  ASSUME TypeOK, Built, [Next]_vars
  PROVE  Built'
<1> USE DEF Built, TypeOK, building, endpoint
<1>1. ASSUME NEW c \in Conns, Connect(c) PROVE Built'
  <2>1. CASE AtCapacity
    BY <1>1, <2>1 DEF Connect
  <2>2. CASE ~AtCapacity
    BY <1>1, <2>2 DEF Connect
  <2> QED  BY <2>1, <2>2
<1>2. ASSUME NEW c \in Conns, Build(c) \/ BuildFails(c) PROVE Built'
  <2>1. /\ pc' = pc /\ build[c] # "done"
        /\ \A d \in Conns \ {c} : build'[d] = build[d]
    BY <1>2 DEF Build, BuildStep, WireText, WireScope, BuildVad, BuildLlm, BuildTts, BuildFails
  <2> QED  BY <2>1
<1>3. ASSUME NEW c \in Conns, Attach(c) \/ Abandon(c) \/ Leave(c) \/ TearDown(c) PROVE Built'
  BY <1>3 DEF Attach, Abandon, Leave, TearDown
<1>4. ASSUME UNCHANGED <<pc, build>> PROVE Built'
  BY <1>4
<1>5. ASSUME NEW c \in Conns,
             Background(c) \/ HangUp(c) \/ Reap(c) \/ Crash(c) \/ DrainNext(c) \/ DrainStop(c)
      PROVE  UNCHANGED <<pc, build>>
  BY <1>5 DEF Background, Supervise, SendEnds, ThreadsStop, HangUp, Reap, Crash, DrainNext,
     DrainStop
<1>6. ASSUME Stop \/ Drain \/ Drained \/ UNCHANGED vars PROVE UNCHANGED <<pc, build>>
  BY <1>6 DEF Stop, Drain, Drained, vars
<1> QED  BY <1>1, <1>2, <1>3, <1>4, <1>5, <1>6 DEF Next, Endpoint, Shutdown

\* A build that runs alone stays alone or is counted among the overlapped.
LEMMA AloneStep ==
  ASSUME TypeOK, Alone, [Next]_vars
  PROVE  Alone'
<1>1. ASSUME NEW c \in Conns, Connect(c), ~AtCapacity PROVE Alone'
  <2>1. /\ build' = [build EXCEPT ![c] = "text"] /\ UNCHANGED <<args, wired>>
        /\ overlapped' = IF Building = {} THEN overlapped
                         ELSE overlapped \cup Building \cup {c}
    BY <1>1 DEF Connect
  <2>2. Building' = Building \cup {c}
    BY <2>1 DEF Building, TypeOK
  <2> SUFFICES ASSUME NEW d \in Conns \ overlapped'
               PROVE  WiresOwn(d)' /\ (d \in Building' => Building' = {d})
    BY DEF Alone
  <2>3. CASE d = c
    <3>1. build'[d] = "text"
      BY <2>1, <2>3 DEF TypeOK
    <3>2. Building = {}
      BY <2>1, <2>3
    <3> QED  BY <2>2, <2>3, <3>1, <3>2 DEF WiresOwn
  <2>4. CASE d # c
    <3>1. d \notin overlapped /\ d \notin Building
      BY <2>1
    <3>2. build'[d] = build[d] /\ d \notin Building'
      BY <2>1, <2>2, <2>4, <3>1 DEF TypeOK
    <3> QED  BY <2>1, <3>1, <3>2 DEF Alone, WiresOwn
  <2> QED  BY <2>3, <2>4
<1>2. ASSUME NEW c \in Conns, Build(c) \/ BuildFails(c) PROVE Alone'
  <2>1. /\ c \in Building /\ overlapped' = overlapped /\ Building' \subseteq Building
        /\ \A d \in Conns \ {c} : build'[d] = build[d] /\ wired'[d] = wired[d]
    BY <1>2 DEF Build, BuildStep, WireText, WireScope, BuildVad, BuildLlm, BuildTts, BuildFails,
       After, Building, TypeOK
  <2> SUFFICES ASSUME NEW d \in Conns \ overlapped
               PROVE  WiresOwn(d)' /\ (d \in Building' => Building' = {d})
    BY <2>1 DEF Alone
  <2>2. d \in Building' => Building' = {d}
    BY <2>1 DEF Alone
  <2>3. CASE d # c
    <3>1. build[d] \in {"none", "done", "failed"}
      BY <2>1, <2>3 DEF Alone, Building, TypeOK
    <3> QED  BY <2>1, <2>2, <2>3, <3>1 DEF Alone, WiresOwn
  <2>4. CASE d = c
    <3>1. WiresOwn(c)
      BY <2>4 DEF Alone
    <3>2. CASE BuildFails(c)
      BY <3>2, <2>2, <2>4 DEF BuildFails, WiresOwn, TypeOK
    <3>3. CASE WireText(c)
      BY <3>1, <3>3, <2>2, <2>4 DEF WireText, BuildStep, After, WiresOwn, TypeOK
    <3>4. CASE WireScope(c)
      BY <3>1, <3>4, <2>2, <2>4 DEF WireScope, BuildStep, After, ScopeFor, WiresOwn, TypeOK
    <3>5. CASE BuildVad(c)
      BY <3>1, <3>5, <2>2, <2>4 DEF BuildVad, BuildStep, After, WiresOwn, TypeOK
    <3>6. CASE BuildLlm(c)
      BY <3>1, <3>6, <2>2, <2>4 DEF BuildLlm, BuildStep, After, WiresOwn, TypeOK
    <3>7. CASE BuildTts(c)
      BY <3>1, <3>7, <2>2, <2>4 DEF BuildTts, BuildStep, After, WiresOwn, TypeOK
    <3> QED  BY <1>2, <3>2, <3>3, <3>4, <3>5, <3>6, <3>7 DEF Build
  <2> QED  BY <2>3, <2>4
<1>3. ASSUME UNCHANGED building PROVE Alone'
  <2>1. Building' = Building
    BY <1>3 DEF building, Building
  <2> QED  BY <1>3, <2>1 DEF building, Alone, WiresOwn
<1>4. ASSUME NEW c \in Conns,
             \/ Connect(c) /\ AtCapacity
             \/ Endpoint(c) \/ Background(c) \/ HangUp(c) \/ Reap(c) \/ Crash(c)
             \/ DrainNext(c) \/ DrainStop(c)
      PROVE  UNCHANGED building
  BY <1>4 DEF Connect, Endpoint, Attach, Abandon, Leave, TearDown, Background, Supervise,
     SendEnds, ThreadsStop, HangUp, Reap, Crash, DrainNext, DrainStop
<1>5. ASSUME Stop \/ Drain \/ Drained \/ UNCHANGED vars PROVE UNCHANGED building
  BY <1>5 DEF Stop, Drain, Drained, vars
<1> QED  BY <1>1, <1>2, <1>3, <1>4, <1>5 DEF Next, Shutdown

-----------------------------------------------------------------------------
(* The threads. *)

\* The threads are started by the endpoint that then serves them, and stopped
\* behind a send loop that has ended.
LEMMA ThreadStep ==
  ASSUME TypeOK, SendStopsFirst, NoOrphanThreads, [Next]_vars
  PROVE  SendStopsFirst' /\ NoOrphanThreads'
<1> USE DEF TypeOK, SendStopsFirst, NoOrphanThreads, endpoint, server
<1>1. ASSUME NEW c \in Conns, Connect(c) PROVE SendStopsFirst' /\ NoOrphanThreads'
  <2>1. CASE AtCapacity
    BY <1>1, <2>1 DEF Connect
  <2>2. CASE ~AtCapacity
    BY <1>1, <2>2 DEF Connect
  <2> QED  BY <2>1, <2>2
<1>2. ASSUME NEW c \in Conns, Attach(c) PROVE SendStopsFirst' /\ NoOrphanThreads'
  BY <1>2 DEF Attach
<1>3. ASSUME NEW c \in Conns, Abandon(c) PROVE SendStopsFirst' /\ NoOrphanThreads'
  BY <1>3 DEF Abandon
<1>4. ASSUME NEW c \in Conns, Leave(c) PROVE SendStopsFirst' /\ NoOrphanThreads'
  BY <1>4 DEF Leave, Cancelled
<1>5. ASSUME NEW c \in Conns, TearDown(c) PROVE SendStopsFirst' /\ NoOrphanThreads'
  BY <1>5 DEF TearDown, MayTearDown, Stopping
<1>6. ASSUME NEW c \in Conns, Supervise(c) PROVE SendStopsFirst' /\ NoOrphanThreads'
  BY <1>6 DEF Supervise
<1>7. ASSUME NEW c \in Conns, SendEnds(c) PROVE SendStopsFirst' /\ NoOrphanThreads'
  BY <1>7 DEF SendEnds
<1>8. ASSUME NEW c \in Conns, ThreadsStop(c) PROVE SendStopsFirst' /\ NoOrphanThreads'
  BY <1>8 DEF ThreadsStop
<1>9. ASSUME NEW c \in Conns, Crash(c) PROVE SendStopsFirst' /\ NoOrphanThreads'
  BY <1>9 DEF Crash
<1>10. ASSUME NEW c \in Conns, DrainNext(c) PROVE SendStopsFirst' /\ NoOrphanThreads'
  BY <1>10 DEF DrainNext, Cancelled
<1>11. ASSUME NEW c \in Conns, DrainStop(c) PROVE SendStopsFirst' /\ NoOrphanThreads'
  BY <1>11 DEF DrainStop, MayTearDown, Stopping
<1>12. ASSUME NEW c \in Conns, Build(c) \/ BuildFails(c) \/ HangUp(c) \/ Reap(c)
       PROVE  UNCHANGED <<pc, send, threads>>
  BY <1>12 DEF Build, BuildStep, WireText, WireScope, BuildVad, BuildLlm, BuildTts, BuildFails,
     HangUp, Reap
<1>13. ASSUME Stop \/ Drain \/ Drained \/ UNCHANGED vars PROVE UNCHANGED <<pc, send, threads>>
  BY <1>13 DEF Stop, Drain, Drained, vars
<1>14. ASSUME UNCHANGED <<pc, send, threads>> PROVE SendStopsFirst' /\ NoOrphanThreads'
  BY <1>14
<1> QED
  BY <1>1, <1>2, <1>3, <1>4, <1>5, <1>6, <1>7, <1>8, <1>9, <1>10, <1>11, <1>12, <1>13, <1>14
     DEF Next, Endpoint, Background, Shutdown

-----------------------------------------------------------------------------
(* The theorems. *)

LEMMA Initially == Init => IInv
<1> SUFFICES ASSUME Init PROVE IInv
  OBVIOUS
<1>1. Counted
  <2>1. limit \in Nat
    BY TypesInitially DEF TypeOK
  <2> QED  BY <2>1, FS_EmptySet DEF Init, Counted
<1>2. Built /\ SendStopsFirst /\ NoOrphanThreads
  BY DEF Init, Built, SendStopsFirst, NoOrphanThreads
<1>3. Alone
  BY DEF Init, Alone, WiresOwn, Building
<1> QED  BY <1>1, <1>2, <1>3, TypesInitially DEF IInv

\* The inductive invariant, for any number of connections and any capacity.
THEOREM Invariance == Spec => []IInv
<1>1. IInv /\ [Next]_vars => IInv'
  BY TypeStep, CountStep, BuiltStep, AloneStep, ThreadStep DEF IInv
<1> QED  BY Initially, <1>1, PTL DEF Spec

\* Admission (websocket_router.py 280) never lets in more than max_sessions,
\* whatever else happens while a pipeline is built off the loop.
THEOREM Capacity == Spec => []CapacityHeld
<1>1. IInv => CapacityHeld
  BY DEF IInv, Rostered, Counted, Holding, CapacityHeld
<1> QED  BY <1>1, Invariance, PTL

\* The rosters agree, a pipeline built alone is wired to itself, and no thread
\* outlives its endpoint or is stopped before its send loop.
THEOREM Soundness == Spec => []SessionsSound
<1>1. IInv => OwnWiringAlone
  <2> SUFFICES ASSUME IInv, NEW c \in Conns, pc[c] \in {"live", "ending"}, c \notin overlapped
               PROVE  wired[c] = Own(c)
    BY DEF OwnWiringAlone
  <2>1. wired[c].text = c /\ wired[c].llm = c /\ wired[c].tts = c
    BY DEF IInv, Built, Alone, WiresOwn
  <2>2. wired[c] \in [text : Conns \cup {Nobody}, llm : Conns \cup {Nobody},
                      tts : Conns \cup {Nobody}]
    BY DEF IInv, TypeOK
  <2> QED  BY <2>1, <2>2 DEF Own
<1>2. IInv => SessionsSound
  BY <1>1 DEF IInv, SessionsSound
<1> QED  BY <1>2, Invariance, PTL
=============================================================================
