-------------------------- MODULE ServerLife_proof --------------------------
(***************************************************************************)
(* Theorems of ServerLife, for every number of connections and signals.    *)
(*                                                                         *)
(* Neither property is inductive.  WarmedOnce needs to know that whoever   *)
(* makes the round trip holds the lock and found the flag down (Warming);  *)
(* SessionEquipped needs the same to know that a build that skips the      *)
(* round trip comes after one that was answered, what a build has got hold *)
(* of at each of its steps (Building), and that nothing is built while the *)
(* main thread still pre-warms (Ordered).                                  *)
(***************************************************************************)
EXTENDS ServerLife, TLAPS

Phases == {"new", "vad", "detector", "lock", "warming", "built", "serving", "refused", "ended",
           "signals", "append", "launch", "wait", "exited"}

\* Whoever makes the round trip holds the lock, and it is the first one.
Warming ==
  ~env.perSession =>
    /\ trips = (IF warmed THEN 1 ELSE 0)
    /\ \A a \in Actors : at[a] = "warming" => lock = a /\ ~warmed

\* No session before the server, no server before the pre-warming is over.
Ordered ==
  /\ server = "none" => \A c \in Conns : at[c] = "new"
  /\ server # "none" => at[Main] \in {"wait", "exited"}

\* What each step of a build leaves behind.
HasModel    == {"detector", "lock", "warming", "built", "serving", "ended"}
HasDetector == {"lock", "warming", "built", "serving", "ended"}
HasLlm      == {"built", "serving", "ended"}
Building ==
  \A c \in Conns :
    /\ model[c] \in {c, Nobody}
    /\ at[c] \in HasModel => model[c] = c
    /\ at[c] \in HasDetector => (turns[c] = "silence" => ~env.smartTurn \/ ~detector)
    /\ at[c] \in HasLlm => trips > 0

IInv == TypeOK /\ Warming /\ Ordered /\ Building

LEMMA Names == Nobody \notin Actors /\ Main \in Actors /\ Conns \subseteq Actors /\ Main \notin Conns
<1>1. Main # Nobody
  BY DEF Main, Nobody
<1>. QED  BY <1>1, NamesAssumption DEF Actors

\* The initial states.
LEMMA Initially == Init => IInv
<1>. SUFFICES ASSUME Init PROVE IInv
  OBVIOUS
<1>1. at \in [Actors -> Phases]
  BY DEF Init, Phases
<1>2. signals \in 0..MaxSignals /\ trips \in Nat
  BY MaxSignalsAssumption DEF Init
<1>3. TypeOK
  BY <1>1, <1>2, Names DEF Init, TypeOK, Phases
<1>4. Warming /\ Ordered /\ Building
  BY Names DEF Init, Warming, Ordered, Building, HasModel, HasDetector, HasLlm
<1>. QED  BY <1>3, <1>4 DEF IInv

\* The type invariant is inductive by itself.
LEMMA TypeStep == TypeOK /\ [Next]_vars => TypeOK'
<1>. SUFFICES ASSUME TypeOK, [Next]_vars PROVE TypeOK'
  OBVIOUS
<1>. USE Names
<1>1. CASE UNCHANGED vars
  BY <1>1 DEF TypeOK, vars, shared, warmth, gear, ending
<1>2. CASE PrewarmVad \/ PrewarmSmartTurn
  BY <1>2 DEF TypeOK, PrewarmVad, PrewarmSmartTurn, MainGoes, Goes, warmth, gear, ending
<1>3. ASSUME NEW a \in Actors, WarmUp(a) PROVE TypeOK'
  <2>1. CASE Skip(a)
    BY <2>1 DEF TypeOK, Skip, Goes, After, shared, warmth, gear, ending
  <2>2. CASE BeginWarmUp(a)
    BY <2>2 DEF TypeOK, BeginWarmUp, Goes, shared, gear, ending
  <2>3. CASE WarmUpAnswered(a)
    BY <2>3 DEF TypeOK, WarmUpAnswered, Goes, After, shared, gear, ending
  <2>4. CASE WarmUpFails(a)
    BY <2>4 DEF TypeOK, WarmUpFails, Goes, AfterFailure, LockAfterFailure, shared, gear, ending
  <2>. QED  BY <1>3, <2>1, <2>2, <2>3, <2>4 DEF WarmUp
<1>4. CASE InstallHandlers \/ AppendThread \/ LaunchThread \/ Exit \/ JoinReturns
  BY <1>4 DEF TypeOK, InstallHandlers, AppendThread, LaunchThread, StopAtLaunch, Exit, JoinReturns,
              MainGoes, Goes, shared, warmth, gear, ending
<1>5. CASE Signal \/ Killed
  <2>1. signals' \in 0..MaxSignals
    BY <1>5, MaxSignalsAssumption DEF TypeOK, Signal, Killed
  <2>2. CASE Signal
    <3>1. asked' \in BOOLEAN /\ stop' \in BOOLEAN /\ joining' \in BOOLEAN
      BY <2>2, Zenon DEF Signal
    <3>. QED  BY <2>1, <2>2, <3>1 DEF TypeOK, Signal, shared, warmth, gear
  <2>3. CASE Killed
    BY <2>1, <2>3 DEF TypeOK, Killed, Goes, shared, warmth, gear
  <2>. QED  BY <1>5, <2>2, <2>3
<1>6. CASE ServerThread \/ WatchStop
  BY <1>6 DEF TypeOK, ServerThread, Serve, StartUpFails, ServerEnds, WatchStop, shared, warmth, gear, ending
<1>7. ASSUME NEW c \in Conns, Connect(c) \/ Attach(c) \/ Leave(c) \/ BuildVadFails(c) PROVE TypeOK'
  BY <1>7 DEF TypeOK, Connect, Attach, Leave, BuildVadFails, Goes, shared, warmth, gear, ending
<1>8. ASSUME NEW c \in Conns, BuildVad(c) PROVE TypeOK'
  <2>1. model' = [model EXCEPT ![c] = c]
    BY <1>8 DEF BuildVad, NewVadModel
  <2>. QED  BY <1>8, <2>1 DEF TypeOK, BuildVad, Goes, shared, warmth, gear, ending
<1>9. ASSUME NEW c \in Conns, BuildDetector(c) PROVE TypeOK'
  BY <1>9 DEF TypeOK, BuildDetector, DetectorFor, Goes, shared, warmth, gear, ending
<1>. QED  BY <1>1, <1>2, <1>3, <1>4, <1>5, <1>6, <1>7, <1>8, <1>9 DEF Next, MainThread, Worker

\* TypeOK, as a theorem: every variable keeps its type.
THEOREM TypeCorrect == Spec => []TypeOK
<1>1. Init => TypeOK
  BY Initially DEF IInv
<1>. QED  BY <1>1, TypeStep, PTL DEF Spec

-----------------------------------------------------------------------------
\* Whoever makes the round trip holds the lock.
LEMMA WarmingStep == IInv /\ [Next]_vars => Warming'
<1>. SUFFICES ASSUME IInv, [Next]_vars PROVE Warming'
  OBVIOUS
<1>. USE Names DEF IInv
<1>1. CASE UNCHANGED vars
  BY <1>1 DEF Warming, vars, shared, warmth
<1>2. ASSUME NEW a \in Actors, WarmUp(a) PROVE Warming'
  <2>1. CASE Skip(a)
    BY <2>1 DEF TypeOK, Warming, Skip, Goes, After, shared, warmth
  <2>2. CASE BeginWarmUp(a)
    BY <2>2 DEF TypeOK, Warming, BeginWarmUp, MayEnter, Goes, shared
  <2>3. CASE WarmUpAnswered(a)
    <3>. SUFFICES ASSUME ~env.perSession
                  PROVE  /\ trips' = (IF warmed' THEN 1 ELSE 0)
                         /\ \A b \in Actors : at'[b] # "warming"
      BY <2>3 DEF WarmUpAnswered, shared, Warming
    <3>1. ~warmed /\ lock = a /\ trips = 0
      BY <2>3 DEF WarmUpAnswered, Warming
    <3>2. warmed' /\ trips' = 1
      <4>1. warmed'
        BY <2>3, Zenon DEF WarmUpAnswered
      <4>2. trips' = 1
        BY <2>3, <3>1 DEF WarmUpAnswered
      <4>. QED  BY <4>1, <4>2
    <3>3. ASSUME NEW b \in Actors, at[b] = "warming" PROVE b = a
      BY <3>1, <3>3 DEF Warming
    <3>4. \A b \in Actors : at'[b] # "warming"
      <4>1. at' = [at EXCEPT ![a] = After(a)] /\ After(a) # "warming"
        BY <2>3 DEF WarmUpAnswered, Goes, After
      <4>. QED  BY <3>3, <4>1 DEF TypeOK
    <3>. QED  BY <3>2, <3>4
  <2>4. CASE WarmUpFails(a)
    BY <2>4 DEF TypeOK, Warming, WarmUpFails, Goes, AfterFailure, LockAfterFailure, shared
  <2>. QED  BY <1>2, <2>1, <2>2, <2>3, <2>4 DEF WarmUp
<1>3. CASE PrewarmVad \/ PrewarmSmartTurn \/ InstallHandlers \/ AppendThread \/ LaunchThread
           \/ Exit \/ JoinReturns
  BY <1>3 DEF TypeOK, Warming, PrewarmVad, PrewarmSmartTurn, InstallHandlers, AppendThread,
              LaunchThread, Exit, JoinReturns, MainGoes, Goes, shared, warmth
<1>4. CASE Signal \/ Killed \/ ServerThread \/ WatchStop
  BY <1>4 DEF TypeOK, Warming, Signal, Killed, ServerThread, Serve, StartUpFails, ServerEnds,
              WatchStop, Goes, shared, warmth
<1>5. ASSUME NEW c \in Conns,
             Connect(c) \/ Attach(c) \/ Leave(c) \/ BuildVad(c) \/ BuildVadFails(c) \/ BuildDetector(c)
      PROVE Warming'
  BY <1>5 DEF TypeOK, Warming, Connect, Attach, Leave, BuildVad, BuildVadFails, BuildDetector,
              Goes, shared, warmth
<1>. QED  BY <1>1, <1>2, <1>3, <1>4, <1>5 DEF Next, MainThread, Worker

\* Nothing is built before the server is up, and it comes up after the pre-warming.
LEMMA OrderedStep == IInv /\ [Next]_vars => Ordered'
<1>. SUFFICES ASSUME IInv, [Next]_vars PROVE Ordered'
  OBVIOUS
<1>. USE Names DEF IInv
<1>1. CASE UNCHANGED vars
  BY <1>1 DEF Ordered, vars
<1>2. ASSUME NEW a \in Actors, WarmUp(a) PROVE Ordered'
  <2>1. at[a] \in {"lock", "warming"} /\ server' = server
    BY <1>2 DEF WarmUp, Skip, BeginWarmUp, MayEnter, WarmUpAnswered, WarmUpFails
  <2>2. PICK to : at' = [at EXCEPT ![a] = to]
    BY <1>2 DEF WarmUp, Skip, BeginWarmUp, WarmUpAnswered, WarmUpFails, Goes
  <2>3. CASE a = Main
    BY <2>1, <2>2, <2>3 DEF TypeOK, Ordered
  <2>4. CASE a \in Conns
    BY <2>1, <2>2, <2>4 DEF TypeOK, Ordered
  <2>. QED  BY <2>3, <2>4 DEF Actors
<1>3. CASE PrewarmVad \/ PrewarmSmartTurn \/ InstallHandlers \/ AppendThread \/ LaunchThread
           \/ Exit \/ JoinReturns
  BY <1>3 DEF TypeOK, Ordered, PrewarmVad, PrewarmSmartTurn, InstallHandlers, AppendThread,
              LaunchThread, Exit, JoinReturns, MainGoes, Goes
<1>4. CASE Signal \/ Killed \/ ServerThread \/ WatchStop
  BY <1>4 DEF TypeOK, Ordered, Signal, Killed, ServerThread, Serve, StartUpFails, ServerEnds,
              WatchStop, Goes
<1>5. ASSUME NEW c \in Conns,
             Connect(c) \/ Attach(c) \/ Leave(c) \/ BuildVad(c) \/ BuildVadFails(c) \/ BuildDetector(c)
      PROVE Ordered'
  BY <1>5 DEF TypeOK, Ordered, Connect, Attach, Leave, BuildVad, BuildVadFails, BuildDetector, Goes
<1>. QED  BY <1>1, <1>2, <1>3, <1>4, <1>5 DEF Next, MainThread, Worker

\* What a build has got hold of at each of its steps.
LEMMA BuildingStep == IInv /\ [Next]_vars => Building'
<1>. SUFFICES ASSUME IInv, [Next]_vars PROVE Building'
  OBVIOUS
<1>. USE Names DEF IInv, HasModel, HasDetector, HasLlm
<1>1. CASE UNCHANGED vars
  BY <1>1 DEF Building, vars, shared, warmth, gear
<1>2. ASSUME NEW a \in Actors, WarmUp(a) PROVE Building'
  <2>1. CASE Skip(a)
    <3>1. trips > 0
      BY <2>1 DEF Skip, Warming
    <3>. QED  BY <2>1, <3>1 DEF TypeOK, Building, Skip, MayEnter, Goes, After, shared, warmth, gear
  <2>2. CASE BeginWarmUp(a)
    BY <2>2 DEF TypeOK, Building, BeginWarmUp, MayEnter, Goes, shared, gear
  <2>3. CASE WarmUpAnswered(a)
    <3>1. trips' > 0
      BY <2>3 DEF TypeOK, WarmUpAnswered
    <3>. QED  BY <2>3, <3>1 DEF TypeOK, Building, WarmUpAnswered, Goes, After, shared, gear
  <2>4. CASE WarmUpFails(a)
    BY <2>4 DEF TypeOK, Building, WarmUpFails, Goes, AfterFailure, shared, gear
  <2>. QED  BY <1>2, <2>1, <2>2, <2>3, <2>4 DEF WarmUp
<1>3. CASE PrewarmVad \/ PrewarmSmartTurn
  <2>1. \A c \in Conns : at[c] = "new"
    BY <1>3 DEF Ordered, PrewarmVad, PrewarmSmartTurn, MainGoes
  <2>2. \A c \in Conns : at'[c] = "new"
    BY <1>3, <2>1 DEF TypeOK, PrewarmVad, PrewarmSmartTurn, MainGoes, Goes
  <2>. QED  BY <1>3, <2>2 DEF Building, PrewarmVad, PrewarmSmartTurn, gear
<1>4. CASE InstallHandlers \/ AppendThread \/ LaunchThread \/ Exit \/ JoinReturns
  BY <1>4 DEF TypeOK, Building, InstallHandlers, AppendThread, LaunchThread, Exit, JoinReturns,
              MainGoes, Goes, shared, warmth, gear
<1>5. CASE Signal \/ Killed \/ ServerThread \/ WatchStop
  BY <1>5 DEF TypeOK, Building, Signal, Killed, ServerThread, Serve, StartUpFails, ServerEnds,
              WatchStop, Goes, shared, warmth, gear
<1>6. ASSUME NEW c \in Conns, Connect(c) \/ Attach(c) \/ Leave(c) \/ BuildVadFails(c) PROVE Building'
  BY <1>6 DEF TypeOK, Building, Connect, Attach, Leave, BuildVadFails, Goes, shared, warmth, gear
<1>7. ASSUME NEW c \in Conns, BuildVad(c) PROVE Building'
  <2>1. model' = [model EXCEPT ![c] = c]
    BY <1>7 DEF BuildVad, NewVadModel
  <2>. QED  BY <1>7, <2>1 DEF TypeOK, Building, BuildVad, Goes, shared, warmth
<1>8. ASSUME NEW c \in Conns, BuildDetector(c) PROVE Building'
  <2>1. PICK t \in DetectorFor(c) : turns' = [turns EXCEPT ![c] = t]
    BY <1>8 DEF BuildDetector
  <2>2. t = "silence" => ~env.smartTurn \/ ~detector
    BY <2>1 DEF DetectorFor, TypeOK
  <2>. QED  BY <1>8, <2>1, <2>2 DEF TypeOK, Building, BuildDetector, Goes, shared, warmth
<1>. QED  BY <1>1, <1>2, <1>3, <1>4, <1>5, <1>6, <1>7, <1>8 DEF Next, MainThread, Worker

\* The inductive invariant.
LEMMA Inductive == Spec => []IInv
<1>1. IInv /\ [Next]_vars => IInv'
  BY TypeStep, WarmingStep, OrderedStep, BuildingStep DEF IInv
<1>. QED  BY Initially, <1>1, PTL DEF Spec

\* WarmedOnce: however many builds race, one round trip warms the process
\* (ResponsesApiModelHandler.warmup).
THEOREM OneWarmUp == Spec => []WarmedOnce
<1>1. IInv => WarmedOnce
  BY DEF IInv, Warming, WarmedOnce
<1>. QED  BY Inductive, <1>1, PTL

\* SessionEquipped: whatever failed while the server started, a session that is
\* served has a Silero model of its own and an endpoint that answered
\* (HandlerFactory._new_vad_model, prewarm_llm).
THEOREM Equipped == Spec => []SessionEquipped
<1>1. IInv => SessionEquipped
  <2>. SUFFICES ASSUME IInv, NEW c \in Conns, at[c] \in {"serving", "ended"}
                PROVE  /\ model[c] \notin {"template", Nobody}
                       /\ \A d \in Conns \ {c} : model[d] # model[c]
                       /\ turns[c] = "silence" => ~env.smartTurn \/ ~detector
                       /\ trips > 0
    BY DEF SessionEquipped
  <2>1. model[c] = c /\ (turns[c] = "silence" => ~env.smartTurn \/ ~detector) /\ trips > 0
    BY DEF IInv, Building, HasModel, HasDetector, HasLlm
  <2>2. \A d \in Conns \ {c} : model[d] # c
    BY Names DEF IInv, Building
  <2>. QED  BY <2>1, <2>2, Names, NamesAssumption
<1>. QED  BY Inductive, <1>1, PTL
=============================================================================
