------------------------ MODULE HandlerChain_proof ------------------------
(***************************************************************************)
(* Theorems of HandlerChain, for every number of sessions, every limit and *)
(* every workload.                                                         *)
(*                                                                         *)
(* None of the properties is inductive.  Who gives a slot back must be     *)
(* known to hold one, so a thread that waits for a slot, or calls, is at a *)
(* stage that does (Fits).  What a synthesis has accepted after its        *)
(* cancellation is bounded because it looks before it reads on (Prompt).   *)
(* And no thread ends early because neither the event nor the sentinel     *)
(* exists before the teardown has sent it (Untold).                        *)
(***************************************************************************)
EXTENDS HandlerChain, FiniteSetTheorems, TLAPS

Callers == {STT, LM, TTS}

\* The stages that take slots from a limiter.
Slotted(k) == k \in {STT, LM} \/ (k = TTS /\ load.backend = "openai")

\* Only those wait for a slot, only the three callers call, and only MiniMax
\* looks before it reads.
Fits(k, t) ==
  /\ t.pc = "slot" => Slotted(k)
  /\ t.pc = "call" => k \in Callers
  /\ t.pc = "check" => k = TTS /\ load.backend = "minimax"

\* A synthesis has accepted something late only if it is about to find out.
Prompt(s, t) ==
  /\ t.gen <= gen[s]
  /\ t.late > 0 => load.backend = "minimax" /\ t.late = 1 /\ t.pc = "check" /\ t.gen # gen[s]

\* What the rest of the chain may rely on of one thread.
Good(s, k, t) == t \in Thread /\ Fits(k, t) /\ (k = TTS => Prompt(s, t))

\* Before the teardown sends it, there is no PIPELINE_END and no stop_event.
Early == {"up", "ending"}
Untold(s) ==
  down[s] \in Early =>
    /\ ~stop[s]
    /\ \A k \in Queues : queue[s][k] \in Seq(Kinds \ {"PIPELINE_END"})
    /\ \A k \in Stages : PC(s, k) \notin {"stop", "gone"}

IInv ==
  /\ TypeOK
  /\ \A s \in Sessions, k \in Stages : Good(s, k, thread[<<s, k>>])
  /\ \A s \in Sessions : Untold(s)
  /\ \A k \in Callers : Slotted(k) =>
       (Limited(k) => free[ServiceOf(k)] + Cardinality(Holders(k)) = load.cap[ServiceOf(k)])

-----------------------------------------------------------------------------
(* Stages, services and queues. *)

LEMMA StageFacts ==
  /\ Stages = {1, 2, 3, 4, 5, 6} /\ Queues = {1, 2, 3, 4, 5, 6, 7}
  /\ VAD = 1 /\ STT = 2 /\ Notifier = 3 /\ LM = 4 /\ Processor = 5 /\ TTS = 6
  /\ Callers \subseteq Stages
  /\ \A k \in Stages : ServiceOf(k) \in Services /\ k \in Queues /\ k + 1 \in Queues
  /\ \A j, k \in Callers : j # k => ServiceOf(j) # ServiceOf(k)
<1>1. /\ VAD = 1 /\ STT = 2 /\ Notifier = 3 /\ LM = 4 /\ Processor = 5 /\ TTS = 6
      /\ Stages = {1, 2, 3, 4, 5, 6} /\ Queues = {1, 2, 3, 4, 5, 6, 7}
  BY DEF VAD, STT, Notifier, LM, Processor, TTS, Stages, Queues
<1>2. \A k \in Stages : k \in Queues /\ k + 1 \in Queues
  BY <1>1
<1>3. \A k \in Stages : ServiceOf(k) \in Services
  BY DEF ServiceOf, Services
<1>4. Callers \subseteq Stages
  BY <1>1 DEF Callers
<1>5. \A j, k \in Callers : j # k => ServiceOf(j) # ServiceOf(k)
  BY <1>1 DEF Callers, ServiceOf
<1>. QED  BY <1>1, <1>2, <1>3, <1>4, <1>5

LEMMA CapFacts ==
  ASSUME load \in Loads
  PROVE  /\ load.cap \in [Services -> Nat] /\ load.backend \in Backends
         /\ \A k \in Stages : load.cap[ServiceOf(k)] \in Nat
  BY LoadsAssumption, StageFacts

\* What may be in the queues of a session.
Allowed(s) == IF down[s] \in Early THEN Kinds \ {"PIPELINE_END"} ELSE Kinds

\* The queues after a step of session s.
Queued(s) ==
  /\ queue' \in [Sessions -> [Queues -> Seq(Kinds)]]
  /\ \A j \in Queues : queue'[s][j] \in Seq(Allowed(s))
  /\ \A o \in Sessions : o # s => queue'[o] = queue[o]

LEMMA AllowedNow ==
  ASSUME IInv, NEW s \in Sessions
  PROVE  /\ queue \in [Sessions -> [Queues -> Seq(Kinds)]]
         /\ Allowed(s) \subseteq Kinds
         /\ \A j \in Queues : queue[s][j] \in Seq(Allowed(s))
BY DEF IInv, TypeOK, Untold, Allowed

LEMMA SameQueues ==
  ASSUME IInv, NEW s \in Sessions, UNCHANGED queue
  PROVE  Queued(s)
BY AllowedNow DEF Queued

LEMMA PutKeeps ==
  ASSUME IInv, NEW s \in Sessions, NEW k \in Queues, NEW m \in Seq(Allowed(s)), Put(s, k, m)
  PROVE  Queued(s)
<1>1. CASE queue' = queue
  BY <1>1, SameQueues
<1>2. CASE queue' = [queue EXCEPT ![s][k] = @ \o m]
  <2>1. queue[s][k] \o m \in Seq(Allowed(s)) /\ queue[s][k] \o m \in Seq(Kinds)
    <3>1. m \in Seq(Kinds)
      BY AllowedNow
    <3>. QED  BY <3>1, AllowedNow
  <2>2. queue' = [queue EXCEPT ![s] = [queue[s] EXCEPT ![k] = queue[s][k] \o m]]
    BY <1>2
  <2>3. [queue[s] EXCEPT ![k] = queue[s][k] \o m] \in [Queues -> Seq(Kinds)]
    BY <2>1, AllowedNow
  <2>. QED  BY <2>1, <2>2, <2>3, AllowedNow DEF Queued
<1>. QED  BY <1>1, <1>2 DEF Put

\* The same of a queue that is read, with what is put into the next.
LEMMA PassKeeps ==
  ASSUME IInv, NEW s \in Sessions, NEW k \in Stages,
         NEW old \in Seq(Allowed(s)), NEW new \in Seq(Allowed(s)),
         queue' = [queue EXCEPT ![s][k] = old, ![s][k + 1] = new]
  PROVE  Queued(s)
<1>1. k \in Queues /\ k + 1 \in Queues /\ k # k + 1
  BY StageFacts
<1>2. old \in Seq(Kinds) /\ new \in Seq(Kinds)
  BY AllowedNow
<1>. DEFINE row == [[queue[s] EXCEPT ![k] = old] EXCEPT ![k + 1] = new]
<1>3. row \in [Queues -> Seq(Kinds)]
  BY <1>1, <1>2, AllowedNow
<1>4. \A j \in Queues : row[j] \in Seq(Allowed(s))
  BY <1>1, AllowedNow
<1>. HIDE DEF row
<1>5. queue' = [queue EXCEPT ![s] = row]
  BY <1>1, AllowedNow DEF row
<1>. QED  BY <1>3, <1>4, <1>5, AllowedNow DEF Queued

LEMMA TakesKeeps ==
  ASSUME IInv, NEW s \in Sessions, NEW k \in Stages, NEW kind, NEW m \in Seq(Allowed(s)),
         Takes(s, k, kind, m)
  PROVE  Queued(s) /\ PC(s, k) = "get" /\ kind \in Allowed(s)
<1>1. k \in Queues /\ k + 1 \in Queues /\ k # k + 1
  BY StageFacts
<1>2. queue[s][k] \in Seq(Allowed(s)) /\ queue[s][k + 1] \in Seq(Allowed(s))
  BY <1>1, AllowedNow
<1>3. Tail(queue[s][k]) \in Seq(Allowed(s)) /\ Head(queue[s][k]) \in Allowed(s)
  BY <1>2 DEF Takes
<1>. DEFINE new == IF Read(s, k + 1) THEN queue[s][k + 1] \o m ELSE queue[s][k + 1]
<1>4. new \in Seq(Allowed(s))
  BY <1>2
<1>5. queue' = [queue EXCEPT ![s][k] = Tail(queue[s][k]), ![s][k + 1] = new]
  BY <1>1, AllowedNow DEF Takes
<1>. HIDE DEF new
<1>. QED  BY <1>3, <1>4, <1>5, PassKeeps DEF Takes

-----------------------------------------------------------------------------
(* Threads. *)

LEMMA ThreadNow ==
  ASSUME IInv, NEW s \in Sessions, NEW k \in Stages
  PROVE  /\ thread \in [Handler -> Thread] /\ <<s, k>> \in Handler
         /\ Good(s, k, thread[<<s, k>>]) /\ thread[<<s, k>>] \in Thread
         /\ gen[s] \in Nat /\ gen \in [Sessions -> Nat]
BY DEF IInv, TypeOK, Good, Handler

\* One thread of one session has moved.
LEMMA Moved ==
  ASSUME IInv, NEW s \in Sessions, NEW k \in Stages, NEW t, Good(s, k, t), Goto(s, k, t)
  PROVE  /\ thread' \in [Handler -> Thread] /\ thread'[<<s, k>>] = t
         /\ \A o \in Sessions, j \in Stages :
              o # s \/ j # k => thread'[<<o, j>>] = thread[<<o, j>>]
<1>1. t \in Thread
  BY DEF Good
<1>2. \A o \in Sessions, j \in Stages : <<o, j>> \in Handler /\ (<<o, j>> = <<s, k>> <=> o = s /\ j = k)
  BY DEF Handler
<1>. QED  BY <1>1, <1>2, ThreadNow DEF Goto

LEMMA AllGood ==
  ASSUME IInv, NEW s \in Sessions, NEW k \in Stages, NEW t, Good(s, k, t), Goto(s, k, t),
         UNCHANGED <<load, gen>>
  PROVE  \A o \in Sessions, j \in Stages : Good(o, j, thread[<<o, j>>])'
<1>. SUFFICES ASSUME NEW o \in Sessions, NEW j \in Stages PROVE Good(o, j, thread[<<o, j>>])'
  OBVIOUS
<1>1. Good(o, j, thread'[<<o, j>>])
  <2>1. CASE o = s /\ j = k
    BY <2>1, Moved
  <2>2. CASE o # s \/ j # k
    BY <2>2, Moved, ThreadNow, ZenonT(40)
  <2>. QED  BY <2>1, <2>2
<1>2. thread'[<<o, j>>] \in Thread /\ Fits(j, thread'[<<o, j>>]) /\ (j = TTS => Prompt(o, thread'[<<o, j>>]))
  BY <1>1 DEF Good
<1>3. Fits(j, thread[<<o, j>>])'
  BY <1>2 DEF Fits, Slotted
<1>4. j = TTS => Prompt(o, thread[<<o, j>>])'
  BY <1>2 DEF Prompt
<1>. QED  BY <1>2, <1>3, <1>4, Zenon DEF Good

\* Who holds a slot after a step of one thread.
LEMMA HoldersAfter ==
  ASSUME IInv, NEW s \in Sessions, NEW k \in Stages, NEW t, Good(s, k, t), Goto(s, k, t),
         NEW j \in Stages
  PROVE  /\ j # k => Holders(j)' = Holders(j)
         /\ j = k /\ t.pc = "call" => Holders(j)' = Holders(j) \cup {s}
         /\ j = k /\ t.pc # "call" => Holders(j)' = Holders(j) \ {s}
<1>1. /\ thread'[<<s, k>>] = t
      /\ \A o \in Sessions : o # s \/ j # k => thread'[<<o, j>>] = thread[<<o, j>>]
  BY Moved
<1>2. CASE j # k
  <2>1. \A o \in Sessions : PC(o, j)' = PC(o, j)
    BY <1>1, <1>2 DEF PC
  <2>. QED  BY <1>2, <2>1 DEF Holders
<1>3. CASE j = k
  <2>1. PC(s, j)' = t.pc /\ \A o \in Sessions : o # s => PC(o, j)' = PC(o, j)
    BY <1>1, <1>3 DEF PC
  <2>. QED  BY <1>3, <2>1 DEF Holders
<1>. QED  BY <1>2, <1>3

LEMMA HoldersFinite ==
  ASSUME NEW j \in Stages
  PROVE  IsFiniteSet(Holders(j)) /\ Cardinality(Holders(j)) \in Nat
<1>1. Holders(j) \in SUBSET Sessions
  BY DEF Holders
<1>. QED  BY <1>1, SessionsAssumption, FS_Subset, FS_CardinalityType

-----------------------------------------------------------------------------
(* Slots. *)

\* No slot of a limited service is lost, and none given back twice.
Slots(k) ==
  Slotted(k) /\ Limited(k) => free[ServiceOf(k)] + Cardinality(Holders(k)) = load.cap[ServiceOf(k)]

Free == free \in [Services -> Nat] /\ \A v \in Services : free[v] <= load.cap[v]

LEMMA SlotsNow ==
  ASSUME IInv
  PROVE  Free /\ \A k \in Callers : Slots(k)
BY DEF IInv, TypeOK, Free, Slots

\* A thread moves, and the limiters do not.
LEMMA SlotsKept ==
  ASSUME IInv, NEW s \in Sessions, NEW k \in Stages, NEW t, Good(s, k, t), Goto(s, k, t),
         Slotted(k) => (t.pc = "call" <=> PC(s, k) = "call"),
         UNCHANGED <<load, free>>
  PROVE  Free' /\ \A j \in Callers : Slots(j)'
<1>1. Free'
  BY SlotsNow DEF Free
<1>2. ASSUME NEW j \in Callers, Slotted(j) PROVE Holders(j)' = Holders(j)
  <2>1. j \in Stages
    BY StageFacts
  <2>2. CASE j = k
    <3>1. PC(s, k) = "call" <=> s \in Holders(k)
      BY DEF Holders
    <3>. QED  BY <1>2, <2>1, <2>2, <3>1, HoldersAfter
  <2>. QED  BY <2>1, <2>2, HoldersAfter
<1>3. ASSUME NEW j \in Callers PROVE Slots(j)'
  <2>1. Slots(j)
    BY SlotsNow
  <2>2. CASE Slotted(j)
    <3>1. Holders(j)' = Holders(j)
      BY <1>2, <2>2
    <3>. QED  BY <2>1, <3>1 DEF Slots, Slotted, Limited
  <2>3. CASE ~Slotted(j)
    BY <2>3 DEF Slots, Slotted
  <2>. QED  BY <2>2, <2>3
<1>. QED  BY <1>1, <1>3

\* A call is over, and gives back its slot.
LEMMA SlotsFreed ==
  ASSUME IInv, NEW s \in Sessions, NEW k \in Callers, NEW t, Good(s, k, t), Goto(s, k, t),
         Slotted(k), t.pc # "call", PC(s, k) = "call",
         free' = Released(k), UNCHANGED load
  PROVE  Free' /\ \A j \in Callers : Slots(j)'
<1>. DEFINE v == ServiceOf(k)
<1>1. k \in Stages /\ v \in Services
  BY StageFacts
<1>2. load.cap \in [Services -> Nat]
  BY CapFacts DEF IInv, TypeOK
<1>3. free \in [Services -> Nat] /\ \A w \in Services : free[w] <= load.cap[w]
  BY SlotsNow DEF Free
<1>4. s \in Holders(k) /\ Holders(k)' = Holders(k) \ {s}
  BY <1>1, HoldersAfter DEF Holders
<1>5. Cardinality(Holders(k)) \in Nat /\ Cardinality(Holders(k))' = Cardinality(Holders(k)) - 1
  BY <1>1, <1>4, HoldersFinite, FS_RemoveElement
<1>6. Cardinality(Holders(k)) > 0
  BY <1>1, <1>4, HoldersFinite, FS_EmptySet
<1>7. Slots(k)
  BY SlotsNow
<1>8. free' = IF Limited(k) THEN [free EXCEPT ![v] = @ + 1] ELSE free
  <2>1. CASE Limited(k)
    <3>1. free[v] < load.cap[v]
      BY <1>1, <1>2, <1>3, <1>5, <1>6, <1>7, <2>1 DEF Slots
    <3>. QED  BY <2>1, <3>1 DEF Released
  <2>2. CASE ~Limited(k)
    BY <2>2 DEF Released
  <2>. QED  BY <2>1, <2>2
<1>9. Limited(k) => free[v] < load.cap[v]
  BY <1>1, <1>2, <1>3, <1>5, <1>6, <1>7 DEF Slots
<1>10. Free'
  BY <1>1, <1>2, <1>3, <1>8, <1>9 DEF Free
<1>11. Slots(k)'
  BY <1>1, <1>2, <1>3, <1>5, <1>7, <1>8 DEF Slots, Slotted, Limited
<1>12. ASSUME NEW j \in Callers, j # k PROVE Slots(j)'
  <2>1. Holders(j)' = Holders(j) /\ ServiceOf(j) # v /\ ServiceOf(j) \in Services /\ j \in Stages
    BY <1>1, <1>12, StageFacts, HoldersAfter
  <2>2. free'[ServiceOf(j)] = free[ServiceOf(j)]
    BY <1>3, <1>8, <2>1
  <2>3. Slots(j)
    BY SlotsNow
  <2>. QED  BY <2>1, <2>2, <2>3 DEF Slots, Slotted, Limited
<1>. QED  BY <1>10, <1>11, <1>12

\* A call begins, with a slot if the service is limited.
LEMMA SlotsTaken ==
  ASSUME IInv, NEW s \in Sessions, NEW k \in Callers, NEW t, Good(s, k, t), Goto(s, k, t),
         Slotted(k), t.pc = "call", PC(s, k) = "slot", UNCHANGED load,
         IF Limited(k) THEN SlotFree(k) /\ free' = [free EXCEPT ![ServiceOf(k)] = @ - 1]
                       ELSE UNCHANGED free
  PROVE  Free' /\ \A j \in Callers : Slots(j)'
<1>. DEFINE v == ServiceOf(k)
<1>1. k \in Stages /\ v \in Services
  BY StageFacts
<1>2. load.cap \in [Services -> Nat]
  BY CapFacts DEF IInv, TypeOK
<1>3. free \in [Services -> Nat] /\ \A w \in Services : free[w] <= load.cap[w]
  BY SlotsNow DEF Free
<1>4. s \notin Holders(k) /\ Holders(k)' = Holders(k) \cup {s}
  BY <1>1, HoldersAfter DEF Holders
<1>5. Cardinality(Holders(k)) \in Nat /\ Cardinality(Holders(k))' = Cardinality(Holders(k)) + 1
  BY <1>1, <1>4, HoldersFinite, FS_AddElement
<1>6. Limited(k) => free[v] > 0
  BY DEF SlotFree
<1>7. Slots(k)
  BY SlotsNow
<1>8. Free'
  BY <1>1, <1>2, <1>3, <1>6 DEF Free
<1>9. Slots(k)'
  BY <1>1, <1>2, <1>3, <1>5, <1>6, <1>7 DEF Slots, Slotted, Limited
<1>10. ASSUME NEW j \in Callers, j # k PROVE Slots(j)'
  <2>1. Holders(j)' = Holders(j) /\ ServiceOf(j) # v /\ ServiceOf(j) \in Services /\ j \in Stages
    BY <1>1, <1>10, StageFacts, HoldersAfter
  <2>2. free'[ServiceOf(j)] = free[ServiceOf(j)]
    BY <1>3, <2>1
  <2>3. Slots(j)
    BY SlotsNow
  <2>. QED  BY <2>1, <2>2, <2>3 DEF Slots, Slotted, Limited
<1>. QED  BY <1>8, <1>9, <1>10

-----------------------------------------------------------------------------
(* What the actions have in common. *)

\* A thread of a session moves; what its session queues and the limiters' state
\* are given.
LEMMA Step ==
  ASSUME IInv, NEW s \in Sessions, NEW k \in Stages, NEW t, Good(s, k, t), Goto(s, k, t),
         Queued(s), UNCHANGED <<load, gen, stop, down>>, compacting' \subseteq Sessions,
         t.pc \in {"stop", "gone"} => stop[s] \/ down[s] \notin Early,
         Free' /\ \A j \in Callers : Slots(j)'
  PROVE  IInv'
<1>1. TypeOK'
  BY Moved DEF IInv, TypeOK, Queued, Free
<1>2. \A o \in Sessions, j \in Stages : Good(o, j, thread[<<o, j>>])'
  BY AllGood
<1>3. ASSUME NEW o \in Sessions PROVE Untold(o)'
  <2>1. Untold(o) /\ Untold(s)
    BY DEF IInv
  <2>2. CASE o = s
    <3>1. ASSUME down[s] \in Early
          PROVE  /\ ~stop[s] /\ \A j \in Queues : queue'[s][j] \in Seq(Kinds \ {"PIPELINE_END"})
                 /\ \A j \in Stages : thread'[<<s, j>>].pc \notin {"stop", "gone"}
      <4>1. ~stop[s] /\ \A j \in Stages : thread[<<s, j>>].pc \notin {"stop", "gone"}
        BY <2>1, <3>1 DEF Untold, PC
      <4>2. t.pc \notin {"stop", "gone"}
        BY <3>1, <4>1
      <4>3. \A j \in Stages : thread'[<<s, j>>].pc \notin {"stop", "gone"}
        BY <4>1, <4>2, Moved, ZenonT(40)
      <4>. QED  BY <3>1, <4>1, <4>3 DEF Queued, Allowed
    <3>. QED  BY <2>2, <3>1 DEF Untold, PC
  <2>3. CASE o # s
    <3>1. \A j \in Stages : thread'[<<o, j>>] = thread[<<o, j>>]
      BY <2>3, Moved, ZenonT(40)
    <3>2. queue'[o] = queue[o]
      BY <2>3 DEF Queued
    <3>. QED  BY <2>1, <3>1, <3>2 DEF Untold, PC
  <2>. QED  BY <2>2, <2>3
<1>4. \A j \in Callers : (Slotted(j) =>
        (Limited(j) => free[ServiceOf(j)] + Cardinality(Holders(j)) = load.cap[ServiceOf(j)]))'
  BY DEF Slots
<1>. QED  BY <1>1, <1>2, <1>3, <1>4 DEF IInv

\* The same for a step that leaves the limiters alone.
LEMMA PlainStep ==
  ASSUME IInv, NEW s \in Sessions, NEW k \in Stages, NEW t, Good(s, k, t), Goto(s, k, t),
         Queued(s), UNCHANGED <<load, free, gen, stop, down, compacting>>,
         t.pc \in {"stop", "gone"} => stop[s] \/ down[s] \notin Early,
         Slotted(k) => (t.pc = "call" <=> PC(s, k) = "call")
  PROVE  IInv'
<1>1. Free' /\ \A j \in Callers : Slots(j)'
  BY SlotsKept
<1>2. compacting' \subseteq Sessions
  BY DEF IInv, TypeOK
<1>. QED  BY <1>1, <1>2, Step

\* A thread that is done with an item.
Afresh(s) == [Idle EXCEPT !.pc = AfterItem(s)]

LEMMA NextItem ==
  ASSUME IInv, NEW s \in Sessions, NEW k \in Stages
  PROVE  /\ Good(s, k, Afresh(s))
         /\ Afresh(s).pc \in {"get", "stop"} /\ (Afresh(s).pc = "stop" => stop[s])
         /\ Again(s, k) <=> Goto(s, k, Afresh(s))
         /\ Raises(s, k) <=> Goto(s, k, Afresh(s))
<1>1. /\ Afresh(s) = [pc |-> AfterItem(s), gen |-> 0, n |-> 0, late |-> 0]
      /\ AfterItem(s) \in {"get", "stop"} /\ (AfterItem(s) = "stop" => stop[s])
  BY DEF Afresh, Idle, AfterItem
<1>2. gen[s] \in Nat
  BY ThreadNow
<1>3. Good(s, k, Afresh(s))
  BY <1>1, <1>2 DEF Good, Thread, Fits, Prompt
<1>. QED  BY <1>1, <1>3 DEF Again, Raises, AfterRaise, Afresh

\* A thread that is not about to check has accepted nothing late.
LEMMA OnTime ==
  ASSUME IInv, NEW s \in Sessions, PC(s, TTS) # "check"
  PROVE  thread[<<s, TTS>>].late = 0 /\ thread[<<s, TTS>>].gen <= gen[s]
<1>1. TTS \in Stages
  BY StageFacts
<1>2. Good(s, TTS, thread[<<s, TTS>>])
  BY <1>1, ThreadNow
<1>3. thread[<<s, TTS>>].late \in Nat
  BY <1>2 DEF Good, Thread
<1>. QED  BY <1>2, <1>3 DEF Good, Prompt, PC

LEMMA PassOn ==
  ASSUME IInv, NEW s \in Sessions, NEW k \in Stages, NEW kind, NEW m \in Seq(Allowed(s)),
         Takes(s, k, kind, m), Again(s, k), UNCHANGED <<load, free, gen, stop, down, compacting>>
  PROVE  IInv'
<1>1. Queued(s) /\ PC(s, k) = "get"
  BY TakesKeeps
<1>. QED  BY <1>1, NextItem, PlainStep

\* What may be put into a queue at any time.
LEMMA Items ==
  ASSUME NEW s
  PROVE  /\ << >> \in Seq(Allowed(s))
         /\ \A x \in Kinds \ {"PIPELINE_END"} :
              /\ <<x>> \in Seq(Allowed(s))
              /\ \A y \in Kinds \ {"PIPELINE_END"} : <<x, y>> \in Seq(Allowed(s))
<1>1. Kinds \ {"PIPELINE_END"} \subseteq Allowed(s)
  BY DEF Allowed
<1>. QED  BY <1>1

-----------------------------------------------------------------------------
(* BaseHandler.run and the limiter. *)

\* A thread ends, once it has been told to.
LEMMA LeavesStep ==
  ASSUME IInv, NEW s \in Sessions, NEW k \in Stages, PC(s, k) \in {"get", "stop"},
         down[s] \notin Early, Leaves(s, k)
  PROVE  IInv'
<1>. DEFINE t == [thread[<<s, k>>] EXCEPT !.pc = "gone"]
<1>1. Goto(s, k, t)
  BY DEF Leaves, To
<1>2. Good(s, k, t)
  <2>1. Good(s, k, thread[<<s, k>>])
    BY ThreadNow
  <2>2. k = TTS => t.late = 0 /\ t.gen <= gen[s]
    BY <2>1, OnTime DEF Good, Thread
  <2>. QED  BY <2>1, <2>2 DEF Good, Thread, Fits, Prompt
<1>3. Queued(s)
  <2>. DEFINE new == IF Read(s, k + 1) THEN Append(queue[s][k + 1], "PIPELINE_END") ELSE queue[s][k + 1]
  <2>1. Allowed(s) = Kinds /\ "PIPELINE_END" \in Kinds
    BY DEF Allowed, Kinds
  <2>2. k + 1 \in Queues /\ k # k + 1
    BY StageFacts
  <2>3. new \in Seq(Allowed(s)) /\ << >> \in Seq(Allowed(s))
    BY <2>1, <2>2, AllowedNow
  <2>4. queue' = [queue EXCEPT ![s][k] = << >>, ![s][k + 1] = new]
    BY <2>2, AllowedNow DEF Leaves
  <2>. HIDE DEF new
  <2>. QED  BY <2>3, <2>4, PassKeeps
<1>4. t.pc = "gone" /\ PC(s, k) # "call"
  BY ThreadNow DEF Thread
<1>. HIDE DEF t
<1>. QED  BY <1>1, <1>2, <1>3, <1>4, PlainStep DEF Leaves

LEMMA EndStep ==
  ASSUME IInv, NEW s \in Sessions, NEW k \in Stages,
         SeesStop(s, k) \/ GetPipelineEnd(s, k)
  PROVE  IInv'
<1>1. Untold(s)
  BY DEF IInv
<1>2. CASE SeesStop(s, k)
  <2>1. PC(s, k) \in {"get", "stop"} /\ Leaves(s, k) /\ (PC(s, k) = "stop" \/ stop[s])
    BY <1>2 DEF SeesStop
  <2>. QED  BY <1>1, <2>1, LeavesStep DEF Untold
<1>3. CASE GetPipelineEnd(s, k)
  <2>1. k \in Queues
    BY StageFacts
  <2>2. Head(queue[s][k]) \in Allowed(s)
    BY <1>3, <2>1, AllowedNow DEF GetPipelineEnd
  <2>3. down[s] \notin Early
    BY <1>3, <2>2 DEF GetPipelineEnd, Allowed
  <2>. QED  BY <1>3, <2>3, LeavesStep DEF GetPipelineEnd
<1>. QED  BY <1>2, <1>3

LEMMA SessionEndStep ==
  ASSUME IInv, NEW s \in Sessions, NEW k \in Stages, GetSessionEnd(s, k)
  PROVE  IInv'
<1>1. <<"SESSION_END">> \in Seq(Allowed(s))
  BY Items DEF Kinds
<1>. QED  BY <1>1, PassOn DEF GetSessionEnd

LEMMA AcquireStep ==
  ASSUME IInv, NEW s \in Sessions, NEW k \in Stages, Acquire(s, k)
  PROVE  IInv'
<1>. DEFINE t == [thread[<<s, k>>] EXCEPT !.pc = "call"]
<1>1. Goto(s, k, t) /\ PC(s, k) = "slot"
  BY DEF Acquire, To
<1>2. Good(s, k, thread[<<s, k>>]) /\ thread[<<s, k>>].pc = "slot"
  BY <1>1, ThreadNow DEF PC
<1>3. Slotted(k) /\ k \in Callers
  BY <1>2 DEF Good, Fits, Slotted, Callers
<1>4. Good(s, k, t) /\ t.pc = "call"
  <2>1. k = TTS => t.late = 0 /\ t.gen <= gen[s]
    BY <1>1, <1>2, OnTime DEF Good, Thread
  <2>. QED  BY <1>2, <1>3, <2>1 DEF Good, Thread, Fits, Prompt
<1>. HIDE DEF t
<1>5. Free' /\ \A j \in Callers : Slots(j)'
  BY <1>1, <1>3, <1>4, SlotsTaken DEF Acquire
<1>6. Queued(s)
  BY SameQueues DEF Acquire
<1>7. compacting' \subseteq Sessions
  BY DEF Acquire, IInv, TypeOK
<1>. QED  BY <1>1, <1>4, <1>5, <1>6, <1>7, Step DEF Acquire

-----------------------------------------------------------------------------
(* The handlers. *)

\* What has been taken goes to no other queue, and the thread goes on to t.
LEMMA StartStep ==
  ASSUME IInv, NEW s \in Sessions, NEW k \in Stages, NEW kind, NEW t,
         Takes(s, k, kind, << >>), Good(s, k, t), Goto(s, k, t),
         t.pc \notin {"stop", "gone"}, Slotted(k) => t.pc # "call",
         UNCHANGED <<load, free, gen, stop, down, compacting>>
  PROVE  IInv'
<1>1. Queued(s) /\ PC(s, k) = "get"
  BY Items, TakesKeeps
<1>. QED  BY <1>1, PlainStep

LEMMA VadAndNotifierSteps ==
  ASSUME IInv, NEW s \in Sessions, VadUtterance(s) \/ Notify(s)
  PROVE  IInv'
<1>1. VAD \in Stages /\ Notifier \in Stages
  BY StageFacts
<1>2. <<"utterance">> \in Seq(Allowed(s)) /\ << >> \in Seq(Allowed(s))
  BY Items DEF Kinds
<1>3. CASE VadUtterance(s)
  BY <1>1, <1>2, <1>3, PassOn DEF VadUtterance
<1>4. CASE Notify(s)
  BY <1>1, <1>2, <1>4, PassOn DEF Notify
<1>. QED  BY <1>3, <1>4

\* A caller's answer: the slot is free again, and the thread goes on.
LEMMA AnswerStep ==
  ASSUME IInv, NEW s \in Sessions, NEW k \in Callers, Slotted(k), PC(s, k) = "call",
         free' = Released(k), Goto(s, k, Afresh(s)), Queued(s),
         UNCHANGED <<load, gen, stop, down>>, compacting' \subseteq Sessions
  PROVE  IInv'
<1>1. k \in Stages
  BY StageFacts
<1>2. Good(s, k, Afresh(s)) /\ Afresh(s).pc # "call"
  BY <1>1, NextItem
<1>3. Free' /\ \A j \in Callers : Slots(j)'
  BY <1>2, SlotsFreed
<1>4. Afresh(s).pc \in {"stop", "gone"} => stop[s]
  BY <1>1, NextItem
<1>. QED  BY <1>1, <1>2, <1>3, <1>4, Step

LEMMA SttSteps ==
  ASSUME IInv, NEW s \in Sessions, SttStarts(s) \/ SttAnswers(s)
  PROVE  IInv'
<1>1. STT \in Callers /\ STT \in Stages /\ STT # TTS /\ Notifier \in Queues /\ Slotted(STT)
  BY StageFacts DEF Callers, Slotted
<1>2. CASE SttStarts(s)
  <2>. DEFINE t == [Idle EXCEPT !.pc = "slot"]
  <2>1. Good(s, STT, t) /\ t.pc = "slot"
    BY <1>1 DEF Idle, Good, Thread, Fits
  <2>2. Goto(s, STT, t)
    BY <1>2 DEF SttStarts
  <2>. HIDE DEF t
  <2>. QED  BY <1>1, <1>2, <2>1, <2>2, StartStep DEF SttStarts
<1>3. CASE SttAnswers(s)
  <2>1. <<"transcript">> \in Seq(Allowed(s))
    BY Items DEF Kinds
  <2>2. Queued(s)
    BY <1>1, <1>3, <2>1, PutKeeps, SameQueues DEF SttAnswers
  <2>3. Goto(s, STT, Afresh(s))
    BY <1>1, <1>3, NextItem DEF SttAnswers
  <2>4. compacting' \subseteq Sessions
    BY <1>3 DEF SttAnswers, IInv, TypeOK
  <2>. QED  BY <1>1, <1>3, <2>2, <2>3, <2>4, AnswerStep DEF SttAnswers
<1>. QED  BY <1>2, <1>3

LEMMA LmSteps ==
  ASSUME IInv, NEW s \in Sessions, LmStarts(s) \/ LmText(s) \/ LmEnds(s)
  PROVE  IInv'
<1>1. /\ LM \in Callers /\ LM \in Stages /\ LM # TTS /\ Processor \in Queues /\ Slotted(LM)
      /\ gen[s] \in Nat
  <2>1. LM \in Stages /\ LM # TTS /\ Processor \in Queues
    BY StageFacts
  <2>2. LM \in Callers /\ Slotted(LM)
    BY DEF Callers, Slotted
  <2>3. gen[s] \in Nat
    BY <2>1, ThreadNow
  <2>. QED  BY <2>1, <2>2, <2>3
<1>2. CASE LmStarts(s)
  <2>. DEFINE t == [Idle EXCEPT !.pc = "slot", !.gen = gen[s]]
  <2>1. Good(s, LM, t) /\ t.pc = "slot"
    BY <1>1 DEF Idle, Good, Thread, Fits
  <2>2. Goto(s, LM, t)
    BY <1>2 DEF LmStarts
  <2>. HIDE DEF t
  <2>. QED  BY <1>1, <1>2, <2>1, <2>2, StartStep DEF LmStarts
<1>3. CASE LmText(s)
  <2>. DEFINE u == thread[<<s, LM>>]
              t == [u EXCEPT !.n = @ + 1]
  <2>1. Good(s, LM, u) /\ u.pc = "call" /\ PC(s, LM) = "call"
    BY <1>1, <1>3, ThreadNow DEF LmText, PC
  <2>2. Good(s, LM, t) /\ t.pc = "call"
    BY <1>1, <2>1 DEF Good, Thread, Fits
  <2>3. Goto(s, LM, t)
    <3>1. thread' = [thread EXCEPT ![<<s, LM>>] = [thread[<<s, LM>>] EXCEPT !.n = thread[<<s, LM>>].n + 1]]
      BY <1>3 DEF LmText
    <3>. QED  BY <3>1 DEF Goto
  <2>. HIDE DEF t, u
  <2>4. Queued(s)
    <3>1. <<"text">> \in Seq(Allowed(s))
      BY Items DEF Kinds
    <3>. QED  BY <1>1, <1>3, <3>1, PutKeeps DEF LmText
  <2>. QED  BY <1>1, <1>3, <2>1, <2>2, <2>3, <2>4, PlainStep DEF LmText
<1>4. CASE LmEnds(s)
  <2>1. free' = Released(LM)
    BY <1>4 DEF LmEnds, Freed
  <2>2. \/ \E said \in {<<"usage">>, <<"text", "usage">>} : Put(s, Processor, Append(said, "end"))
        \/ Put(s, Processor, <<"end">>) \/ Put(s, Processor, <<"text", "end">>)
    BY <1>4 DEF LmEnds
  <2>3. \E m \in Seq(Allowed(s)) : Put(s, Processor, m)
    <3>1. /\ <<"usage">> \in Seq(Allowed(s)) /\ <<"text", "usage">> \in Seq(Allowed(s))
          /\ <<"end">> \in Seq(Allowed(s)) /\ <<"text", "end">> \in Seq(Allowed(s))
      BY Items DEF Kinds
    <3>2. "end" \in Allowed(s)
      BY DEF Allowed, Kinds
    <3>3. \A said \in Seq(Allowed(s)) : Append(said, "end") \in Seq(Allowed(s))
      BY <3>2
    <3>. QED  BY <2>2, <3>1, <3>3
  <2>4. Queued(s)
    BY <1>1, <2>3, PutKeeps
  <2>5. compacting' \subseteq Sessions
    BY <1>4 DEF LmEnds, IInv, TypeOK
  <2>6. Goto(s, LM, Afresh(s))
    BY <1>1, <1>4, NextItem DEF LmEnds
  <2>. QED  BY <1>1, <1>4, <2>1, <2>4, <2>5, <2>6, AnswerStep DEF LmEnds
<1>. QED  BY <1>2, <1>3, <1>4

LEMMA ProcessorStep ==
  ASSUME IInv, NEW s \in Sessions, ProcessLm(s)
  PROVE  IInv'
<1>1. Processor \in Stages /\ Processor \in Queues
  BY StageFacts
<1>2. CASE Takes(s, Processor, "usage", << >>)
  BY <1>1, <1>2, Items, PassOn DEF ProcessLm
<1>3. ASSUME NEW kind \in {"text", "end"}, Takes(s, Processor, kind, <<Head(queue[s][Processor])>>)
      PROVE  IInv'
  <2>1. Head(queue[s][Processor]) = kind
    BY <1>3 DEF Takes
  <2>2. <<Head(queue[s][Processor])>> \in Seq(Allowed(s))
    BY <2>1, Items DEF Kinds
  <2>. QED  BY <1>1, <1>3, <2>2, PassOn DEF ProcessLm
<1>. QED  BY <1>2, <1>3 DEF ProcessLm

\* A step of a synthesis that ends its call: only the OpenAI back end holds a
\* slot, and it gives it back.
LEMMA TtsOver ==
  ASSUME IInv, NEW s \in Sessions, PC(s, TTS) = "call", NEW t, Good(s, TTS, t),
         Goto(s, TTS, t), t.pc # "call", t.pc \in {"stop", "gone"} => stop[s],
         free' = IF load.backend = "openai" THEN Released(TTS) ELSE free,
         UNCHANGED <<load, queue, gen, stop, down, compacting>>
  PROVE  IInv'
<1>1. TTS \in Callers /\ TTS \in Stages /\ (Slotted(TTS) <=> load.backend = "openai")
  BY StageFacts DEF Callers, Slotted
<1>2. Free' /\ \A j \in Callers : Slots(j)'
  BY <1>1, SlotsFreed, SlotsKept
<1>3. Queued(s) /\ compacting' \subseteq Sessions
  BY SameQueues DEF IInv, TypeOK
<1>. QED  BY <1>1, <1>2, <1>3, Step

LEMMA Begun ==
  ASSUME NEW g, NEW p
  PROVE  [Idle EXCEPT !.gen = g, !.pc = p] = [pc |-> p, gen |-> g, n |-> 0, late |-> 0]
<1>. DEFINE x == [pc |-> "get", gen |-> g, n |-> 0, late |-> 0]
<1>1. [Idle EXCEPT !.gen = g] = x
  BY DEF Idle
<1>2. [x EXCEPT !.pc = p] = [pc |-> p, gen |-> g, n |-> 0, late |-> 0]
  OBVIOUS
<1>. HIDE DEF x
<1>3. [Idle EXCEPT !.gen = g, !.pc = p] = [[Idle EXCEPT !.gen = g] EXCEPT !.pc = p]
  OBVIOUS
<1>. QED  BY <1>1, <1>2, <1>3

\* A frame is counted, and counted as late or not.
LEMMA Counted ==
  ASSUME NEW t \in Thread, NEW l \in Nat, NEW a, a = [t EXCEPT !.n = t.n + 1, !.late = l]
  PROVE  a \in Thread /\ a.late = l /\ a.gen = t.gen
<1>1. t.n + 1 \in Nat
  BY DEF Thread
<1>. DEFINE x == [t EXCEPT !.n = t.n + 1]
<1>2. x \in Thread /\ x.gen = t.gen
  BY <1>1 DEF Thread
<1>3. a = [x EXCEPT !.late = l]
  OBVIOUS
<1>. HIDE DEF x
<1>. QED  BY <1>2, <1>3 DEF Thread

LEMMA TtsStartsStep ==
  ASSUME IInv, NEW s \in Sessions, TtsDone(s) \/ TtsStarts(s)
  PROVE  IInv'
<1>1. TTS \in Stages /\ gen[s] \in Nat /\ load.backend \in Backends
  BY StageFacts, ThreadNow, CapFacts DEF IInv, TypeOK
<1>2. CASE TtsDone(s)
  <2>1. <<"done">> \in Seq(Allowed(s))
    BY Items DEF Kinds
  <2>. QED  BY <1>1, <1>2, <2>1, PassOn DEF TtsDone
<1>3. CASE TtsStarts(s)
  <2>. DEFINE pc == CASE load.backend = "openai"     -> "slot"
                      [] load.backend = "elevenlabs" -> "call"
                      [] load.backend = "minimax"    -> "check"
              t  == [pc |-> pc, gen |-> gen[s], n |-> 0, late |-> 0]
  <2>1. \/ load.backend = "openai" /\ pc = "slot"
        \/ load.backend = "elevenlabs" /\ pc = "call"
        \/ load.backend = "minimax" /\ pc = "check"
    <3>. USE <1>1 DEF Backends
    <3>1. CASE load.backend = "openai"
      BY <3>1
    <3>2. CASE load.backend = "elevenlabs"
      BY <3>2
    <3>3. CASE load.backend = "minimax"
      BY <3>3
    <3>. QED  BY <3>1, <3>2, <3>3
  <2>2. Goto(s, TTS, t)
    <3>1. Goto(s, TTS, [Idle EXCEPT !.gen = gen[s], !.pc = pc])
      BY <1>3 DEF TtsStarts
    <3>. HIDE DEF pc
    <3>2. [Idle EXCEPT !.gen = gen[s], !.pc = pc] = t
      BY Begun
    <3>. QED  BY <3>1, <3>2
  <2>. HIDE DEF pc
  <2>3. t = [pc |-> pc, gen |-> gen[s], n |-> 0, late |-> 0]
    OBVIOUS
  <2>. HIDE DEF t
  <2>4. /\ pc \in {"slot", "call", "check"} /\ (Slotted(TTS) => pc # "call")
        /\ (pc = "slot" => Slotted(TTS)) /\ (pc = "check" => load.backend = "minimax")
    <3>1. Slotted(TTS) <=> load.backend = "openai"
      BY StageFacts DEF Slotted
    <3>. QED  BY <2>1, <3>1
  <2>5. Good(s, TTS, t)
    BY <1>1, <2>3, <2>4 DEF Good, Thread, Fits, Prompt, Callers
  <2>6. t.pc = pc
    BY <2>3
  <2>. QED  BY <1>1, <1>3, <2>2, <2>4, <2>5, <2>6, StartStep DEF TtsStarts
<1>. QED  BY <1>2, <1>3

\* A chunk is read, the clip is complete, or the call fails.
LEMMA TtsCallSteps ==
  ASSUME IInv, NEW s \in Sessions, TtsReads(s) \/ TtsComplete(s) \/ TtsFails(s)
  PROVE  IInv'
<1>. DEFINE u == thread[<<s, TTS>>]
<1>1. TTS \in Stages /\ PC(s, TTS) = "call"
  BY StageFacts DEF TtsReads, TtsComplete, TtsFails
<1>2. Good(s, TTS, u) /\ u.pc = "call" /\ u.late = 0 /\ u.gen <= gen[s]
  BY <1>1, ThreadNow, OnTime DEF PC
<1>3. /\ TtsSlot = IF load.backend = "openai" THEN Released(TTS) ELSE free
      /\ TtsClosed = IF load.backend = "openai" THEN Released(TTS) ELSE free
  BY DEF TtsSlot, TtsClosed, Freed
<1>4. Good(s, TTS, Afresh(s)) /\ Afresh(s).pc # "call" /\ (Afresh(s).pc \in {"stop", "gone"} => stop[s])
  BY <1>1, NextItem
<1>5. CASE TtsReads(s) /\ Aborts(s)
  BY <1>1, <1>3, <1>4, <1>5, NextItem, TtsOver DEF TtsReads
<1>6. CASE TtsReads(s) /\ ~Aborts(s)
  <2>. DEFINE t == [u EXCEPT !.n = @ + 1]
  <2>1. Goto(s, TTS, t)
    <3>1. Accepted(s) = [u EXCEPT !.n = @ + 1, !.late = @]
      BY <1>6 DEF Accepted, Aborts
    <3>2. Accepted(s) = t
      BY <1>2, <3>1 DEF Good, Thread
    <3>. QED  BY <1>6, <3>2 DEF TtsReads
  <2>2. Good(s, TTS, t) /\ t.pc = "call"
    BY <1>2 DEF Good, Thread, Fits, Prompt
  <2>. HIDE DEF t, u
  <2>3. Queued(s)
    BY <1>6, SameQueues DEF TtsReads
  <2>. QED  BY <1>1, <1>6, <2>1, <2>2, <2>3, PlainStep DEF TtsReads
<1>7. CASE TtsComplete(s)
  <2>. DEFINE t == [u EXCEPT !.pc = "emit"]
  <2>1. Goto(s, TTS, Afresh(s)) \/ Goto(s, TTS, t)
    BY <1>1, <1>7, NextItem DEF TtsComplete, To
  <2>2. Good(s, TTS, t) /\ t.pc = "emit"
    BY <1>2 DEF Good, Thread, Fits, Prompt
  <2>. HIDE DEF t, u
  <2>. QED  BY <1>1, <1>3, <1>4, <1>7, <2>1, <2>2, TtsOver DEF TtsComplete
<1>8. CASE TtsFails(s)
  BY <1>1, <1>3, <1>4, <1>8, NextItem, TtsOver DEF TtsFails
<1>. QED  BY <1>5, <1>6, <1>7, <1>8

\* MiniMax looks before each frame; the others emit what they have read.
LEMMA TtsStreamSteps ==
  ASSUME IInv, NEW s \in Sessions, TtsEmits(s) \/ TtsChecks(s) \/ TtsFrame(s)
  PROVE  IInv'
<1>. DEFINE u == thread[<<s, TTS>>]
<1>1. TTS \in Stages /\ TTS + 1 \in Queues
  BY StageFacts
<1>2. Good(s, TTS, u) /\ u.pc = PC(s, TTS)
  BY <1>1, ThreadNow DEF PC
<1>3. Good(s, TTS, Afresh(s)) /\ Afresh(s).pc # "call" /\ (Afresh(s).pc \in {"stop", "gone"} => stop[s])
  BY <1>1, NextItem
<1>4. <<"audio">> \in Seq(Allowed(s))
  BY Items DEF Kinds
<1>5. Again(s, TTS) <=> Goto(s, TTS, Afresh(s))
  BY <1>1, NextItem
<1>6. CASE TtsEmits(s)
  <2>. DEFINE t == [u EXCEPT !.n = @ - 1]
  <2>1. Queued(s)
    BY <1>1, <1>4, <1>6, PutKeeps DEF TtsEmits
  <2>2. PC(s, TTS) = "emit" /\ ((u.n > 1 /\ Goto(s, TTS, t)) \/ Goto(s, TTS, Afresh(s)))
    BY <1>5, <1>6 DEF TtsEmits, Goto
  <2>3. u.late = 0 /\ u.gen <= gen[s]
    BY <2>2, OnTime
  <2>4. u.n > 1 => Good(s, TTS, t) /\ t.pc = "emit"
    BY <1>2, <2>2, <2>3 DEF Good, Thread, Fits, Prompt
  <2>. HIDE DEF t, u
  <2>. QED  BY <1>1, <1>3, <1>6, <2>1, <2>2, <2>4, PlainStep DEF TtsEmits
<1>7. CASE TtsChecks(s)
  <2>. DEFINE t == [u EXCEPT !.pc = "call"]
  <2>1. Queued(s)
    BY <1>7, SameQueues DEF TtsChecks
  <2>2. PC(s, TTS) = "check" /\ ((u.gen = gen[s] /\ Goto(s, TTS, t)) \/ Goto(s, TTS, Afresh(s)))
    BY <1>5, <1>7 DEF TtsChecks, To, Aborts, Stale
  <2>3. u.gen = gen[s] => Good(s, TTS, t) /\ t.pc = "call"
    BY <1>2 DEF Good, Thread, Fits, Prompt, Callers
  <2>4. ~Slotted(TTS)
    BY <1>2, <2>2, StageFacts DEF Good, Fits, Slotted
  <2>. HIDE DEF t, u
  <2>. QED  BY <1>1, <1>3, <1>7, <2>1, <2>2, <2>3, <2>4, PlainStep DEF TtsChecks
<1>8. CASE TtsFrame(s)
  <2>. DEFINE t == [Accepted(s) EXCEPT !.pc = "check"]
  <2>1. Queued(s)
    BY <1>1, <1>4, <1>8, PutKeeps, SameQueues DEF TtsFrame
  <2>2. PC(s, TTS) = "call" /\ load.backend = "minimax" /\ (Goto(s, TTS, t) \/ Goto(s, TTS, Afresh(s)))
    BY <1>5, <1>8 DEF TtsFrame
  <2>3. u.late = 0 /\ u.gen <= gen[s]
    BY <2>2, OnTime
  <2>4. /\ u.gen = gen[s] => Accepted(s).late = 0
        /\ u.gen # gen[s] => Accepted(s).late = 1
        /\ Accepted(s) \in Thread /\ Accepted(s).gen = u.gen
    <3>1. u \in Thread
      BY <1>2 DEF Good
    <3>2. CASE Stale(s, TTS)
      <4>1. Accepted(s) = [u EXCEPT !.n = u.n + 1, !.late = u.late + 1]
        BY <3>2 DEF Accepted
      <4>2. u.late + 1 = 1 /\ u.gen # gen[s]
        BY <2>3, <3>2 DEF Stale
      <4>. HIDE DEF u
      <4>3. 1 \in Nat /\ Accepted(s) = [u EXCEPT !.n = u.n + 1, !.late = 1]
        BY <4>1, <4>2
      <4>4. Accepted(s) \in Thread /\ Accepted(s).late = 1 /\ Accepted(s).gen = u.gen
        BY <3>1, <4>3, Counted
      <4>. QED  BY <4>2, <4>4
    <3>3. CASE ~Stale(s, TTS)
      <4>1. Accepted(s) = [u EXCEPT !.n = u.n + 1, !.late = u.late]
        BY <3>3 DEF Accepted
      <4>2. u.late = 0 /\ u.gen = gen[s]
        BY <2>3, <3>3 DEF Stale
      <4>. HIDE DEF u
      <4>3. 0 \in Nat /\ Accepted(s) = [u EXCEPT !.n = u.n + 1, !.late = 0]
        BY <4>1, <4>2
      <4>4. Accepted(s) \in Thread /\ Accepted(s).late = 0 /\ Accepted(s).gen = u.gen
        BY <3>1, <4>3, Counted
      <4>. QED  BY <4>2, <4>4
    <3>. QED  BY <3>2, <3>3
  <2>5. Good(s, TTS, t) /\ t.pc = "check"
    <3>. HIDE DEF u
    <3>. DEFINE a == Accepted(s)
    <3>1. /\ a \in Thread /\ a.gen <= gen[s] /\ a.late \in {0, 1}
          /\ a.late = 1 => a.gen # gen[s]
      BY <2>3, <2>4 DEF Thread
    <3>2. t = [a EXCEPT !.pc = "check"]
      OBVIOUS
    <3>. HIDE DEF a, t
    <3>3. t \in Thread /\ t.pc = "check" /\ t.gen = a.gen /\ t.late = a.late
      BY <3>1, <3>2 DEF Thread
    <3>. QED  BY <2>2, <3>1, <3>3 DEF Good, Fits, Prompt
  <2>6. ~Slotted(TTS)
    BY <2>2, StageFacts DEF Slotted
  <2>. HIDE DEF t, u
  <2>. QED  BY <1>1, <1>3, <1>8, <2>1, <2>2, <2>5, <2>6, PlainStep DEF TtsFrame
<1>. QED  BY <1>6, <1>7, <1>8

-----------------------------------------------------------------------------
(* The websocket and the teardown. *)

\* No thread moves and no slot changes hands; and what the teardown has not
\* told the session yet is not told.
Outside(s) ==
  /\ UNCHANGED <<load, thread, free>>
  /\ queue' \in [Sessions -> [Queues -> Seq(Kinds)]]
  /\ gen' \in [Sessions -> Nat] /\ \A o \in Sessions : gen[o] <= gen'[o]
  /\ stop' \in [Sessions -> BOOLEAN]
  /\ down' \in [Sessions -> {"up", "ending", "ended", "joining", "down"}]
  /\ compacting' \subseteq Sessions
  /\ \A o \in Sessions : o # s =>
       queue'[o] = queue[o] /\ stop'[o] = stop[o] /\ down'[o] = down[o]
  /\ down'[s] \in Early =>
       /\ down[s] \in Early /\ stop'[s] = stop[s]
       /\ \A k \in Queues : queue'[s][k] \in Seq(Allowed(s))

LEMMA OutsideStep ==
  ASSUME IInv, NEW s \in Sessions, Outside(s)
  PROVE  IInv'
<1>. USE DEF Outside
<1>1. TypeOK'
  BY DEF IInv, TypeOK
<1>2. ASSUME NEW o \in Sessions, NEW k \in Stages PROVE Good(o, k, thread[<<o, k>>])'
  <2>. DEFINE t == thread[<<o, k>>]
  <2>1. Good(o, k, t) /\ gen[o] \in Nat /\ gen'[o] \in Nat /\ gen[o] <= gen'[o]
    BY ThreadNow
  <2>2. t \in Thread /\ Fits(k, t) /\ thread'[<<o, k>>] = t
    BY <2>1 DEF Good
  <2>3. Fits(k, thread[<<o, k>>])'
    BY <2>2 DEF Fits, Slotted
  <2>4. t.gen \in Nat
    BY <2>2 DEF Thread
  <2>. HIDE DEF t
  <2>5. k = TTS => /\ t.gen <= gen'[o]
                   /\ t.late > 0 => /\ load.backend = "minimax" /\ t.late = 1
                                    /\ t.pc = "check" /\ t.gen # gen'[o]
    BY <2>1, <2>4 DEF Good, Prompt
  <2>6. k = TTS => Prompt(o, thread[<<o, k>>])'
    BY <2>2, <2>5 DEF Prompt
  <2>. QED  BY <2>2, <2>3, <2>6, Zenon DEF Good
<1>3. ASSUME NEW o \in Sessions PROVE Untold(o)'
  <2>1. Untold(o) /\ \A j \in Stages : PC(o, j)' = PC(o, j)
    BY DEF IInv, PC
  <2>2. CASE o # s
    <3>1. queue'[o] = queue[o] /\ stop'[o] = stop[o] /\ down'[o] = down[o]
      BY <2>2
    <3>. QED  BY <2>1, <3>1 DEF Untold
  <2>3. CASE o = s
    BY <2>1, <2>3 DEF Untold, Allowed
  <2>. QED  BY <2>2, <2>3
<1>4. \A j \in Callers : (Slotted(j) =>
        (Limited(j) => free[ServiceOf(j)] + Cardinality(Holders(j)) = load.cap[ServiceOf(j)]))'
  <2>1. \A j \in Callers : Holders(j)' = Holders(j)
    BY DEF Holders, PC
  <2>. QED  BY <2>1 DEF IInv, Slotted, Limited
<1>. QED  BY <1>1, <1>2, <1>3, <1>4 DEF IInv

LEMMA AskSteps ==
  ASSUME IInv, NEW s \in Sessions, Speech(s) \/ Request(s) \/ Cancel(s) \/ Compacted(s)
  PROVE  IInv'
<1>1. /\ \A o \in Sessions : gen[o] \in Nat
      /\ gen \in [Sessions -> Nat] /\ stop \in [Sessions -> BOOLEAN]
      /\ down \in [Sessions -> {"up", "ending", "ended", "joining", "down"}]
      /\ compacting \subseteq Sessions
  BY DEF IInv, TypeOK
<1>2. Queued(s)
  <2>1. VAD \in Queues /\ LM \in Queues
    BY StageFacts
  <2>2. <<"speech">> \in Seq(Allowed(s)) /\ <<"request">> \in Seq(Allowed(s))
    BY Items DEF Kinds
  <2>3. CASE Put(s, VAD, <<"speech">>)
    BY <2>1, <2>2, <2>3, PutKeeps
  <2>4. CASE Put(s, LM, <<"request">>)
    BY <2>1, <2>2, <2>4, PutKeeps
  <2>5. CASE UNCHANGED queue
    BY <2>5, SameQueues
  <2>. QED  BY <2>3, <2>4, <2>5 DEF Speech, Request, Cancel, Compacted
<1>3. UNCHANGED <<load, thread, free, stop, down>>
  BY DEF Speech, Request, Cancel, Compacted
<1>4. gen' \in [Sessions -> Nat] /\ \A o \in Sessions : gen[o] <= gen'[o]
  <2>1. UNCHANGED gen \/ gen' = [gen EXCEPT ![s] = @ + 1]
    BY DEF Speech, Request, Cancel, Compacted
  <2>. QED  BY <1>1, <2>1
<1>5. compacting' \subseteq Sessions
  BY <1>1 DEF Speech, Request, Cancel, Compacted
<1>6. Outside(s)
  <2>1. /\ queue' \in [Sessions -> [Queues -> Seq(Kinds)]]
        /\ \A o \in Sessions : o # s => queue'[o] = queue[o]
        /\ \A k \in Queues : queue'[s][k] \in Seq(Allowed(s))
    BY <1>2 DEF Queued
  <2>. QED  BY <1>1, <1>3, <1>4, <1>5, <2>1 DEF Outside
<1>. QED  BY <1>6, OutsideStep

\* What has been queued before PIPELINE_END is not affected.
LEMMA ShutdownSteps ==
  ASSUME IInv, NEW s \in Sessions, Shutdown(s)
  PROVE  IInv'
<1>1. /\ gen \in [Sessions -> Nat] /\ stop \in [Sessions -> BOOLEAN]
      /\ down \in [Sessions -> {"up", "ending", "ended", "joining", "down"}]
      /\ compacting \subseteq Sessions /\ queue \in [Sessions -> [Queues -> Seq(Kinds)]]
      /\ \A o \in Sessions : gen[o] <= gen[o]
  BY DEF IInv, TypeOK
<1>2. VAD \in Queues
  BY StageFacts
<1>3. UNCHANGED <<load, thread, free, gen, compacting>>
  BY DEF Shutdown, ShutSessionEnd, ShutPipelineEnd, ShutStop, ShutJoin, Shut
<1>4. CASE ShutSessionEnd(s)
  <2>1. Queued(s)
    <3>1. <<"SESSION_END">> \in Seq(Allowed(s))
      BY Items DEF Kinds
    <3>. QED  BY <1>2, <1>4, <3>1, PutKeeps DEF ShutSessionEnd
  <2>2. /\ queue' \in [Sessions -> [Queues -> Seq(Kinds)]]
        /\ \A o \in Sessions : o # s => queue'[o] = queue[o]
        /\ \A k \in Queues : queue'[s][k] \in Seq(Allowed(s))
    BY <2>1 DEF Queued
  <2>3. down[s] \in Early /\ down' = [down EXCEPT ![s] = "ending"] /\ UNCHANGED stop
    BY <1>4 DEF ShutSessionEnd, Shut, Early
  <2>4. Outside(s)
    BY <1>1, <1>3, <2>2, <2>3 DEF Outside
  <2>. QED  BY <2>4, OutsideStep
<1>5. CASE ShutPipelineEnd(s) \/ ShutStop(s) \/ ShutJoin(s)
  <2>1. \E to \in {"ended", "joining", "down"} : down' = [down EXCEPT ![s] = to]
    BY <1>5 DEF ShutPipelineEnd, ShutStop, ShutJoin, Shut
  <2>2. /\ down' \in [Sessions -> {"up", "ending", "ended", "joining", "down"}]
        /\ down'[s] \notin Early /\ \A o \in Sessions : o # s => down'[o] = down[o]
    BY <1>1, <2>1 DEF Early
  <2>3. UNCHANGED stop \/ stop' = [stop EXCEPT ![s] = TRUE]
    BY <1>5 DEF ShutPipelineEnd, ShutStop, ShutJoin
  <2>4. stop' \in [Sessions -> BOOLEAN] /\ \A o \in Sessions : o # s => stop'[o] = stop[o]
    BY <1>1, <2>3
  <2>5. /\ queue' \in [Sessions -> [Queues -> Seq(Kinds)]]
        /\ \A o \in Sessions : o # s => queue'[o] = queue[o]
    <3>1. CASE queue' = queue
      BY <1>1, <3>1
    <3>2. CASE queue' = [queue EXCEPT ![s][VAD] = @ \o <<"PIPELINE_END">>]
      <4>1. queue[s][VAD] \in Seq(Kinds) /\ <<"PIPELINE_END">> \in Seq(Kinds)
        BY <1>1, <1>2 DEF Kinds
      <4>2. queue[s][VAD] \o <<"PIPELINE_END">> \in Seq(Kinds)
        BY <4>1
      <4>. QED  BY <1>1, <1>2, <3>2, <4>2
    <3>. QED  BY <1>5, <3>1, <3>2 DEF ShutPipelineEnd, ShutStop, ShutJoin, Put
  <2>6. Outside(s)
    BY <1>1, <1>3, <2>2, <2>4, <2>5 DEF Outside
  <2>. QED  BY <2>6, OutsideStep
<1>. QED  BY <1>4, <1>5 DEF Shutdown

-----------------------------------------------------------------------------
(* The theorems. *)

LEMMA InitIInv == Init => IInv
<1>. SUFFICES ASSUME Init PROVE IInv
  OBVIOUS
<1>1. load \in Loads /\ load.cap \in [Services -> Nat]
  BY CapFacts DEF Init
<1>2. Idle \in Thread /\ Idle.pc = "get" /\ Idle.gen = 0 /\ Idle.late = 0
  BY DEF Idle, Thread
<1>3. \A s \in Sessions, k \in Stages : thread[<<s, k>>] = Idle /\ PC(s, k) = "get"
  BY <1>2 DEF Init, Handler, PC
<1>4. TypeOK
  <2>1. << >> \in Seq(Kinds)
    OBVIOUS
  <2>2. queue \in [Sessions -> [Queues -> Seq(Kinds)]]
    BY <2>1 DEF Init
  <2>3. thread \in [Handler -> Thread]
    BY <1>2 DEF Init
  <2>4. free \in [Services -> Nat] /\ \A v \in Services : free[v] <= load.cap[v]
    BY <1>1 DEF Init
  <2>. QED  BY <1>1, <2>2, <2>3, <2>4 DEF Init, TypeOK
<1>5. \A s \in Sessions, k \in Stages : Good(s, k, thread[<<s, k>>])
  <2>1. \A s \in Sessions : gen[s] = 0
    BY DEF Init
  <2>2. \A s \in Sessions, k \in Stages : Good(s, k, Idle)
    BY <1>2, <2>1 DEF Good, Fits, Prompt
  <2>. QED  BY <1>3, <2>2
<1>6. \A s \in Sessions : Untold(s)
  <2>1. \A s \in Sessions, k \in Queues : queue[s][k] = << >>
    BY DEF Init
  <2>2. << >> \in Seq(Kinds \ {"PIPELINE_END"})
    OBVIOUS
  <2>3. \A s \in Sessions : ~stop[s]
    BY DEF Init
  <2>. QED  BY <1>3, <2>1, <2>2, <2>3 DEF Untold
<1>7. ASSUME NEW k \in Callers
      PROVE  free[ServiceOf(k)] + Cardinality(Holders(k)) = load.cap[ServiceOf(k)]
  <2>1. k \in Stages /\ ServiceOf(k) \in Services
    BY StageFacts
  <2>2. Holders(k) = {}
    BY <1>3, <2>1 DEF Holders
  <2>3. Cardinality(Holders(k)) = 0
    BY <2>2, FS_EmptySet
  <2>. QED  BY <1>1, <2>1, <2>3 DEF Init
<1>. QED  BY <1>4, <1>5, <1>6, <1>7 DEF IInv

LEMMA Inductive == IInv /\ [Next]_vars => IInv'
<1>. SUFFICES ASSUME IInv, [Next]_vars PROVE IInv'
  OBVIOUS
<1>1. CASE UNCHANGED vars
  BY <1>1 DEF vars, IInv, TypeOK, Good, Fits, Prompt, Untold, Slotted, Limited, Holders, PC
<1>2. ASSUME NEW s \in Sessions,
             Speech(s) \/ Request(s) \/ Cancel(s) \/ Shutdown(s) \/ Compacted(s)
      PROVE  IInv'
  BY <1>2, AskSteps, ShutdownSteps
<1>3. ASSUME NEW s \in Sessions, NEW k \in Stages, Run(s, k) PROVE IInv'
  <2>1. CASE SeesStop(s, k) \/ GetPipelineEnd(s, k)
    BY <2>1, EndStep
  <2>2. CASE GetSessionEnd(s, k)
    BY <2>2, SessionEndStep
  <2>3. CASE Acquire(s, k)
    BY <2>3, AcquireStep
  <2>4. CASE VadUtterance(s) \/ Notify(s)
    BY <2>4, VadAndNotifierSteps
  <2>5. CASE SttStarts(s) \/ SttAnswers(s)
    BY <2>5, SttSteps
  <2>6. CASE LmStarts(s) \/ LmText(s) \/ LmEnds(s)
    BY <2>6, LmSteps
  <2>7. CASE ProcessLm(s)
    BY <2>7, ProcessorStep
  <2>8. CASE TtsDone(s) \/ TtsStarts(s)
    BY <2>8, TtsStartsStep
  <2>9. CASE TtsReads(s) \/ TtsComplete(s) \/ TtsFails(s)
    BY <2>9, TtsCallSteps
  <2>10. CASE TtsEmits(s) \/ TtsChecks(s) \/ TtsFrame(s)
    BY <2>10, TtsStreamSteps
  <2>. QED  BY <1>3, <2>1, <2>2, <2>3, <2>4, <2>5, <2>6, <2>7, <2>8, <2>9, <2>10 DEF Run
<1>. QED  BY <1>1, <1>2, <1>3 DEF Next

\* The invariant the other theorems follow from.
THEOREM Invariance == Spec => []IInv
  BY InitIInv, Inductive, PTL DEF Spec

\* However many sessions share a limited service, each of its slots is free or
\* held by exactly one call in progress.
THEOREM SlotsAreSound == Spec => []SlotsSound
<1>1. IInv => SlotsSound
  <2>. SUFFICES ASSUME IInv PROVE SlotsSound
    OBVIOUS
  <2>1. ASSUME NEW k \in {STT, LM, TTS}, Limited(k) /\ (k = TTS => load.backend = "openai")
        PROVE  free[ServiceOf(k)] + Cardinality(Holders(k)) = load.cap[ServiceOf(k)]
    <3>1. k \in Callers /\ Slotted(k)
      BY <2>1 DEF Callers, Slotted
    <3>. QED  BY <2>1, <3>1 DEF IInv
  <2>2. SlotsConserved
    BY <2>1 DEF SlotsConserved
  <2>. QED  BY <2>2 DEF IInv, SlotsSound
<1>. QED  BY <1>1, Invariance, PTL

\* After a cancellation a synthesis accepts nothing more, or, with MiniMax, the
\* one frame it is reading.
THEOREM AbortsArePrompt == Spec => []AbortsPromptly
<1>1. IInv => AbortsPromptly
  <2>. SUFFICES ASSUME IInv, NEW s \in Sessions
                PROVE  thread[<<s, TTS>>].late <= (IF load.backend = "minimax" THEN 1 ELSE 0)
    BY DEF AbortsPromptly
  <2>1. Good(s, TTS, thread[<<s, TTS>>])
    BY ThreadNow, StageFacts
  <2>2. thread[<<s, TTS>>].late \in Nat
    BY <2>1 DEF Good, Thread
  <2>. QED  BY <2>1, <2>2 DEF Good, Prompt
<1>. QED  BY <1>1, Invariance, PTL

\* One thread of one session moves, and not one that is gone.
LEMMA RunMoves ==
  ASSUME NEW s \in Sessions, NEW k \in Stages, Run(s, k)
  PROVE  PC(s, k) # "gone" /\ (\E t : Goto(s, k, t)) /\ UNCHANGED down
<1>1. CASE SeesStop(s, k) \/ GetSessionEnd(s, k) \/ GetPipelineEnd(s, k) \/ Acquire(s, k)
  BY <1>1 DEF SeesStop, GetSessionEnd, GetPipelineEnd, Leaves, Acquire, Takes, To, Again
<1>2. CASE (k = VAD /\ VadUtterance(s)) \/ (k = Notifier /\ Notify(s)) \/ (k = Processor /\ ProcessLm(s))
  BY <1>2 DEF VadUtterance, Notify, ProcessLm, Takes, Again
<1>3. CASE k = STT /\ (SttStarts(s) \/ SttAnswers(s))
  BY <1>3 DEF SttStarts, SttAnswers, Takes, Again, Raises
<1>4. CASE k = LM /\ (LmStarts(s) \/ LmText(s) \/ LmEnds(s))
  <2>1. CASE LmText(s)
    <3>1. Goto(s, LM, [thread[<<s, LM>>] EXCEPT !.n = thread[<<s, LM>>].n + 1])
      BY <2>1 DEF LmText, Goto
    <3>. QED  BY <1>4, <2>1, <3>1 DEF LmText
  <2>2. CASE LmStarts(s) \/ LmEnds(s)
    BY <1>4, <2>2 DEF LmStarts, LmEnds, Takes, Again
  <2>. QED  BY <1>4, <2>1, <2>2
<1>5. CASE k = TTS /\ TtsEmits(s)
  <2>1. \/ Goto(s, TTS, [thread[<<s, TTS>>] EXCEPT !.n = thread[<<s, TTS>>].n - 1])
        \/ Again(s, TTS)
    BY <1>5 DEF TtsEmits, Goto
  <2>. QED  BY <1>5, <2>1 DEF TtsEmits, Again
<1>6. CASE k = TTS /\ (TtsDone(s) \/ TtsStarts(s) \/ TtsReads(s) \/ TtsComplete(s))
  <2>1. CASE TtsDone(s) \/ TtsStarts(s)
    BY <1>6, <2>1 DEF TtsDone, TtsStarts, Takes, Again
  <2>2. CASE TtsReads(s) \/ TtsComplete(s)
    BY <1>6, <2>2 DEF TtsReads, TtsComplete, Again, To
  <2>. QED  BY <1>6, <2>1, <2>2
<1>7. CASE k = TTS /\ (TtsChecks(s) \/ TtsFrame(s) \/ TtsFails(s))
  BY <1>7 DEF TtsChecks, TtsFrame, TtsFails, Again, Raises, To
<1>8. \/ SeesStop(s, k) \/ GetSessionEnd(s, k) \/ GetPipelineEnd(s, k) \/ Acquire(s, k)
      \/ (k = VAD /\ VadUtterance(s)) \/ (k = Notifier /\ Notify(s)) \/ (k = Processor /\ ProcessLm(s))
      \/ k = STT /\ (SttStarts(s) \/ SttAnswers(s))
      \/ k = LM /\ (LmStarts(s) \/ LmText(s) \/ LmEnds(s))
      \/ k = TTS /\ TtsEmits(s)
      \/ k = TTS /\ (TtsDone(s) \/ TtsStarts(s) \/ TtsReads(s) \/ TtsComplete(s))
      \/ k = TTS /\ (TtsChecks(s) \/ TtsFrame(s) \/ TtsFails(s))
  BY DEF Run
<1>. QED  BY <1>1, <1>2, <1>3, <1>4, <1>5, <1>6, <1>7, <1>8

\* What the teardown has told a session is not taken back, and tells no other.
LEMMA Untouched ==
  ASSUME IInv, NEW s \in Sessions,
         Speech(s) \/ Request(s) \/ Cancel(s) \/ Shutdown(s) \/ Compacted(s)
  PROVE  /\ \A o \in Sessions : Gone(o)' = Gone(o) /\ (o # s => down'[o] = down[o])
         /\ down[s] \notin Early => down'[s] \notin Early
<1>1. down \in [Sessions -> {"up", "ending", "ended", "joining", "down"}]
  BY DEF IInv, TypeOK
<1>2. UNCHANGED thread
  BY DEF Speech, Request, Cancel, Compacted, Shutdown, ShutSessionEnd, ShutPipelineEnd,
         ShutStop, ShutJoin, Shut
<1>3. \A o \in Sessions : Gone(o)' = Gone(o)
  BY <1>2 DEF Gone, PC
<1>4. \/ UNCHANGED down
      \/ down[s] = "up" /\ down' = [down EXCEPT ![s] = "ending"]
      \/ \E to \in {"ended", "joining", "down"} : down' = [down EXCEPT ![s] = to]
  BY DEF Speech, Request, Cancel, Compacted, Shutdown, ShutSessionEnd, ShutPipelineEnd,
         ShutStop, ShutJoin, Shut
<1>. QED  BY <1>1, <1>3, <1>4 DEF Early

\* The status of a session, by what has happened to it.
LEMMA StatusFacts ==
  ASSUME IInv, NEW s \in Sessions
  PROVE  /\ down[s] \in Early => Gone(s) = {} /\ StatusOf(s) = "running"
         /\ down[s] \notin Early =>
              StatusOf(s) = IF Gone(s) = Stages THEN "stopped" ELSE "stopping"
<1>1. Untold(s) /\ down[s] \in {"up", "ending", "ended", "joining", "down"}
  BY DEF IInv, TypeOK
<1>2. Stages # {}
  BY StageFacts
<1>3. down[s] \in Early => Gone(s) = {}
  BY <1>1 DEF Untold, Gone
<1>. QED  BY <1>1, <1>2, <1>3 DEF StatusOf, Early

LEMMA StatusFactsNext ==
  ASSUME IInv', NEW s \in Sessions
  PROVE  /\ down'[s] \in Early => StatusOf(s)' = "running"
         /\ down'[s] \notin Early =>
              StatusOf(s)' = IF Gone(s)' = Stages THEN "stopped" ELSE "stopping"
<1>1. Untold(s)' /\ down'[s] \in {"up", "ending", "ended", "joining", "down"}
  BY DEF IInv, TypeOK
<1>2. Stages # {}
  BY StageFacts
<1>3. down'[s] \in Early => Gone(s)' = {}
  BY <1>1 DEF Untold, Gone
<1>. QED  BY <1>1, <1>2, <1>3 DEF StatusOf, Early

\* One session's status changes as the abstract threads' does.
LEMMA LifeStep ==
  ASSUME NEW s \in Sessions, \A o \in Sessions : o # s => StatusOf(o)' = StatusOf(o),
         \/ StatusOf(s)' = StatusOf(s)
         \/ StatusOf(s) = "running" /\ StatusOf(s)' = "stopping"
         \/ StatusOf(s) = "stopping" /\ StatusOf(s)' = "stopped"
  PROVE  [Life!Next]_Status
<1>1. CASE StatusOf(s)' = StatusOf(s)
  BY <1>1 DEF Status
<1>2. CASE StatusOf(s) = "running" /\ StatusOf(s)' = "stopping"
  <2>1. Status[s] = "running" /\ Status' = [Status EXCEPT ![s] = "stopping"]
    BY <1>2 DEF Status
  <2>2. Life!Tell(s)
    BY <2>1 DEF Life!Tell
  <2>. QED  BY <2>2 DEF Life!Next
<1>3. CASE StatusOf(s) = "stopping" /\ StatusOf(s)' = "stopped"
  <2>1. Status[s] = "stopping" /\ Status' = [Status EXCEPT ![s] = "stopped"]
    BY <1>3 DEF Status
  <2>2. Life!End(s)
    BY <2>1 DEF Life!End
  <2>. QED  BY <2>2 DEF Life!Next
<1>. QED  BY <1>1, <1>2, <1>3

\* No thread of a session ends before the session is told to stop, none comes
\* back, and no session is stopped by another's teardown: every step of the
\* chain is one of PipelineLife's, or none.
THEOREM OnlyWhenTold == Spec => Life!Init /\ [][Life!Next]_Status
<1>1. Init => Life!Init
  <2>. SUFFICES ASSUME Init PROVE Status = [s \in Sessions |-> "running"]
    BY DEF Life!Init
  <2>1. \A s \in Sessions : down[s] \in Early
    BY DEF Init, Early
  <2>2. \A s \in Sessions : StatusOf(s) = "running"
    BY <2>1, InitIInv, StatusFacts
  <2>. QED  BY <2>2 DEF Status
<1>2. IInv /\ IInv' /\ [Next]_vars => [Life!Next]_Status
  <2>. SUFFICES ASSUME IInv, IInv', [Next]_vars PROVE [Life!Next]_Status
    OBVIOUS
  <2>1. CASE UNCHANGED vars
    <3>1. \A s \in Sessions : StatusOf(s)' = StatusOf(s)
      BY <2>1 DEF vars, StatusOf, Gone, PC
    <3>. QED  BY <3>1 DEF Status
  <2>2. ASSUME NEW s \in Sessions,
               Speech(s) \/ Request(s) \/ Cancel(s) \/ Shutdown(s) \/ Compacted(s)
        PROVE  [Life!Next]_Status
    <3>1. /\ \A o \in Sessions : Gone(o)' = Gone(o) /\ (o # s => down'[o] = down[o])
          /\ down[s] \notin Early => down'[s] \notin Early
      BY <2>2, Untouched
    <3>2. \A o \in Sessions : o # s => StatusOf(o)' = StatusOf(o)
      BY <3>1 DEF StatusOf
    <3>3. /\ down[s] \in Early => Gone(s) = {} /\ StatusOf(s) = "running"
          /\ down[s] \notin Early => StatusOf(s) = IF Gone(s) = Stages THEN "stopped" ELSE "stopping"
      BY StatusFacts
    <3>4. /\ down'[s] \in Early => StatusOf(s)' = "running"
          /\ down'[s] \notin Early => StatusOf(s)' = IF Gone(s)' = Stages THEN "stopped" ELSE "stopping"
      BY StatusFactsNext
    <3>5. Stages # {}
      BY StageFacts
    <3>. QED  BY <3>1, <3>2, <3>3, <3>4, <3>5, LifeStep
  <2>3. ASSUME NEW s \in Sessions, NEW k \in Stages, Run(s, k) PROVE [Life!Next]_Status
    <3>1. PC(s, k) # "gone" /\ UNCHANGED down
      BY <2>3, RunMoves
    <3>2. PICK t : thread' = [thread EXCEPT ![<<s, k>>] = t]
      BY <2>3, RunMoves DEF Goto
    <3>3. \A o \in Sessions, j \in Stages : o # s \/ j # k => thread'[<<o, j>>] = thread[<<o, j>>]
      <4>1. ASSUME NEW o \in Sessions, NEW j \in Stages, o # s \/ j # k
            PROVE  <<o, j>> \in Handler /\ <<o, j>> # <<s, k>>
        BY <4>1 DEF Handler
      <4>. QED  BY <3>2, <4>1, ThreadNow
    <3>4. \A o \in Sessions : o # s => Gone(o)' = Gone(o)
      BY <3>3 DEF Gone, PC
    <3>5. Gone(s) \subseteq Gone(s)' /\ Gone(s)' \subseteq Stages
      BY <3>1, <3>3 DEF Gone, PC
    <3>6. \A o \in Sessions : o # s => StatusOf(o)' = StatusOf(o)
      BY <3>1, <3>4 DEF StatusOf
    <3>7. /\ down[s] \in Early => Gone(s) = {} /\ StatusOf(s) = "running"
          /\ down[s] \notin Early => StatusOf(s) = IF Gone(s) = Stages THEN "stopped" ELSE "stopping"
      BY StatusFacts
    <3>8. /\ down'[s] \in Early => StatusOf(s)' = "running"
          /\ down'[s] \notin Early => StatusOf(s)' = IF Gone(s)' = Stages THEN "stopped" ELSE "stopping"
      BY StatusFactsNext
    <3>9. Gone(s) = Stages => Gone(s)' = Stages
      BY <3>5
    <3>. QED  BY <3>1, <3>6, <3>7, <3>8, <3>9, LifeStep
  <2>. QED  BY <2>1, <2>2, <2>3 DEF Next
<1>. QED  BY <1>1, <1>2, Invariance, PTL DEF Spec
=============================================================================
