------------------------ MODULE RealtimeSession_proof ------------------------
(***************************************************************************)
(* Proofs about RealtimeSession, for every load.  First what Append, Tail  *)
(* and the flush do to the number of items of a kind in a queue, and to    *)
(* the number of them in front of each position; then one lemma for each   *)
(* action or group of actions; then the theorems.                          *)
(***************************************************************************)
EXTENDS RealtimeSession, FiniteSetTheorems, SequenceTheorems, TLAPS

Bit(b) == IF b THEN 1 ELSE 0

\* The items of a kind in front of a position.
Marks(q, k, n) == {m \in DOMAIN q : m < n /\ q[m].kind = k}
Ends(q, k, n)  == Cardinality(Marks(q, k, n))

\* A queue with one item of kind k for each request, after "base" such items
\* have left it: each item belongs to the request of the next one.
InTurn(q, k, base) == \A n \in DOMAIN q : q[n].for = base + 1 + Ends(q, k, n)

-----------------------------------------------------------------------------
(* Counting. *)

LEMMA MarksFinite ==
  ASSUME NEW S, NEW q \in Seq(S), NEW k, NEW n
  PROVE  IsFiniteSet(Marks(q, k, n)) /\ Ends(q, k, n) \in Nat
<1>1. IsFiniteSet(1..Len(q)) /\ DOMAIN q = 1..Len(q)
  BY FS_Interval
<1>2. Marks(q, k, n) \in SUBSET (1..Len(q))
  BY <1>1 DEF Marks
<1>3. IsFiniteSet(Marks(q, k, n))
  BY <1>1, <1>2, FS_Subset
<1> QED  BY <1>3, FS_CardinalityType DEF Ends

LEMMA CountIsEnds ==
  ASSUME NEW S, NEW q \in Seq(S), NEW k
  PROVE  CountKind(q, k) = Ends(q, k, Len(q) + 1) /\ CountKind(q, k) \in Nat
<1>1. {n \in DOMAIN q : q[n].kind = k} = Marks(q, k, Len(q) + 1)
  BY DEF Marks
<1> QED  BY <1>1, MarksFinite DEF CountKind, Ends

LEMMA EmptyCount ==
  ASSUME NEW k, NEW base
  PROVE  CountKind(<< >>, k) = 0 /\ InTurn(<< >>, k, base)
<1>1. {n \in DOMAIN << >> : << >>[n].kind = k} = {}
  OBVIOUS
<1> QED  BY <1>1, FS_EmptySet DEF CountKind, InTurn

LEMMA EndsAppend ==
  ASSUME NEW S, NEW q \in Seq(S), NEW e \in S, NEW k
  PROVE  /\ \A n \in 1..Len(q) + 1 : Ends(Append(q, e), k, n) = Ends(q, k, n)
         /\ CountKind(Append(q, e), k) = CountKind(q, k) + Bit(e.kind = k)
<1> DEFINE p == Append(q, e)
<1>1. /\ p \in Seq(S) /\ Len(p) = Len(q) + 1 /\ Len(q) \in Nat
      /\ DOMAIN p = 1..Len(q) + 1 /\ DOMAIN q = 1..Len(q)
      /\ \A m \in 1..Len(q) : p[m] = q[m]
      /\ p[Len(q) + 1] = e
  OBVIOUS
<1> HIDE DEF p
<1>2. ASSUME NEW n \in 1..Len(q) + 1
      PROVE  Marks(p, k, n) = Marks(q, k, n)
  BY <1>1 DEF Marks
<1>3. CASE e.kind = k
  <2>1. Marks(p, k, Len(p) + 1) = Marks(q, k, Len(q) + 1) \cup {Len(q) + 1}
    BY <1>1, <1>3 DEF Marks
  <2>2. Len(q) + 1 \notin Marks(q, k, Len(q) + 1)
    BY <1>1 DEF Marks
  <2>3. Ends(p, k, Len(p) + 1) = Ends(q, k, Len(q) + 1) + 1
    BY <2>1, <2>2, MarksFinite, FS_AddElement DEF Ends
  <2>4. CountKind(p, k) = CountKind(q, k) + Bit(e.kind = k)
    BY <1>1, <1>3, <2>3, CountIsEnds DEF Bit
  <2> QED  BY <1>2, <2>4 DEF p, Ends
<1>4. CASE e.kind # k
  <2>1. Marks(p, k, Len(p) + 1) = Marks(q, k, Len(q) + 1)
    BY <1>1, <1>4 DEF Marks
  <2>2. Ends(p, k, Len(p) + 1) = Ends(q, k, Len(q) + 1)
    BY <2>1 DEF Ends
  <2>3. CountKind(p, k) = CountKind(q, k) + Bit(e.kind = k)
    BY <1>1, <1>4, <2>2, CountIsEnds DEF Bit
  <2> QED  BY <1>2, <2>3 DEF p, Ends
<1> QED  BY <1>3, <1>4

LEMMA ShiftedCardinality ==
  ASSUME NEW A \in SUBSET Nat, IsFiniteSet(A)
  PROVE  /\ IsFiniteSet({n + 1 : n \in A})
         /\ Cardinality({n + 1 : n \in A}) = Cardinality(A)
<1> DEFINE B == {n + 1 : n \in A}
           f == [n \in A |-> n + 1]
<1>1. f \in [A -> B]
  OBVIOUS
<1>2. \A m, n \in A : f[m] = f[n] => m = n
  OBVIOUS
<1>3. \A b \in B : \E n \in A : f[n] = b
  OBVIOUS
<1>4. f \in Bijection(A, B)
  BY <1>1, <1>2, <1>3 DEF Bijection, Injection, Surjection, IsInjective
<1>5. B \in SUBSET Nat
  OBVIOUS
<1> HIDE DEF B, f
<1> QED  BY <1>4, FS_Bijection DEF ExistsBijection, B

LEMMA EndsTail ==
  ASSUME NEW S, NEW q \in Seq(S), q # << >>, NEW k
  PROVE  /\ \A n \in 1..Len(q) :
              Ends(q, k, n + 1) = Ends(Tail(q), k, n) + Bit(Head(q).kind = k)
         /\ CountKind(q, k) = CountKind(Tail(q), k) + Bit(Head(q).kind = k)
         /\ Ends(q, k, 1) = 0
<1> DEFINE p == Tail(q)
<1>1. /\ p \in Seq(S) /\ Len(p) = Len(q) - 1 /\ Len(q) \in Nat \ {0}
      /\ DOMAIN p = 1..Len(q) - 1 /\ DOMAIN q = 1..Len(q)
      /\ \A m \in 1..Len(q) - 1 : p[m] = q[m + 1]
      /\ Head(q) = q[1]
  BY HeadTailProperties, EmptySeq
<1> HIDE DEF p
<1>2. ASSUME NEW n \in 1..Len(q)
      PROVE  Ends(q, k, n + 1) = Ends(p, k, n) + Bit(Head(q).kind = k)
  <2> DEFINE A == Marks(p, k, n)
             B == {m + 1 : m \in A}
  <2>1. A \in SUBSET Nat /\ IsFiniteSet(A)
    <3>1. IsFiniteSet(A)
      BY <1>1, MarksFinite
    <3> QED  BY <1>1, <3>1 DEF Marks
  <2>2. IsFiniteSet(B) /\ Cardinality(B) = Ends(p, k, n)
    BY <2>1, ShiftedCardinality DEF Ends
  <2>3. 1 \notin B
    BY <1>1 DEF Marks
  <2>4. ASSUME NEW m \in 2..Len(q)
        PROVE  m \in B <=> m < n + 1 /\ q[m].kind = k
    <3>1. m - 1 \in 1..Len(q) - 1 /\ p[m - 1] = q[m]
      BY <1>1
    <3>2. m \in B <=> m - 1 \in A
      BY <1>1 DEF Marks
    <3> QED  BY <1>1, <3>1, <3>2 DEF Marks
  <2>5. B \subseteq 2..Len(q)
    BY <1>1 DEF Marks
  <2>6. Marks(q, k, n + 1) = B \cup (IF Head(q).kind = k THEN {1} ELSE {})
    <3> HIDE DEF B
    <3>1. \A m \in 1..Len(q) : m \in Marks(q, k, n + 1) <=> m < n + 1 /\ q[m].kind = k
      BY <1>1 DEF Marks
    <3>2. Marks(q, k, n + 1) \subseteq 1..Len(q)
      BY <1>1 DEF Marks
    <3>3. 1 \in Marks(q, k, n + 1) <=> Head(q).kind = k
      BY <1>1, <3>1
    <3>4. \A m \in 2..Len(q) : m \in Marks(q, k, n + 1) <=> m \in B
      BY <1>1, <2>4, <3>1
    <3>5. 1..Len(q) = {1} \cup 2..Len(q) /\ 1 \notin B
      BY <1>1, <2>5
    <3> QED  BY <2>5, <3>2, <3>3, <3>4, <3>5
  <2> HIDE DEF B
  <2>7. CASE Head(q).kind = k
    <3>1. Marks(q, k, n + 1) = B \cup {1}
      BY <2>6, <2>7
    <3> QED  BY <2>2, <2>3, <2>7, <3>1, FS_AddElement DEF Ends, Bit
  <2>8. CASE Head(q).kind # k
    <3>1. Marks(q, k, n + 1) = B
      BY <2>6, <2>8
    <3> QED  BY <2>2, <2>8, <3>1, MarksFinite, <1>1 DEF Ends, Bit
  <2> QED  BY <2>7, <2>8
<1>3. Len(q) \in 1..Len(q) /\ Len(p) + 1 = Len(q)
  BY <1>1
<1>4. CountKind(q, k) = CountKind(p, k) + Bit(Head(q).kind = k)
  BY <1>1, <1>2, <1>3, CountIsEnds
<1>5. Marks(q, k, 1) = {}
  BY <1>1 DEF Marks
<1> QED  BY <1>2, <1>4, <1>5, FS_EmptySet DEF p, Ends

-----------------------------------------------------------------------------
(* The flush. *)

UpTo(at, n) == {k \in at : k <= n}

\* The m-th of a finite set of positions exists.
LEMMA NthProperties ==
  ASSUME NEW l \in Nat, NEW at \in SUBSET (1..l), NEW m \in 1..Cardinality(at)
  PROVE  Nth(at, m) \in at /\ Cardinality(UpTo(at, Nth(at, m))) = m
<1> DEFINE N == 1..Cardinality(at)
           rank == [n \in at |-> Cardinality(UpTo(at, n))]
<1>1. IsFiniteSet(at) /\ Cardinality(at) \in Nat
  <2>1. IsFiniteSet(1..l)
    BY FS_Interval
  <2> QED  BY <2>1, FS_Subset, FS_CardinalityType
<1>2. \A n : IsFiniteSet(UpTo(at, n)) /\ Cardinality(UpTo(at, n)) \in 0..Cardinality(at)
  <2> TAKE n
  <2>1. UpTo(at, n) \in SUBSET at
    BY DEF UpTo
  <2>2. IsFiniteSet(UpTo(at, n)) /\ Cardinality(UpTo(at, n)) <= Cardinality(at)
    BY <1>1, <2>1, FS_Subset
  <2>3. Cardinality(UpTo(at, n)) \in Nat
    BY <2>2, FS_CardinalityType
  <2> QED  BY <1>1, <2>2, <2>3
<1>3. ASSUME NEW a \in at, NEW b \in at, a < b
      PROVE  Cardinality(UpTo(at, a)) < Cardinality(UpTo(at, b))
  <2>1. b \notin UpTo(at, a) /\ UpTo(at, a) \cup {b} \in SUBSET UpTo(at, b)
    <3>1. /\ ~(b <= a) /\ b <= b
          /\ \A k \in at : k <= a => k <= b
      BY <1>3
    <3>2. b \notin UpTo(at, a) /\ b \in UpTo(at, b)
      BY <3>1 DEF UpTo
    <3>3. UpTo(at, a) \subseteq UpTo(at, b)
      BY <3>1, Zenon DEF UpTo
    <3> QED  BY <3>2, <3>3
  <2>2. Cardinality(UpTo(at, a) \cup {b}) = Cardinality(UpTo(at, a)) + 1
    BY <1>2, <2>1, FS_AddElement
  <2>3. Cardinality(UpTo(at, a) \cup {b}) <= Cardinality(UpTo(at, b))
    BY <1>2, <2>1, FS_Subset
  <2> QED  BY <1>2, <2>2, <2>3
<1>4. ASSUME NEW n \in at
      PROVE  Cardinality(UpTo(at, n)) \in N
  <2>1. UpTo(at, n) # {}
    BY DEF UpTo
  <2>2. Cardinality(UpTo(at, n)) # 0
    BY <1>2, <2>1, FS_EmptySet
  <2> QED  BY <1>1, <1>2, <2>2
<1>5. rank \in Injection(at, N)
  <2>1. rank \in [at -> N]
    BY <1>4
  <2>2. \A a, b \in at : rank[a] = rank[b] => a = b
    <3> SUFFICES ASSUME NEW a \in at, NEW b \in at, rank[a] = rank[b]
                 PROVE  a = b
      OBVIOUS
    <3>1. a \in Nat /\ b \in Nat
      OBVIOUS
    <3>2. Cardinality(UpTo(at, a)) = Cardinality(UpTo(at, b))
      OBVIOUS
    <3> QED  BY <1>2, <1>3, <3>1, <3>2
  <2> QED  BY <2>1, <2>2 DEF Injection, IsInjective
<1>6. IsFiniteSet(N) /\ Cardinality(N) = Cardinality(at)
  BY <1>1, FS_Interval
<1>7. rank \in Surjection(at, N)
  BY <1>5, <1>6, FS_Injection
<1>8. \E n \in at : rank[n] = m
  BY <1>7 DEF Surjection
<1>9. \E n \in at : Cardinality({k \in at : k <= n}) = m
  BY <1>8 DEF UpTo
<1> QED  BY <1>9 DEF Nth, UpTo

LEMMA PickedProperties ==
  ASSUME NEW S, NEW q \in Seq(S), NEW at \in SUBSET (DOMAIN q)
  PROVE  /\ Picked(q, at) \in Seq(S)
         /\ Len(Picked(q, at)) = Cardinality(at) /\ Cardinality(at) \in Nat
         /\ \A m \in 1..Cardinality(at) :
              /\ Nth(at, m) \in at /\ Picked(q, at)[m] = q[Nth(at, m)]
              /\ Cardinality(UpTo(at, Nth(at, m))) = m
<1>1. at \in SUBSET (1..Len(q)) /\ Len(q) \in Nat
  OBVIOUS
<1>2. Cardinality(at) \in Nat
  <2>1. IsFiniteSet(1..Len(q))
    BY <1>1, FS_Interval
  <2> QED  BY <1>1, <2>1, FS_Subset, FS_CardinalityType
<1>3. \A m \in 1..Cardinality(at) :
        Nth(at, m) \in at /\ Cardinality(UpTo(at, Nth(at, m))) = m
  BY <1>1, NthProperties
<1>4. \A m \in 1..Cardinality(at) : q[Nth(at, m)] \in S
  BY <1>3
<1> QED  BY <1>2, <1>3, <1>4 DEF Picked

\* A flush that keeps the items of one kind keeps all of them, in turn.
LEMMA PickedKind ==
  ASSUME NEW S, NEW q \in Seq(S), NEW k,
         NEW at, at = {n \in DOMAIN q : q[n].kind = k},
         NEW base \in Nat
  PROVE  /\ CountKind(Picked(q, at), k) = CountKind(q, k)
         /\ InTurn(q, k, base) => InTurn(Picked(q, at), k, base)
<1> DEFINE p == Picked(q, at)
           c == Cardinality(at)
<1>1. at \in SUBSET (DOMAIN q)
  OBVIOUS
<1>2. /\ p \in Seq(S) /\ Len(p) = c /\ c \in Nat
      /\ \A m \in 1..c : /\ Nth(at, m) \in at /\ p[m] = q[Nth(at, m)]
                         /\ Cardinality(UpTo(at, Nth(at, m))) = m
  BY <1>1, PickedProperties
<1> HIDE DEF p
<1>3. \A m \in 1..c : p[m].kind = k
  BY <1>2
<1>4. ASSUME NEW n \in 1..c + 1
      PROVE  Ends(p, k, n) = n - 1
  <2>1. Marks(p, k, n) = 1..n - 1
    <3> HIDE DEF c
    <3> QED  BY <1>2, <1>3 DEF Marks
  <2>2. n - 1 \in Nat
    BY <1>2
  <2> QED  BY <2>1, <2>2, FS_Interval DEF Ends
<1>5. CountKind(p, k) = c
  <2>1. c + 1 \in 1..c + 1
    BY <1>2
  <2> QED  BY <1>2, <1>4, <2>1, CountIsEnds
<1>6. CountKind(q, k) = c
  BY DEF CountKind
<1>7. ASSUME InTurn(q, k, base)
      PROVE  InTurn(p, k, base)
  <2> SUFFICES ASSUME NEW m \in 1..c
               PROVE  p[m].for = base + 1 + Ends(p, k, m)
    BY <1>2 DEF InTurn
  <2> DEFINE n == Nth(at, m)
  <2>1. n \in at /\ n \in DOMAIN q /\ n \in 1..Len(q) /\ q[n].kind = k /\ p[m] = q[n]
    BY <1>1, <1>2
  <2>2. Cardinality(UpTo(at, n)) = m
    BY <1>2
  <2> HIDE DEF n
  <2>3. UpTo(at, n) = Marks(q, k, n) \cup {n} /\ n \notin Marks(q, k, n)
    BY <2>1 DEF UpTo, Marks
  <2>4. Ends(q, k, n) \in Nat /\ Ends(q, k, n) + 1 = m
    BY <2>2, <2>3, MarksFinite, FS_AddElement DEF Ends
  <2>5. m \in Nat /\ m \in 1..c + 1
    BY <1>2
  <2>6. Ends(p, k, m) = m - 1
    BY <1>4, <2>5
  <2>7. q[n].for = base + 1 + Ends(q, k, n)
    BY <1>7, <2>1 DEF InTurn
  <2> QED  BY <2>1, <2>4, <2>5, <2>6, <2>7
<1> QED  BY <1>5, <1>6, <1>7 DEF p

-----------------------------------------------------------------------------
(* Requests come out of each queue in the order they went in. *)

LEMMA InTurnAppend ==
  ASSUME NEW S, NEW q \in Seq(S), NEW e \in S, NEW k, NEW base \in Nat,
         InTurn(q, k, base), e.for = base + 1 + CountKind(q, k)
  PROVE  InTurn(Append(q, e), k, base)
<1> DEFINE p == Append(q, e)
<1>1. /\ Len(q) \in Nat /\ DOMAIN p = 1..Len(q) + 1 /\ DOMAIN q = 1..Len(q)
      /\ \A m \in 1..Len(q) : p[m] = q[m]
      /\ p[Len(q) + 1] = e
  OBVIOUS
<1>2. \A n \in 1..Len(q) + 1 : Ends(p, k, n) = Ends(q, k, n)
  BY EndsAppend
<1>3. CountKind(q, k) = Ends(q, k, Len(q) + 1)
  BY CountIsEnds
<1> HIDE DEF p
<1>4. InTurn(p, k, base)
  <2> SUFFICES ASSUME NEW n \in 1..Len(q) + 1
               PROVE  p[n].for = base + 1 + Ends(p, k, n)
    BY <1>1 DEF InTurn
  <2>1. CASE n = Len(q) + 1
    BY <1>1, <1>2, <1>3, <2>1
  <2>2. CASE n \in 1..Len(q)
    BY <1>1, <1>2, <2>2 DEF InTurn
  <2> QED  BY <1>1, <2>1, <2>2
<1> QED  BY <1>4 DEF p

LEMMA InTurnTail ==
  ASSUME NEW S, NEW q \in Seq(S), q # << >>, NEW k, NEW base \in Nat, InTurn(q, k, base)
  PROVE  /\ InTurn(Tail(q), k, base + Bit(Head(q).kind = k))
         /\ Head(q).for = base + 1
<1> DEFINE p == Tail(q)
           b == Bit(Head(q).kind = k)
<1>1. /\ p \in Seq(S) /\ Len(q) \in Nat \ {0}
      /\ DOMAIN p = 1..Len(q) - 1 /\ DOMAIN q = 1..Len(q)
      /\ \A m \in 1..Len(q) - 1 : p[m] = q[m + 1]
      /\ Head(q) = q[1]
  BY HeadTailProperties, EmptySeq
<1>2. /\ \A n \in 1..Len(q) : Ends(q, k, n + 1) = Ends(p, k, n) + b
      /\ Ends(q, k, 1) = 0
  BY EndsTail
<1>3. b \in {0, 1}
  BY DEF Bit
<1>4. \A n : Ends(p, k, n) \in Nat
  BY <1>1, MarksFinite
<1> HIDE DEF p, b
<1>5. q[1].for = base + 1
  BY <1>1, <1>2 DEF InTurn
<1>6. InTurn(p, k, base + b)
  <2> SUFFICES ASSUME NEW n \in 1..Len(q) - 1
               PROVE  p[n].for = base + b + 1 + Ends(p, k, n)
    BY <1>1 DEF InTurn
  <2>1. n + 1 \in 1..Len(q) /\ n \in 1..Len(q) /\ p[n] = q[n + 1]
    BY <1>1
  <2>2. q[n + 1].for = base + 1 + Ends(q, k, n + 1)
    BY <1>1, <2>1 DEF InTurn
  <2>3. Ends(q, k, n + 1) = Ends(p, k, n) + b /\ Ends(p, k, n) \in Nat
    BY <1>2, <1>4, <2>1
  <2> HIDE DEF b
  <2>4. q[n + 1].for = base + 1 + (Ends(p, k, n) + b)
    BY <2>2, <2>3
  <2> QED  BY <1>3, <2>1, <2>3, <2>4
<1> QED  BY <1>1, <1>5, <1>6 DEF p, b

-----------------------------------------------------------------------------
(* Types. *)

LEMMA InitTypeOK ==
  Init => TypeOK
<1> SUFFICES ASSUME Init PROVE TypeOK
  OBVIOUS
<1>1. FlagsOK
  BY DEF Init, FlagsOK
<1>2. QueuesOK
  BY DEF Init, QueuesOK
<1>3. ThreadsOK
  BY DEF Init, ThreadsOK, SuspendedAt, NoId
<1>4. SessionOK
  BY BoundsAssumption DEF Init, SessionOK, ConnState, NoConn, NoId, Counters
<1> QED  BY <1>1, <1>2, <1>3, <1>4 DEF TypeOK

\* The flush keeps the types of the two output queues.
LEMMA FlushTypes ==
  ASSUME TypeOK, FlushOutputs
  PROVE  sendAudio' \in Seq(ItemsOf(AudioKinds)) /\ textOutput' \in Seq(ItemsOf(TextKinds))
<1> DEFINE A == {n \in DOMAIN sendAudio : KeepAudioSentinel(sendAudio[n])}
           T == {n \in DOMAIN textOutput : KeepUserText(textOutput[n])}
<1>1. sendAudio \in Seq(ItemsOf(AudioKinds)) /\ textOutput \in Seq(ItemsOf(TextKinds))
  BY DEF TypeOK, QueuesOK
<1>2. A \in SUBSET (DOMAIN sendAudio) /\ T \in SUBSET (DOMAIN textOutput)
  OBVIOUS
<1>3. sendAudio' = Picked(sendAudio, A) /\ textOutput' = Picked(textOutput, T)
  BY DEF FlushOutputs
<1> HIDE DEF A, T
<1> QED  BY <1>1, <1>2, <1>3, PickedProperties

LEMMA ConnTypes ==
  ASSUME TypeOK
  PROVE  /\ NoConn \in ConnState /\ Begun(conn) \in ConnState /\ Ensured(conn) \in ConnState
         /\ Opened(conn, NextRequest) \in ConnState
<1>1. conn \in ConnState /\ LateId \in Nat /\ NextRequest \in Nat
  BY DEF TypeOK, SessionOK, Counters, LateId, NextRequest, Load
<1>2. NoConn \in ConnState /\ Ensured(conn) \in ConnState
  BY <1>1 DEF ConnState, NoConn, NoId, Ensured
<1>3. Begun(conn) \in ConnState
  BY <1>2 DEF ConnState, Begun
<1>4. Opened(conn, NextRequest) \in ConnState
  BY <1>1, <1>2 DEF ConnState, NoConn, Opened
<1> QED  BY <1>2, <1>3, <1>4

LEMMA CancelledType ==
  ASSUME TypeOK
  PROVE  Cancelled(scope) \in [gen : Nat, discarding : BOOLEAN]
<1>1. scope.gen + 1 \in Nat
  BY DEF TypeOK, FlagsOK
<1>2. (scope.gen + 1) % GenModulus \in Nat
  BY <1>1, BoundsAssumption, Z3
<1> QED  BY <1>2 DEF Cancelled

\* What a generation ends with, before its EndOfResponse: at most two items, none of
\* them an end, all of the request generated.
Last(q) == {<< >>} \cup {<<a>> : a \in q} \cup {<<a, b>> : a \in q, b \in q}
Closing == {Item(k, llm.for) : k \in {"text", "tools", "usage"}}

LEMMA EndsShort ==
  GenerationEnds \subseteq Last(Closing)
<1> SUFFICES ASSUME NEW last \in GenerationEnds
             PROVE  last \in Last(Closing)
  OBVIOUS
<1> QED  BY ScenarioAssumption DEF GenerationEnds, Last, Closing

LEMMA FlagsStep ==
  ASSUME TypeOK, Next
  PROVE  FlagsOK'
<1> USE DEF flags, queues, threads
<1>1. CASE BargeIn
  BY <1>1, CancelledType DEF TypeOK, FlagsOK, BargeIn
<1>2. CASE SendStaleDone
  BY <1>2 DEF TypeOK, FlagsOK, SendStaleDone, ResponseComplete, Undiscarded
<1>3. CASE FinishHeld
  BY <1>3 DEF TypeOK, FlagsOK, FinishHeld, ResponseComplete, Undiscarded
<1>4. CASE DoneSent
  BY <1>4 DEF TypeOK, FlagsOK, DoneSent, ResponseComplete, Undiscarded
<1>5. CASE SendChunk
  BY <1>5 DEF TypeOK, FlagsOK, SendChunk
<1>6. CASE ClientCreate
  BY <1>6 DEF TypeOK, FlagsOK, ClientCreate, Undiscarded
<1>7. CASE ClientCancel
  BY <1>7, CancelledType DEF TypeOK, FlagsOK, ClientCancel
<1>8. CASE CancelSent
  BY <1>8 DEF TypeOK, FlagsOK, CancelSent
<1>9. CASE SpeechEnds
  BY <1>9 DEF TypeOK, FlagsOK, SpeechEnds
<1>10. CASE SendText \/ SendNoText \/ SendNoAudio \/ SendDone \/ DropAudio \/ Paced
          \/ SpeechStarts \/ SpeechDiscarded \/ Transcribe \/ LlmTake \/ LlmStream \/ LlmEnd
          \/ ProcessLmOutput \/ TtsTake \/ TtsEnd
  BY <1>10 DEF TypeOK, FlagsOK, SendText, SendNoText, SendNoAudio, SendDone, DropAudio,
     Paced, SpeechStarts, SpeechDiscarded, Transcribe, LlmTake, LlmStream, LlmEnd,
     ProcessLmOutput, TtsTake, TtsEnd
<1> QED  BY <1>1, <1>2, <1>3, <1>4, <1>5, <1>6, <1>7, <1>8, <1>9, <1>10
         DEF Next, SendLoop, Pipeline, Client

LEMMA QueuesStep ==
  ASSUME TypeOK, Next
  PROVE  QueuesOK'
<1> USE DEF flags, queues, threads
<1>1. CASE SendText
  <2>1. textOutput' \in Seq(ItemsOf(TextKinds))
    BY <1>1 DEF TypeOK, QueuesOK, SendText
  <2>2. NextRequest \in Nat
    BY DEF TypeOK, SessionOK, Counters, NextRequest
  <2>3. textPrompt' \in Seq(Nat)
    <3>1. textPrompt' = textPrompt \/ textPrompt' = Append(textPrompt, NextRequest)
      BY <1>1 DEF SendText
    <3>2. textPrompt \in Seq(Nat) /\ Append(textPrompt, NextRequest) \in Seq(Nat)
      BY <2>2 DEF TypeOK, QueuesOK
    <3> QED  BY <3>1, <3>2
  <2> QED  BY <1>1, <2>1, <2>3 DEF TypeOK, QueuesOK, SendText
<1>2. CASE BargeIn
  <2>1. sendAudio' \in Seq(ItemsOf(AudioKinds)) /\ textOutput' \in Seq(ItemsOf(TextKinds))
    BY <1>2, FlushTypes DEF BargeIn
  <2> QED  BY <1>2, <2>1 DEF TypeOK, QueuesOK, BargeIn
<1>3. CASE SendStaleDone
  BY <1>3 DEF TypeOK, QueuesOK, SendStaleDone
<1>4. CASE SendDone
  BY <1>4 DEF TypeOK, QueuesOK, SendDone
<1>5. CASE DropAudio
  BY <1>5 DEF TypeOK, QueuesOK, DropAudio
<1>6. CASE SendChunk
  BY <1>6 DEF TypeOK, QueuesOK, SendChunk
<1>7. CASE ClientCreate
  BY <1>7 DEF TypeOK, QueuesOK, ClientCreate, SessionOK, Counters, NextRequest
<1>8. CASE ClientCancel
  <2>1. sendAudio' \in Seq(ItemsOf(AudioKinds)) /\ textOutput' \in Seq(ItemsOf(TextKinds))
    BY <1>8, FlushTypes DEF ClientCancel
  <2> QED  BY <1>8, <2>1 DEF TypeOK, QueuesOK, ClientCancel
<1>9. CASE SpeechStarts
  BY <1>9 DEF TypeOK, QueuesOK, SpeechStarts, Item, ItemsOf, TextKinds, AudioKinds, NoId
<1>10. CASE SpeechEnds
  BY <1>10 DEF TypeOK, QueuesOK, SpeechEnds, Item, ItemsOf, TextKinds, AudioKinds, NoId
<1>11. CASE SpeechDiscarded
  BY <1>11 DEF TypeOK, QueuesOK, SpeechDiscarded, Item, ItemsOf, TextKinds, AudioKinds,
     NoId
<1>12. CASE Transcribe
  <2>1. Item("transcript", NoId) \in ItemsOf(TextKinds)
    BY DEF NoId, Item, ItemsOf, TextKinds
  <2>2. Append(textOutput, Item("transcript", NoId)) \in Seq(ItemsOf(TextKinds))
    BY <2>1 DEF TypeOK, QueuesOK
  <2>3. utterances' \in Nat
    BY <1>12 DEF TypeOK, QueuesOK, Transcribe
  <2> QED  BY <1>12, <2>2, <2>3 DEF TypeOK, QueuesOK, Transcribe
<1>13. CASE LlmTake
  BY <1>13 DEF TypeOK, QueuesOK, LlmTake
<1>14. CASE LlmStream
  BY <1>14 DEF TypeOK, QueuesOK, LlmStream, ThreadsOK, Item, ItemsOf, TextKinds,
     AudioKinds, NoId
<1>15. CASE LlmEnd
  <2> DEFINE S == ItemsOf({"text", "tools", "usage", "end"})
  <2>1. PICK last \in GenerationEnds : lmResponse' = lmResponse \o Generated(last)
    BY <1>15 DEF LlmEnd
  <2>2. last \in Last(Closing) /\ Closing \subseteq S /\ Item("end", llm.for) \in S
    BY <2>1, EndsShort DEF Closing, TypeOK, ThreadsOK, Item, ItemsOf
  <2>3. last \in Seq(S)
    <3> HIDE DEF S
    <3>1. CASE last = << >>
      BY <3>1
    <3>2. CASE \E a \in Closing : last = <<a>>
      BY <2>2, <3>2
    <3>3. CASE \E a, b \in Closing : last = <<a, b>>
      BY <2>2, <3>3
    <3> QED  BY <2>2, <3>1, <3>2, <3>3 DEF Last
  <2>4. lmResponse' \in Seq(S)
    <3> HIDE DEF S
    <3>1. lmResponse \in Seq(S)
      BY DEF TypeOK, QueuesOK, S
    <3> QED  BY <2>1, <2>2, <2>3, <3>1 DEF Generated
  <2> QED  BY <1>15, <2>4 DEF TypeOK, QueuesOK, LlmEnd
<1>16. CASE ProcessLmOutput
  <2> DEFINE o == Head(lmResponse)
  <2>1. /\ o \in ItemsOf({"text", "tools", "usage", "end"})
        /\ Tail(lmResponse) \in Seq(ItemsOf({"text", "tools", "usage", "end"}))
    BY <1>16 DEF TypeOK, QueuesOK, ProcessLmOutput
  <2>2. \A k \in {"assistant_text", "tool_calls", "token_usage"} :
          Item(k, o.for) \in ItemsOf(TextKinds)
    BY <2>1 DEF Item, ItemsOf, TextKinds
  <2>3. o.kind \in {"text", "end"} => o \in ItemsOf({"text", "end"})
    BY <2>1 DEF ItemsOf
  <2>4. \A k \in {"assistant_text", "tool_calls", "token_usage"} :
          Append(textOutput, Item(k, o.for)) \in Seq(ItemsOf(TextKinds))
    BY <2>2 DEF TypeOK, QueuesOK
  <2>5. o.kind \in {"text", "end"} => Append(lmProcessed, o) \in Seq(ItemsOf({"text", "end"}))
    BY <2>3 DEF TypeOK, QueuesOK
  <2> QED  BY <1>16, <2>1, <2>4, <2>5 DEF TypeOK, QueuesOK, ProcessLmOutput
<1>17. CASE TtsTake
  <2> DEFINE i == Head(lmProcessed)
  <2>1. i \in ItemsOf({"text", "end"}) /\ Tail(lmProcessed) \in Seq(ItemsOf({"text", "end"}))
    BY <1>17 DEF TypeOK, QueuesOK, TtsTake
  <2>2. Sentinel(i) \in ItemsOf(AudioKinds)
    BY <2>1 DEF Sentinel, Item, ItemsOf, AudioKinds
  <2>3. Append(sendAudio, Sentinel(i)) \in Seq(ItemsOf(AudioKinds))
    BY <2>2 DEF TypeOK, QueuesOK
  <2> QED  BY <1>17, <2>1, <2>3 DEF TypeOK, QueuesOK, TtsTake
<1>18. CASE TtsEnd
  <2>1. Item("audio", tts.for) \in ItemsOf(AudioKinds)
    BY DEF TypeOK, ThreadsOK, Item, ItemsOf, AudioKinds
  <2>2. Append(sendAudio, Item("audio", tts.for)) \in Seq(ItemsOf(AudioKinds))
    BY <2>1 DEF TypeOK, QueuesOK
  <2> QED  BY <1>18, <2>2 DEF TypeOK, QueuesOK, TtsEnd
<1>19. CASE SendNoText \/ SendNoAudio \/ FinishHeld \/ DoneSent \/ Paced \/ CancelSent
  BY <1>19 DEF TypeOK, QueuesOK, SendNoText, SendNoAudio, FinishHeld, DoneSent, Paced,
     CancelSent
<1> QED  BY <1>1, <1>2, <1>3, <1>4, <1>5, <1>6, <1>7, <1>8, <1>9, <1>10, <1>11, <1>12,
            <1>13, <1>14, <1>15, <1>16, <1>17, <1>18, <1>19
         DEF Next, SendLoop, Pipeline, Client

LEMMA ThreadsStep ==
  ASSUME TypeOK, Next
  PROVE  ThreadsOK'
<1> USE DEF flags, queues, threads
<1>1. CASE SendText
  BY <1>1 DEF TypeOK, ThreadsOK, SendText, SenderTo, SuspendedAt, NoId
<1>2. CASE SendNoText
  BY <1>2 DEF TypeOK, ThreadsOK, SendNoText, SenderTo, SuspendedAt, NoId
<1>3. CASE BargeIn
  BY <1>3 DEF TypeOK, ThreadsOK, BargeIn, SenderTo, SuspendedAt, NoId
<1>4. CASE SendNoAudio
  BY <1>4 DEF TypeOK, ThreadsOK, SendNoAudio, SenderTo, SuspendedAt, NoId
<1>5. CASE SendStaleDone
  BY <1>5 DEF TypeOK, ThreadsOK, SendStaleDone, ResponseComplete, SenderTo, SuspendedAt,
     NoId
<1>6. CASE SendDone
  <2>1. Head(sendAudio) \in ItemsOf(AudioKinds)
    BY <1>6 DEF TypeOK, QueuesOK, SendDone
  <2>2. Head(sendAudio).for \in Nat
    BY <2>1 DEF ItemsOf
  <2> QED  BY <1>6, <2>2 DEF TypeOK, ThreadsOK, SendDone, SuspendedAt
<1>7. CASE FinishHeld
  BY <1>7 DEF TypeOK, ThreadsOK, FinishHeld, ResponseComplete, SenderTo, SuspendedAt, NoId
<1>8. CASE DoneSent
  BY <1>8 DEF TypeOK, ThreadsOK, DoneSent, ResponseComplete, SenderTo, SuspendedAt, NoId
<1>9. CASE DropAudio
  BY <1>9 DEF TypeOK, ThreadsOK, DropAudio, SenderTo, SuspendedAt, NoId
<1>10. CASE SendChunk
  BY <1>10 DEF TypeOK, ThreadsOK, SendChunk, SenderTo, SuspendedAt, NoId
<1>11. CASE Paced
  BY <1>11 DEF TypeOK, ThreadsOK, Paced, SenderTo, SuspendedAt, NoId
<1>12. CASE CancelSent
  BY <1>12 DEF TypeOK, ThreadsOK, CancelSent
<1>13. CASE ClientCancel
  BY <1>13 DEF TypeOK, ThreadsOK, ClientCancel
<1>14. CASE SpeechStarts
  BY <1>14 DEF TypeOK, ThreadsOK, SpeechStarts
<1>15. CASE SpeechEnds
  BY <1>15 DEF TypeOK, ThreadsOK, SpeechEnds
<1>16. CASE SpeechDiscarded
  BY <1>16 DEF TypeOK, ThreadsOK, SpeechDiscarded
<1>17. CASE LlmTake
  BY <1>17 DEF TypeOK, ThreadsOK, LlmTake, QueuesOK, FlagsOK
<1>18. CASE LlmStream
  BY <1>18 DEF TypeOK, ThreadsOK, LlmStream
<1>19. CASE LlmEnd
  BY <1>19 DEF TypeOK, ThreadsOK, LlmEnd, NoId
<1>20. CASE TtsTake
  <2>1. Head(lmProcessed) \in ItemsOf({"text", "end"}) /\ scope.gen \in Nat
    BY <1>20 DEF TypeOK, QueuesOK, FlagsOK, TtsTake
  <2>2. Head(lmProcessed).for \in Nat
    BY <2>1 DEF ItemsOf
  <2> QED  BY <1>20, <2>1, <2>2 DEF TypeOK, ThreadsOK, TtsTake
<1>21. CASE TtsEnd
  BY <1>21 DEF TypeOK, ThreadsOK, TtsEnd, NoId
<1>22. CASE ClientCreate \/ Transcribe \/ ProcessLmOutput
  BY <1>22 DEF TypeOK, ThreadsOK, ClientCreate, Transcribe, ProcessLmOutput
<1> QED  BY <1>1, <1>2, <1>3, <1>4, <1>5, <1>6, <1>7, <1>8, <1>9, <1>10, <1>11, <1>12,
            <1>13, <1>14, <1>15, <1>16, <1>17, <1>18, <1>19, <1>20, <1>21, <1>22
         DEF Next, SendLoop, Pipeline, Client

LEMMA SessionStep ==
  ASSUME TypeOK, Next
  PROVE  SessionOK'
<1> USE DEF flags, queues, threads
<1>c. /\ NoConn \in ConnState /\ Begun(conn) \in ConnState /\ Ensured(conn) \in ConnState
      /\ Opened(conn, NextRequest) \in ConnState
  BY ConnTypes
<1>l. UNCHANGED load
  BY DEF Next
<1>1. CASE SendText
  <2>1. used \in Counters /\ used' \in Counters
    BY <1>1 DEF TypeOK, SessionOK, SendText, NextRequest, Counters
  <2>2. conn' \in ConnState
    BY <1>1, <1>c DEF TypeOK, SessionOK, SendText
  <2> QED  BY <1>1, <1>l, <2>1, <2>2 DEF TypeOK, SessionOK, SendText, NoteLate
<1>2. CASE BargeIn
  BY <1>2, <1>c, <1>l DEF TypeOK, SessionOK, BargeIn, NoteDoubled
<1>3. CASE SendStaleDone
  BY <1>3, <1>c, <1>l DEF TypeOK, SessionOK, SendStaleDone, ResponseComplete, Counters
<1>4. CASE FinishHeld
  BY <1>4, <1>c, <1>l DEF TypeOK, SessionOK, FinishHeld, ResponseComplete, Counters
<1>5. CASE DoneSent
  BY <1>5, <1>c, <1>l DEF TypeOK, SessionOK, DoneSent, ResponseComplete, Counters
<1>6. CASE SendChunk
  BY <1>6, <1>c, <1>l DEF TypeOK, SessionOK, SendChunk, NoteLate
<1>7. CASE ClientCreate
  <2>1. used' \in Counters
    <3>1. used \in Counters
      BY DEF TypeOK, SessionOK
    <3> DEFINE u == [used EXCEPT !.creates = @ + 1]
    <3>2. u \in Counters
      BY <3>1 DEF Counters
    <3>3. used' = [u EXCEPT !.requests = @ + 1]
      BY <1>7, <3>1 DEF ClientCreate, Counters
    <3> HIDE DEF u
    <3> QED  BY <3>2, <3>3 DEF Counters
  <2> QED  BY <1>7, <1>c, <1>l, <2>1 DEF TypeOK, SessionOK, ClientCreate
<1>8. CASE ClientCancel
  BY <1>8, <1>c, <1>l DEF TypeOK, SessionOK, ClientCancel, NoteDoubled, Counters
<1>9. CASE SpeechStarts
  BY <1>9, <1>c, <1>l DEF TypeOK, SessionOK, SpeechStarts, Counters
<1>10. CASE SendNoText \/ SendNoAudio \/ SendDone \/ DropAudio \/ Paced \/ SpeechEnds
          \/ SpeechDiscarded \/ CancelSent \/ Transcribe \/ LlmTake \/ LlmStream \/ LlmEnd
          \/ ProcessLmOutput \/ TtsTake \/ TtsEnd
  BY <1>10, <1>c, <1>l DEF TypeOK, SessionOK, SendNoText, SendNoAudio, SendDone,
     DropAudio, Paced, SpeechEnds, SpeechDiscarded, CancelSent, Transcribe, LlmTake,
     LlmStream, LlmEnd, ProcessLmOutput, TtsTake, TtsEnd
<1> QED  BY <1>1, <1>2, <1>3, <1>4, <1>5, <1>6, <1>7, <1>8, <1>9, <1>10
         DEF Next, SendLoop, Pipeline, Client

LEMMA TypeStep ==
  ASSUME TypeOK, [Next]_vars
  PROVE  TypeOK'
<1>1. CASE UNCHANGED vars
  <2> USE <1>1 DEF vars, session, flags, queues, threads
  <2>1. FlagsOK' /\ QueuesOK'
    BY DEF TypeOK, FlagsOK, QueuesOK
  <2>2. ThreadsOK' /\ SessionOK'
    BY DEF TypeOK, ThreadsOK, SessionOK
  <2> QED  BY <2>1, <2>2 DEF TypeOK
<1>2. CASE Next
  BY <1>2, FlagsStep, QueuesStep, ThreadsStep, SessionStep DEF TypeOK
<1> QED  BY <1>1, <1>2

-----------------------------------------------------------------------------
(* The inductive invariant.  Requests are numbered in the order in which    *)
(* they are made, and no queue reorders them: at each stage of the chain    *)
(* the items present belong to consecutive requests, which begin where the  *)
(* next stage stops.  Closed, Spoken, Handed, Written and Taken are the     *)
(* requests whose sentinel has reached the send loop, whose end has left    *)
(* TTS, the LM processor and the LLM, and which the LLM has begun.          *)

Closed  == used.acked + Bit(sender.pc \in {"tail", "done"})
Spoken  == Closed + CountKind(sendAudio, "done")
Handed  == Spoken + CountKind(lmProcessed, "end")
Written == Handed + CountKind(lmResponse, "end")
Taken   == Written + Bit(llm.pc = "generate")

FIFO ==
  /\ InTurn(sendAudio, "done", Closed)
  /\ InTurn(lmProcessed, "end", Spoken)
  /\ InTurn(lmResponse, "end", Handed)
  /\ \A n \in DOMAIN textPrompt : textPrompt[n] = Taken + n
  /\ llm.pc = "generate" => llm.for = Written + 1
  /\ tts.pc = "synthesize" => tts.for = Spoken + 1
  /\ sender.pc = "tail" => sender.for = Closed

\* Each sentinel under way closes the response in progress, takes down the guard a
\* cancellation has put up, or is about to do so; and a response in progress is the
\* one of the last request.
Balanced ==
  astray = {} =>
    /\ Pending = Bit(InResponse) + Bit(scope.discarding) + Bit(sender.pc \in {"barge", "done"})
    /\ InResponse => conn.response = used.requests
    /\ sender.pc \in {"barge", "done"} => ~InResponse
    /\ sender.pc = "done" \/ (sender.pc = "tail" /\ InResponse) => ~scope.discarding

IInv == TypeOK /\ SentinelConserved /\ FIFO /\ Balanced

LEMMA Numbers ==
  ASSUME TypeOK
  PROVE  /\ used.acked \in Nat /\ used.requests \in Nat /\ Len(textPrompt) \in Nat
         /\ CountKind(sendAudio, "done") \in Nat /\ CountKind(lmProcessed, "end") \in Nat
         /\ CountKind(lmResponse, "end") \in Nat
         /\ Closed \in Nat /\ Spoken \in Nat /\ Handed \in Nat /\ Written \in Nat
         /\ Taken \in Nat
         /\ Pending = Taken + Len(textPrompt) - used.acked
<1>1. used.acked \in Nat /\ used.requests \in Nat /\ Len(textPrompt) \in Nat
  BY DEF TypeOK, SessionOK, Counters, QueuesOK
<1>2. /\ CountKind(sendAudio, "done") \in Nat /\ CountKind(lmProcessed, "end") \in Nat
      /\ CountKind(lmResponse, "end") \in Nat
  BY CountIsEnds DEF TypeOK, QueuesOK
<1>3. Closed \in Nat
  BY <1>1 DEF Closed, Bit
<1>4. Spoken \in Nat /\ Handed \in Nat /\ Written \in Nat
  BY <1>2, <1>3 DEF Spoken, Handed, Written
<1>5. Taken \in Nat
  <2>1. Bit(llm.pc = "generate") \in Nat
    BY DEF Bit
  <2> QED  BY <1>4, <2>1 DEF Taken
<1>6. Pending = Taken + Len(textPrompt) - used.acked
  <2> DEFINE a == CountKind(sendAudio, "done")
             p == CountKind(lmProcessed, "end")
             r == CountKind(lmResponse, "end")
             g == Bit(llm.pc = "generate")
             t == Bit(sender.pc \in {"tail", "done"})
             l == Len(textPrompt)
  <2>1. Taken = used.acked + t + a + p + r + g
    BY DEF Closed, Spoken, Handed, Written, Taken
  <2>2. Pending = l + g + r + p + a + t
    BY DEF Pending, Bit
  <2>3. g \in Nat /\ t \in Nat
    BY DEF Bit
  <2>4. a \in Nat /\ p \in Nat /\ r \in Nat /\ l \in Nat
    BY <1>1, <1>2
  <2> HIDE DEF a, p, r, g, t, l
  <2>5. Pending = Taken + l - used.acked
    BY <1>1, <2>1, <2>2, <2>3, <2>4, SMTT(30)
  <2> QED  BY <2>5 DEF l
<1> QED  BY <1>1, <1>2, <1>3, <1>4, <1>5, <1>6

LEMMA Known ==
  ASSUME IInv
  PROVE  /\ used.acked \in Nat /\ used.requests \in Nat /\ Len(textPrompt) \in Nat
         /\ CountKind(sendAudio, "done") \in Nat /\ CountKind(lmProcessed, "end") \in Nat
         /\ CountKind(lmResponse, "end") \in Nat
         /\ Closed \in Nat /\ Spoken \in Nat /\ Handed \in Nat /\ Written \in Nat
         /\ Taken \in Nat /\ Pending \in Int
         /\ Pending = Taken + Len(textPrompt) - used.acked
         /\ used.requests = used.acked + Pending
<1>1. TypeOK /\ used.requests = used.acked + Pending
  BY DEF IInv, SentinelConserved
<1> QED  BY <1>1, Numbers

\* The same in the next state.
LEMMA NumbersNext ==
  ASSUME TypeOK'
  PROVE  /\ used'.acked \in Nat /\ used'.requests \in Nat /\ Len(textPrompt') \in Nat
         /\ CountKind(sendAudio', "done") \in Nat /\ CountKind(lmProcessed', "end") \in Nat
         /\ CountKind(lmResponse', "end") \in Nat
         /\ Closed' \in Nat /\ Spoken' \in Nat /\ Handed' \in Nat /\ Written' \in Nat
         /\ Taken' \in Nat
         /\ Pending' = Taken' + Len(textPrompt') - used'.acked
<1>1. used'.acked \in Nat /\ used'.requests \in Nat /\ Len(textPrompt') \in Nat
  BY DEF TypeOK, SessionOK, Counters, QueuesOK
<1>2. /\ CountKind(sendAudio', "done") \in Nat /\ CountKind(lmProcessed', "end") \in Nat
      /\ CountKind(lmResponse', "end") \in Nat
  BY CountIsEnds DEF TypeOK, QueuesOK
<1>3. Closed' \in Nat
  BY <1>1 DEF Closed, Bit
<1>4. Spoken' \in Nat /\ Handed' \in Nat /\ Written' \in Nat
  BY <1>2, <1>3 DEF Spoken, Handed, Written
<1>5. Taken' \in Nat
  <2>1. Bit(llm'.pc = "generate") \in Nat
    BY DEF Bit
  <2> QED  BY <1>4, <2>1 DEF Taken
<1>6. Pending' = Taken' + Len(textPrompt') - used'.acked
  <2> DEFINE a == CountKind(sendAudio', "done")
             p == CountKind(lmProcessed', "end")
             r == CountKind(lmResponse', "end")
             g == Bit(llm'.pc = "generate")
             t == Bit(sender'.pc \in {"tail", "done"})
             l == Len(textPrompt')
  <2>1. Taken' = used'.acked + t + a + p + r + g
    BY DEF Closed, Spoken, Handed, Written, Taken
  <2>2. Pending' = l + g + r + p + a + t
    BY DEF Pending, Bit
  <2>3. g \in Nat /\ t \in Nat
    BY DEF Bit
  <2>4. a \in Nat /\ p \in Nat /\ r \in Nat /\ l \in Nat
    BY <1>1, <1>2
  <2> HIDE DEF a, p, r, g, t, l
  <2>5. Pending' = Taken' + l - used'.acked
    BY <1>1, <2>1, <2>2, <2>3, <2>4, SMTT(30)
  <2> QED  BY <2>5 DEF l
<1> QED  BY <1>1, <1>2, <1>3, <1>4, <1>5, <1>6

-----------------------------------------------------------------------------
(* What a step does to the requests: order and number. *)

Keeps(d) == FIFO' /\ SentinelConserved' /\ Pending' = Pending + d

\* Nothing happens to the requests.
Quiet ==
  /\ UNCHANGED <<sendAudio, lmProcessed, lmResponse, textPrompt, llm, tts>>
  /\ used'.requests = used.requests /\ used'.acked = used.acked
  /\ sender'.pc \in {"tail", "done"} <=> sender.pc \in {"tail", "done"}
  /\ sender'.pc = "tail" => sender.pc = "tail" /\ sender'.for = sender.for

LEMMA QuietKeeps ==
  ASSUME IInv, TypeOK', Quiet
  PROVE  Keeps(0)
<1>1. /\ Closed' = Closed /\ Spoken' = Spoken /\ Handed' = Handed /\ Written' = Written
      /\ Taken' = Taken
  BY DEF Quiet, Closed, Spoken, Handed, Written, Taken, Bit
<1>2. FIFO'
  BY <1>1 DEF IInv, FIFO, Quiet
<1>3. Pending' = Pending
  BY <1>1, Known, NumbersNext DEF Quiet
<1>4. SentinelConserved'
  BY <1>3, Known DEF SentinelConserved, Quiet
<1> QED  BY <1>2, <1>3, <1>4, Known DEF Keeps

\* A request is made.
Asks ==
  /\ textPrompt' = Append(textPrompt, NextRequest)
  /\ UNCHANGED <<sendAudio, lmProcessed, lmResponse, llm, tts>>
  /\ used'.requests = used.requests + 1 /\ used'.acked = used.acked
  /\ sender'.pc \in {"tail", "done"} <=> sender.pc \in {"tail", "done"}
  /\ sender'.pc = "tail" => sender.pc = "tail" /\ sender'.for = sender.for

LEMMA AsksKeeps ==
  ASSUME IInv, TypeOK', Asks
  PROVE  Keeps(1)
<1>1. /\ Closed' = Closed /\ Spoken' = Spoken /\ Handed' = Handed /\ Written' = Written
      /\ Taken' = Taken
  BY DEF Asks, Closed, Spoken, Handed, Written, Taken, Bit
<1>2. /\ textPrompt \in Seq(Nat) /\ Len(textPrompt') = Len(textPrompt) + 1
      /\ NextRequest = Taken + Len(textPrompt) + 1
  <2>1. NextRequest = Taken + Len(textPrompt) + 1 /\ NextRequest \in Nat
    <3>1. /\ used.acked \in Nat /\ used.requests \in Nat /\ Taken \in Nat
          /\ Len(textPrompt) \in Nat /\ Pending \in Int
          /\ Pending = Taken + Len(textPrompt) - used.acked
          /\ used.requests = used.acked + Pending
      BY Known
    <3> QED  BY <3>1 DEF NextRequest
  <2>2. textPrompt \in Seq(Nat)
    BY DEF IInv, TypeOK, QueuesOK
  <2> QED  BY <2>1, <2>2 DEF Asks
<1>3. Pending' = Pending + 1
  <2>1. used'.acked = used.acked /\ Taken' = Taken /\ Len(textPrompt') = Len(textPrompt) + 1
    BY <1>1, <1>2 DEF Asks
  <2>2. /\ used.acked \in Nat /\ used.requests \in Nat /\ Taken \in Nat
        /\ Len(textPrompt) \in Nat /\ Pending \in Int
        /\ Pending = Taken + Len(textPrompt) - used.acked
        /\ used.requests = used.acked + Pending
    BY Known
  <2>3. Pending' = Taken' + Len(textPrompt') - used'.acked
    BY NumbersNext
  <2> QED  BY <2>1, <2>2, <2>3
<1>4. SentinelConserved'
  <2>1. used'.requests = used.requests + 1 /\ used'.acked = used.acked
    BY DEF Asks
  <2> QED  BY <1>3, <2>1, Known, SMTT(30) DEF SentinelConserved
<1>5. \A n \in DOMAIN textPrompt' : textPrompt'[n] = Taken + n
  <2> SUFFICES ASSUME NEW n \in 1..Len(textPrompt) + 1
               PROVE  Append(textPrompt, NextRequest)[n] = Taken + n
    BY <1>2 DEF Asks
  <2>1. CASE n = Len(textPrompt) + 1
    BY <1>2, <2>1, Known
  <2>2. CASE n \in 1..Len(textPrompt)
    <3>1. textPrompt[n] = Taken + n
      BY <1>2, <2>2 DEF IInv, FIFO
    <3> QED  BY <1>2, <2>2, <3>1
  <2> QED  BY <2>1, <2>2, Known, SMTT(30)
<1>6. FIFO'
  BY <1>1, <1>5 DEF IInv, FIFO, Asks
<1> QED  BY <1>3, <1>4, <1>6, Known DEF Keeps

\* The output queues are flushed.
Flushes ==
  /\ FlushOutputs
  /\ UNCHANGED <<textPrompt, lmProcessed, lmResponse, llm, tts>>
  /\ used'.requests = used.requests /\ used'.acked = used.acked
  /\ sender'.pc \in {"tail", "done"} <=> sender.pc \in {"tail", "done"}
  /\ sender'.pc = "tail" => sender.pc = "tail" /\ sender'.for = sender.for

LEMMA FlushesKeeps ==
  ASSUME IInv, TypeOK', Flushes
  PROVE  Keeps(0)
<1>1. Closed' = Closed
  BY DEF Flushes, Closed
<1>2. /\ CountKind(sendAudio', "done") = CountKind(sendAudio, "done")
      /\ InTurn(sendAudio', "done", Closed)
  <2> DEFINE at == {n \in DOMAIN sendAudio : sendAudio[n].kind = "done"}
  <2>1. sendAudio' = Picked(sendAudio, at)
    BY DEF Flushes, FlushOutputs, KeepAudioSentinel
  <2>2. sendAudio \in Seq(ItemsOf(AudioKinds)) /\ InTurn(sendAudio, "done", Closed)
    BY DEF IInv, FIFO, TypeOK, QueuesOK
  <2> HIDE DEF at
  <2>3. at = {n \in DOMAIN sendAudio : sendAudio[n].kind = "done"} /\ Closed \in Nat
    BY Known DEF at
  <2> QED  BY <2>1, <2>2, <2>3, PickedKind
<1>3. Spoken' = Spoken /\ Handed' = Handed /\ Written' = Written /\ Taken' = Taken
  BY <1>1, <1>2 DEF Flushes, Spoken, Handed, Written, Taken
<1>4. FIFO'
  BY <1>1, <1>2, <1>3 DEF IInv, FIFO, Flushes
<1>5. Pending' = Pending
  BY <1>3, Known, NumbersNext DEF Flushes
<1>6. SentinelConserved'
  BY <1>5, Known DEF SentinelConserved, Flushes
<1> QED  BY <1>4, <1>5, <1>6, Known DEF Keeps

\* The item at the head of the audio queue is taken.
LEMMA HeadOfAudio ==
  ASSUME IInv, sendAudio # << >>, sendAudio' = Tail(sendAudio)
  PROVE  /\ Head(sendAudio).for = Closed + 1
         /\ LET d == Bit(Head(sendAudio).kind = "done") IN
              /\ CountKind(sendAudio, "done") = CountKind(sendAudio', "done") + d
              /\ InTurn(sendAudio', "done", Closed + d)
<1>1. sendAudio \in Seq(ItemsOf(AudioKinds)) /\ InTurn(sendAudio, "done", Closed)
  BY DEF IInv, FIFO, TypeOK, QueuesOK
<1>2. Closed \in Nat
  BY Known
<1> QED  BY <1>1, <1>2, EndsTail, InTurnTail

LEMMA StaleDoneKeeps ==
  ASSUME IInv, TypeOK', SendStaleDone
  PROVE  Keeps(0 - 1)
<1>1. /\ CountKind(sendAudio, "done") = CountKind(sendAudio', "done") + 1
      /\ InTurn(sendAudio', "done", Closed + 1)
  BY HeadOfAudio DEF SendStaleDone, Bit
<1>2. used'.acked = used.acked + 1 /\ used'.requests = used.requests /\ sender'.pc = "next"
  BY DEF SendStaleDone, ResponseComplete, IInv, TypeOK, SessionOK, Counters
<1>3. Closed' = Closed + 1 /\ sender.pc \notin {"tail", "done"}
  BY <1>2, Known, SMTT(30) DEF SendStaleDone, Closed, Bit
<1>4. Spoken' = Spoken
  BY <1>1, <1>3, Known, NumbersNext, SMTT(30) DEF Spoken
<1>5. Handed' = Handed /\ Written' = Written /\ Taken' = Taken
  BY <1>4 DEF SendStaleDone, Handed, Written, Taken, threads
<1>6. FIFO'
  BY <1>1, <1>2, <1>3, <1>4, <1>5 DEF IInv, FIFO, SendStaleDone, threads
<1>7. Pending' = Pending - 1
  <2>1. UNCHANGED textPrompt
    BY DEF SendStaleDone
  <2>2. /\ used.acked \in Nat /\ used.requests \in Nat /\ Taken \in Nat
        /\ Len(textPrompt) \in Nat /\ Pending \in Int
        /\ Pending = Taken + Len(textPrompt) - used.acked
        /\ used.requests = used.acked + Pending
    BY Known
  <2>3. Pending' = Taken' + Len(textPrompt') - used'.acked
    BY NumbersNext
  <2> QED  BY <1>2, <1>5, <2>1, <2>2, <2>3
<1>8. SentinelConserved'
  BY <1>2, <1>7, Known, SMTT(30) DEF SentinelConserved
<1> QED  BY <1>6, <1>7, <1>8, Known DEF Keeps

LEMMA SendDoneKeeps ==
  ASSUME IInv, TypeOK', SendDone
  PROVE  Keeps(0) /\ sender'.for = Closed'
<1>1. /\ CountKind(sendAudio, "done") = CountKind(sendAudio', "done") + 1
      /\ InTurn(sendAudio', "done", Closed + 1)
      /\ Head(sendAudio).for = Closed + 1
  BY HeadOfAudio DEF SendDone, Bit
<1>2. used' = used /\ sender'.pc = "tail" /\ sender'.for = Head(sendAudio).for
  BY DEF SendDone
<1>3. Closed' = Closed + 1
  BY <1>2, Known, SMTT(30) DEF SendDone, Closed, Bit
<1>4. Spoken' = Spoken
  BY <1>1, <1>3, Known, NumbersNext, SMTT(30) DEF Spoken
<1>5. Handed' = Handed /\ Written' = Written /\ Taken' = Taken
  BY <1>4 DEF SendDone, Handed, Written, Taken, threads
<1>6. FIFO'
  BY <1>1, <1>2, <1>3, <1>4, <1>5 DEF IInv, FIFO, SendDone, threads
<1>7. Pending' = Pending
  <2>1. UNCHANGED textPrompt
    BY DEF SendDone
  <2>2. /\ used.acked \in Nat /\ used.requests \in Nat /\ Taken \in Nat
        /\ Len(textPrompt) \in Nat /\ Pending \in Int
        /\ Pending = Taken + Len(textPrompt) - used.acked
        /\ used.requests = used.acked + Pending
    BY Known
  <2>3. Pending' = Taken' + Len(textPrompt') - used'.acked
    BY NumbersNext
  <2> QED  BY <1>2, <1>5, <2>1, <2>2, <2>3
<1>8. SentinelConserved'
  BY <1>2, <1>7, Known DEF SentinelConserved
<1> QED  BY <1>1, <1>2, <1>3, <1>6, <1>7, <1>8, Known DEF Keeps

\* A chunk is taken, sent or dropped.
TakesChunk ==
  /\ sendAudio # << >> /\ Head(sendAudio).kind = "audio" /\ sendAudio' = Tail(sendAudio)
  /\ UNCHANGED <<textPrompt, lmProcessed, lmResponse, llm, tts, used>>
  /\ sender.pc \notin {"tail", "done"} /\ sender'.pc \notin {"tail", "done"}

LEMMA TakesChunkKeeps ==
  ASSUME IInv, TypeOK', TakesChunk
  PROVE  Keeps(0)
<1>1. /\ CountKind(sendAudio, "done") = CountKind(sendAudio', "done") + 0
      /\ InTurn(sendAudio', "done", Closed + 0)
  BY HeadOfAudio DEF TakesChunk, Bit
<1>2. Closed' = Closed /\ Closed + 0 = Closed
  BY Known, SMTT(30) DEF TakesChunk, Closed
<1>3. Spoken' = Spoken
  BY <1>1, <1>2, Known, NumbersNext DEF Spoken
<1>4. Handed' = Handed /\ Written' = Written /\ Taken' = Taken
  BY <1>3 DEF TakesChunk, Handed, Written, Taken
<1>5. FIFO'
  BY <1>1, <1>2, <1>3, <1>4 DEF IInv, FIFO, TakesChunk
<1>6. Pending' = Pending
  BY <1>4, Known, NumbersNext DEF TakesChunk
<1>7. SentinelConserved'
  BY <1>6, Known DEF SentinelConserved, TakesChunk
<1> QED  BY <1>5, <1>6, <1>7, Known DEF Keeps

\* The send loop is done with a sentinel it held.
Acknowledges ==
  /\ sender.pc \in {"tail", "done"} /\ sender'.pc = "next"
  /\ used'.requests = used.requests /\ used'.acked = used.acked + 1
  /\ UNCHANGED <<sendAudio, textPrompt, lmProcessed, lmResponse, llm, tts>>

LEMMA AcknowledgesKeeps ==
  ASSUME IInv, TypeOK', Acknowledges
  PROVE  Keeps(0 - 1)
<1>1. Closed' = Closed
  BY Known DEF Acknowledges, Closed, Bit
<1>2. Spoken' = Spoken /\ Handed' = Handed /\ Written' = Written /\ Taken' = Taken
  BY <1>1 DEF Acknowledges, Spoken, Handed, Written, Taken
<1>3. FIFO'
  BY <1>1, <1>2 DEF IInv, FIFO, Acknowledges
<1>4. Pending' = Pending - 1
  BY <1>2, Known, NumbersNext, SMTT(30) DEF Acknowledges
<1>5. SentinelConserved'
  BY <1>4, Known, SMTT(30) DEF SentinelConserved, Acknowledges
<1> QED  BY <1>3, <1>4, <1>5, Known DEF Keeps

-----------------------------------------------------------------------------
(* The handler threads pass requests on in order and lose none. *)

\* What follows for a step that only moves requests within the chain.
Moves ==
  /\ used' = used /\ sender' = sender
  /\ Taken' + Len(textPrompt') = Taken + Len(textPrompt)

LEMMA MovesConserves ==
  ASSUME IInv, TypeOK', Moves
  PROVE  SentinelConserved' /\ Pending' = Pending + 0 /\ Closed' = Closed
<1>1. /\ Pending = Taken + Len(textPrompt) - used.acked
      /\ Taken \in Nat /\ Len(textPrompt) \in Nat /\ used.acked \in Nat
      /\ used.requests = used.acked + Pending
  BY Known
<1>2. Pending' = Taken' + Len(textPrompt') - used'.acked
  BY NumbersNext
<1>3. used' = used /\ Taken' + Len(textPrompt') = Taken + Len(textPrompt)
  BY DEF Moves
<1>4. Taken' \in Nat /\ Len(textPrompt') \in Nat
  BY NumbersNext
<1>5. Pending' = Pending /\ Pending + 0 = Pending
  BY <1>1, <1>2, <1>3, <1>4
<1> QED  BY <1>1, <1>3, <1>5 DEF Moves, SentinelConserved, Closed

LEMMA LlmTakeKeeps ==
  ASSUME IInv, TypeOK', LlmTake, UNCHANGED load
  PROVE  Keeps(0)
<1>1. /\ textPrompt \in Seq(Nat) /\ textPrompt # << >> /\ textPrompt' = Tail(textPrompt)
      /\ \A n \in DOMAIN textPrompt : textPrompt[n] = Taken + n
  BY DEF LlmTake, IInv, TypeOK, QueuesOK, FIFO
<1>2. /\ Len(textPrompt) \in Nat \ {0} /\ Len(textPrompt') = Len(textPrompt) - 1
      /\ DOMAIN textPrompt' = 1..Len(textPrompt) - 1 /\ DOMAIN textPrompt = 1..Len(textPrompt)
      /\ \A n \in 1..Len(textPrompt) - 1 : textPrompt'[n] = textPrompt[n + 1]
      /\ Head(textPrompt) = textPrompt[1]
  BY <1>1, HeadTailProperties, EmptySeq
<1>3. Written' = Written /\ Taken = Written /\ Taken' = Written + 1
  <2>1. Written' = Written
    BY DEF LlmTake, Closed, Spoken, Handed, Written
  <2>2. llm.pc # "generate" /\ llm'.pc = "generate" /\ Written \in Nat
    BY Known DEF LlmTake
  <2> QED  BY <2>1, <2>2 DEF Taken, Bit
<1>4. Written \in Nat
  BY Known
<1>5. Moves
  BY <1>2, <1>3, <1>4 DEF Moves, LlmTake
<1>6. llm'.for = Written' + 1
  <2>1. llm'.for = Head(textPrompt)
    BY DEF LlmTake
  <2> QED  BY <1>1, <1>2, <1>3, <2>1
<1>7. \A n \in DOMAIN textPrompt' : textPrompt'[n] = Taken' + n
  <2> SUFFICES ASSUME NEW n \in 1..Len(textPrompt) - 1
               PROVE  textPrompt'[n] = Taken' + n
    BY <1>2
  <2>1. textPrompt'[n] = textPrompt[n + 1] /\ n + 1 \in 1..Len(textPrompt)
    BY <1>2
  <2>2. textPrompt[n + 1] = Taken + (n + 1)
    BY <1>1, <1>2, <2>1
  <2> QED  BY <1>3, <1>4, <2>1, <2>2
<1>8. FIFO'
  <2>1. Closed' = Closed /\ Spoken' = Spoken /\ Handed' = Handed
    BY DEF LlmTake, Closed, Spoken, Handed
  <2> QED  BY <1>6, <1>7, <2>1 DEF FIFO, IInv, LlmTake
<1> QED  BY <1>5, <1>8, MovesConserves DEF Keeps

LEMMA LlmStreamKeeps ==
  ASSUME IInv, TypeOK', LlmStream, UNCHANGED load
  PROVE  Keeps(0)
<1> DEFINE e == Item("text", llm.for)
           S == ItemsOf({"text", "tools", "usage", "end"})
<1>1. /\ lmResponse \in Seq(S) /\ e \in S /\ InTurn(lmResponse, "end", Handed)
      /\ e.for = Written + 1 /\ e.kind # "end" /\ lmResponse' = Append(lmResponse, e)
  BY DEF LlmStream, IInv, TypeOK, QueuesOK, ThreadsOK, FIFO, Item, ItemsOf
<1>2. Handed \in Nat /\ CountKind(lmResponse, "end") \in Nat
  BY Known
<1> HIDE DEF e, S
<1>3. e.for = Handed + 1 + CountKind(lmResponse, "end")
  BY <1>1, <1>2 DEF Written
<1>4. InTurn(lmResponse', "end", Handed)
  BY <1>1, <1>2, <1>3, InTurnAppend
<1>5. CountKind(lmResponse', "end") = CountKind(lmResponse, "end")
  BY <1>1, <1>2, EndsAppend DEF Bit
<1>6. Closed' = Closed /\ Spoken' = Spoken /\ Handed' = Handed
  BY DEF LlmStream, Closed, Spoken, Handed
<1>7. Written' = Written /\ llm'.pc = llm.pc /\ llm'.for = llm.for
  BY <1>5, <1>6 DEF Written, LlmStream, IInv, TypeOK, ThreadsOK
<1>8. Taken' = Taken
  BY <1>7 DEF Taken
<1>9. Moves
  BY <1>8 DEF Moves, LlmStream
<1>10. FIFO'
  BY <1>4, <1>6, <1>7, <1>8 DEF FIFO, IInv, LlmStream
<1> QED  BY <1>9, <1>10, MovesConserves DEF Keeps

\* Appending the end of a generation keeps the queue in turn and adds one end.
NextEnd(S, C, q, base, e) ==
  /\ q \in Seq(S) /\ base \in Nat /\ InTurn(q, "end", base)
  /\ e \in S /\ e.kind = "end" /\ e.for = base + 1 + CountKind(q, "end")
  /\ C \in SUBSET S /\ \A c \in C : c.kind # "end" /\ c.for = e.for

Completed(q, last, e) == q \o (last \o <<e>>)

LEMMA AppendGenerated ==
  ASSUME NEW S, NEW C, NEW q, NEW base, NEW e, NextEnd(S, C, q, base, e),
         NEW last, last \in Last(C), NEW p, p = Completed(q, last, e)
  PROVE  InTurn(p, "end", base) /\ CountKind(p, "end") = CountKind(q, "end") + 1
<1>0. /\ q \in Seq(S) /\ base \in Nat /\ InTurn(q, "end", base)
      /\ e \in S /\ e.kind = "end" /\ e.for = base + 1 + CountKind(q, "end")
      /\ C \in SUBSET S /\ \A c \in C : c.kind # "end" /\ c.for = e.for
  BY DEF NextEnd
<1>1. ASSUME NEW u \in Seq(S), InTurn(u, "end", base), CountKind(u, "end") = CountKind(q, "end"),
             NEW c \in C
      PROVE  /\ Append(u, c) \in Seq(S) /\ InTurn(Append(u, c), "end", base)
             /\ CountKind(Append(u, c), "end") = CountKind(q, "end")
  <2>1. CountKind(Append(u, c), "end") = CountKind(u, "end") + 0
    BY <1>0, EndsAppend DEF Bit
  <2>2. CountKind(u, "end") \in Nat
    BY CountIsEnds
  <2> QED  BY <1>0, <1>1, <2>1, <2>2, InTurnAppend
<1>2. ASSUME NEW u \in Seq(S), InTurn(u, "end", base), CountKind(u, "end") = CountKind(q, "end")
      PROVE  /\ InTurn(Append(u, e), "end", base)
             /\ CountKind(Append(u, e), "end") = CountKind(q, "end") + 1
  <2>1. CountKind(Append(u, e), "end") = CountKind(u, "end") + 1
    BY <1>0, EndsAppend DEF Bit
  <2> QED  BY <1>0, <1>2, <2>1, InTurnAppend
<1>3. CASE last = << >>
  <2>1. p = Append(q, e)
    BY <1>0, <1>3 DEF Completed
  <2> QED  BY <1>0, <1>2, <2>1
<1>4. ASSUME NEW a \in C, last = <<a>>
      PROVE  InTurn(p, "end", base) /\ CountKind(p, "end") = CountKind(q, "end") + 1
  <2>1. p = Append(Append(q, a), e)
    BY <1>0, <1>4 DEF Completed
  <2> QED  BY <1>0, <1>1, <1>2, <2>1
<1>5. ASSUME NEW a \in C, NEW b \in C, last = <<a, b>>
      PROVE  InTurn(p, "end", base) /\ CountKind(p, "end") = CountKind(q, "end") + 1
  <2>1. p = Append(Append(Append(q, a), b), e)
    BY <1>0, <1>5 DEF Completed
  <2> DEFINE u == Append(q, a)
  <2>2. u \in Seq(S) /\ InTurn(u, "end", base) /\ CountKind(u, "end") = CountKind(q, "end")
    BY <1>0, <1>1
  <2> HIDE DEF u
  <2>3. /\ Append(u, b) \in Seq(S) /\ InTurn(Append(u, b), "end", base)
        /\ CountKind(Append(u, b), "end") = CountKind(q, "end")
    BY <1>0, <1>1, <2>2
  <2> QED  BY <1>2, <2>1, <2>3 DEF u
<1>6. last = << >> \/ (\E a \in C : last = <<a>>) \/ \E a, b \in C : last = <<a, b>>
  BY DEF Last
<1> QED  BY <1>3, <1>4, <1>5, <1>6

LEMMA LlmEndKeeps ==
  ASSUME IInv, TypeOK', LlmEnd, UNCHANGED load
  PROVE  Keeps(0)
<1> DEFINE S == ItemsOf({"text", "tools", "usage", "end"})
           e == Item("end", llm.for)
<1>1. PICK last \in GenerationEnds : lmResponse' = Completed(lmResponse, last, e)
  BY DEF LlmEnd, Generated, Completed
<1>2. last \in Last(Closing)
  BY EndsShort
<1>3. /\ lmResponse \in Seq(S) /\ e \in S /\ e.kind = "end" /\ e.for = llm.for
      /\ Closing \in SUBSET S /\ \A c \in Closing : c.kind # "end" /\ c.for = llm.for
  <2>1. lmResponse \in Seq(S)
    BY DEF IInv, TypeOK, QueuesOK
  <2>2. llm.for \in Nat
    BY DEF IInv, TypeOK, ThreadsOK
  <2> QED  BY <2>1, <2>2 DEF Item, ItemsOf, Closing
<1>4. Handed \in Nat /\ CountKind(lmResponse, "end") \in Nat
  BY Known
<1>5. InTurn(lmResponse, "end", Handed) /\ llm.for = Handed + 1 + CountKind(lmResponse, "end")
  BY <1>4 DEF IInv, FIFO, LlmEnd, Written
<1> HIDE DEF S, e
<1>6. /\ InTurn(lmResponse', "end", Handed)
      /\ CountKind(lmResponse', "end") = CountKind(lmResponse, "end") + 1
  <2>1. NextEnd(S, Closing, lmResponse, Handed, e)
    BY <1>3, <1>4, <1>5 DEF NextEnd
  <2> QED  BY <1>1, <1>2, <2>1, AppendGenerated
<1>7. Closed' = Closed /\ Spoken' = Spoken /\ Handed' = Handed
  BY DEF LlmEnd, Closed, Spoken, Handed
<1>8. Written' = Written + 1 /\ Written \in Nat
  BY <1>4, <1>6, <1>7, Known DEF Written
<1>9. Taken' = Taken /\ llm'.pc = "idle"
  BY <1>8 DEF Taken, Bit, LlmEnd
<1>10. Moves
  BY <1>9 DEF Moves, LlmEnd
<1>11. FIFO'
  BY <1>6, <1>7, <1>9 DEF FIFO, IInv, LlmEnd
<1> QED  BY <1>10, <1>11, MovesConserves DEF Keeps

LEMMA ProcessKeeps ==
  ASSUME IInv, TypeOK', ProcessLmOutput, UNCHANGED load
  PROVE  Keeps(0)
<1> DEFINE S == ItemsOf({"text", "tools", "usage", "end"})
           P == ItemsOf({"text", "end"})
           o == Head(lmResponse)
           d == Bit(o.kind = "end")
<1>1. lmResponse \in Seq(S) /\ lmResponse # << >> /\ lmResponse' = Tail(lmResponse)
  BY DEF ProcessLmOutput, IInv, TypeOK, QueuesOK
<1>2. InTurn(lmResponse, "end", Handed) /\ Handed \in Nat
  BY Known DEF IInv, FIFO
<1>3. /\ o.for = Handed + 1 /\ InTurn(lmResponse', "end", Handed + d)
      /\ CountKind(lmResponse, "end") = CountKind(lmResponse', "end") + d
  <2> HIDE DEF S
  <2> QED  BY <1>1, <1>2, InTurnTail, EndsTail
<1>4. /\ InTurn(lmProcessed', "end", Spoken)
      /\ CountKind(lmProcessed', "end") = CountKind(lmProcessed, "end") + d
  <2>1. /\ lmProcessed \in Seq(P) /\ InTurn(lmProcessed, "end", Spoken) /\ Spoken \in Nat
        /\ CountKind(lmProcessed, "end") \in Nat
    BY Known DEF IInv, TypeOK, QueuesOK, FIFO
  <2>2. CASE o.kind \in {"text", "end"}
    <3>1. lmProcessed' = Append(lmProcessed, o)
      BY <2>2 DEF ProcessLmOutput
    <3>2. o \in P
      <4>1. o \in S
        BY <1>1
      <4> QED  BY <2>2, <4>1 DEF ItemsOf
    <3>3. o.for = Spoken + 1 + CountKind(lmProcessed, "end")
      BY <1>3, <2>1 DEF Handed
    <3> HIDE DEF P, o
    <3>4. InTurn(Append(lmProcessed, o), "end", Spoken)
      BY <2>1, <3>2, <3>3, InTurnAppend
    <3>5. CountKind(Append(lmProcessed, o), "end") = CountKind(lmProcessed, "end") + d
      BY <2>1, <3>2, EndsAppend
    <3> QED  BY <3>1, <3>4, <3>5
  <2>3. CASE o.kind \notin {"text", "end"}
    <3>1. lmProcessed' = lmProcessed /\ d = 0
      BY <2>3 DEF ProcessLmOutput, Bit
    <3> QED  BY <2>1, <3>1
  <2> QED  BY <2>2, <2>3
<1>5. d \in {0, 1}
  BY DEF Bit
<1> HIDE DEF S, P, o, d
<1>6. Closed' = Closed /\ Spoken' = Spoken /\ llm' = llm /\ tts' = tts
  BY DEF ProcessLmOutput, Closed, Spoken, threads
<1>7. Handed' = Handed + d
  BY <1>4, <1>5, <1>6, Known DEF Handed
<1>8. Written' = Written
  BY <1>2, <1>3, <1>5, <1>7, Known, NumbersNext, SMTT(30) DEF Written
<1>9. Taken' = Taken
  BY <1>6, <1>8 DEF Taken
<1>10. Moves
  BY <1>9 DEF Moves, ProcessLmOutput
<1>11. FIFO'
  BY <1>3, <1>4, <1>6, <1>7, <1>8, <1>9 DEF FIFO, IInv, ProcessLmOutput
<1> QED  BY <1>10, <1>11, MovesConserves DEF Keeps

LEMMA TtsTakeKeeps ==
  ASSUME IInv, TypeOK', TtsTake, UNCHANGED load
  PROVE  Keeps(0)
<1> DEFINE P == ItemsOf({"text", "end"})
           A == ItemsOf(AudioKinds)
           i == Head(lmProcessed)
           d == Bit(i.kind = "end")
<1>1. lmProcessed \in Seq(P) /\ lmProcessed # << >> /\ lmProcessed' = Tail(lmProcessed)
  BY DEF TtsTake, IInv, TypeOK, QueuesOK
<1>2. InTurn(lmProcessed, "end", Spoken) /\ Spoken \in Nat
  BY Known DEF IInv, FIFO
<1>3. /\ i.for = Spoken + 1 /\ InTurn(lmProcessed', "end", Spoken + d)
      /\ CountKind(lmProcessed, "end") = CountKind(lmProcessed', "end") + d
  <2> HIDE DEF P
  <2> QED  BY <1>1, <1>2, InTurnTail, EndsTail
<1>4. /\ InTurn(sendAudio', "done", Closed)
      /\ CountKind(sendAudio', "done") = CountKind(sendAudio, "done") + d
      /\ tts'.pc = "synthesize" => tts'.for = Spoken + d + 1
  <2>1. /\ sendAudio \in Seq(A) /\ InTurn(sendAudio, "done", Closed) /\ Closed \in Nat
        /\ CountKind(sendAudio, "done") \in Nat
    BY Known DEF IInv, TypeOK, QueuesOK, FIFO
  <2>2. i \in P
    BY <1>1
  <2>3. CASE i.kind = "end"
    <3> DEFINE e == Sentinel(i)
    <3>1. sendAudio' = Append(sendAudio, e) /\ tts' = tts /\ tts.pc = "idle"
      BY <2>3 DEF TtsTake
    <3>2. e \in A /\ e.for = i.for /\ e.kind = "done"
      BY <2>2 DEF Sentinel, Item, ItemsOf, AudioKinds
    <3>3. e.for = Closed + 1 + CountKind(sendAudio, "done")
      BY <1>3, <2>1, <3>2 DEF Spoken
    <3>4. d = 1
      BY <2>3 DEF Bit
    <3> HIDE DEF A, e, i, d
    <3>5. InTurn(Append(sendAudio, e), "done", Closed)
      BY <2>1, <3>2, <3>3, InTurnAppend
    <3>6. CountKind(Append(sendAudio, e), "done") = CountKind(sendAudio, "done") + 1
      BY <2>1, <3>2, EndsAppend DEF Bit
    <3> QED  BY <3>1, <3>4, <3>5, <3>6
  <2>4. CASE i.kind # "end"
    <3>1. sendAudio' = sendAudio /\ tts'.for = i.for /\ d = 0
      BY <2>4 DEF TtsTake, Bit
    <3> QED  BY <1>2, <1>3, <2>1, <3>1
  <2> QED  BY <2>3, <2>4
<1>5. d \in {0, 1}
  BY DEF Bit
<1> HIDE DEF P, A, i, d
<1>6. Closed' = Closed /\ llm' = llm
  BY DEF TtsTake, Closed
<1>7. Spoken' = Spoken + d
  BY <1>4, <1>5, <1>6, Known DEF Spoken
<1>8. Handed' = Handed
  BY <1>2, <1>3, <1>5, <1>7, Known, NumbersNext, SMTT(30) DEF Handed
<1>9. Written' = Written
  BY <1>8 DEF Written, TtsTake
<1>10. Taken' = Taken
  BY <1>6, <1>9 DEF Taken
<1>11. Moves
  BY <1>10 DEF Moves, TtsTake
<1>12. FIFO'
  BY <1>3, <1>4, <1>6, <1>7, <1>8, <1>9, <1>10 DEF FIFO, IInv, TtsTake
<1> QED  BY <1>11, <1>12, MovesConserves DEF Keeps

LEMMA TtsEndKeeps ==
  ASSUME IInv, TypeOK', TtsEnd, UNCHANGED load
  PROVE  Keeps(0)
<1> DEFINE A == ItemsOf(AudioKinds)
           e == Item("audio", tts.for)
<1>1. /\ sendAudio \in Seq(A) /\ InTurn(sendAudio, "done", Closed) /\ Closed \in Nat
      /\ CountKind(sendAudio, "done") \in Nat
  BY Known DEF IInv, TypeOK, QueuesOK, FIFO
<1>2. e \in A /\ e.kind = "audio" /\ e.for = Closed + 1 + CountKind(sendAudio, "done")
  <2>1. tts.for \in Nat
    BY DEF IInv, TypeOK, ThreadsOK
  <2>2. tts.for = Spoken + 1
    BY DEF TtsEnd, IInv, FIFO
  <2>3. Spoken + 1 = Closed + 1 + CountKind(sendAudio, "done")
    BY <1>1 DEF Spoken
  <2> QED  BY <2>1, <2>2, <2>3 DEF Item, ItemsOf, AudioKinds
<1>3. sendAudio' = sendAudio \/ sendAudio' = Append(sendAudio, e)
  BY DEF TtsEnd
<1> HIDE DEF A, e
<1>4. InTurn(sendAudio', "done", Closed)
  BY <1>1, <1>2, <1>3, InTurnAppend
<1>5. CountKind(sendAudio', "done") = CountKind(sendAudio, "done")
  <2>1. CountKind(Append(sendAudio, e), "done") = CountKind(sendAudio, "done") + 0
    BY <1>1, <1>2, EndsAppend DEF Bit
  <2>2. CountKind(Append(sendAudio, e), "done") = CountKind(sendAudio, "done")
    BY <1>1, <2>1
  <2>3. CASE sendAudio' = sendAudio
    BY <2>3
  <2>4. CASE sendAudio' = Append(sendAudio, e)
    BY <2>2, <2>4
  <2> QED  BY <1>3, <2>3, <2>4
<1>6. Closed' = Closed /\ llm' = llm /\ tts'.pc = "idle"
  BY DEF TtsEnd, Closed
<1>7. Spoken' = Spoken
  BY <1>5, <1>6 DEF Spoken
<1>8. Handed' = Handed /\ Written' = Written
  BY <1>7 DEF Handed, Written, TtsEnd
<1>9. Taken' = Taken
  BY <1>6, <1>8 DEF Taken
<1>10. Moves
  BY <1>9 DEF Moves, TtsEnd
<1>11. FIFO'
  BY <1>4, <1>6, <1>7, <1>8, <1>9 DEF FIFO, IInv, TtsEnd
<1> QED  BY <1>10, <1>11, MovesConserves DEF Keeps

-----------------------------------------------------------------------------
(* The balance of sentinels against what they close. *)

\* What Balanced says of the state, with the number of sentinels under way made plain.
LEMMA BalancedNow ==
  ASSUME IInv, astray = {}
  PROVE  /\ Pending = Bit(InResponse) + Bit(scope.discarding)
                      + Bit(sender.pc \in {"barge", "done"})
         /\ InResponse => conn.response = used.requests
         /\ sender.pc \in {"barge", "done"} => ~InResponse
         /\ sender.pc = "done" \/ (sender.pc = "tail" /\ InResponse) => ~scope.discarding
BY DEF IInv, Balanced

\* Steps that touch neither a response nor the guard nor what the send loop is closing.
Idles ==
  /\ UNCHANGED <<conn, scope, astray>> /\ used'.requests = used.requests
  /\ \/ sender.pc \notin {"barge", "tail", "done"} /\ sender'.pc \notin {"barge", "tail", "done"}
     \/ sender' = sender

LEMMA IdlesBalanced ==
  ASSUME IInv, Keeps(0), Idles
  PROVE  Balanced'
<1> SUFFICES ASSUME astray' = {} PROVE Balanced'
  BY DEF Balanced
<1>1. astray = {}
  BY DEF Idles
<1>2. Pending' = Pending
  BY Known DEF Keeps
<1>3. CASE sender' = sender
  <2>1. InResponse' <=> InResponse
    BY DEF InResponse, Idles
  <2> QED  BY <1>1, <1>2, <1>3, <2>1, BalancedNow DEF Balanced, Idles, Bit
<1>4. CASE /\ sender.pc \notin {"barge", "tail", "done"}
           /\ sender'.pc \notin {"barge", "tail", "done"}
  <2>1. InResponse' <=> InResponse
    BY DEF InResponse, Idles
  <2> QED  BY <1>1, <1>2, <1>4, <2>1, BalancedNow DEF Balanced, Idles, Bit
<1> QED  BY <1>3, <1>4 DEF Idles

LEMMA RequestPositive ==
  ASSUME IInv
  PROVE  NextRequest \in Nat /\ NextRequest # NoId
<1>1. used.requests \in Nat
  BY Known
<1> QED  BY <1>1 DEF NextRequest, NoId

LEMMA SendTextInv ==
  ASSUME IInv, TypeOK', SendText, UNCHANGED load
  PROVE  FIFO' /\ SentinelConserved' /\ Balanced'
<1> DEFINE e == Head(textOutput)
<1>0. /\ sender.pc \in {"text", "next"} /\ UNCHANGED <<scope, sendAudio, lmProcessed, lmResponse, llm, tts>>
      /\ sender \in [pc : SuspendedAt \cup {"next", "audio0"}, for : Nat]
      /\ used \in Counters
  BY DEF SendText, flags, threads, IInv, TypeOK, ThreadsOK, SessionOK
<1>1. CASE /\ e.kind = "speech_started"
           /\ conn' = NoConn
           /\ SenderTo(IF InResponse THEN "barge" ELSE "audio")
           /\ UNCHANGED <<textPrompt, used, astray>>
  <2>1. sender'.pc = IF InResponse THEN "barge" ELSE "audio"
    BY <1>0, <1>1 DEF SenderTo
  <2>2. Quiet
    BY <1>0, <1>1, <2>1 DEF Quiet
  <2>3. Keeps(0)
    BY <2>2, QuietKeeps
  <2>4. ~InResponse'
    BY <1>1 DEF InResponse, NoConn, NoId
  <2>5. Pending' = Pending
    BY <2>3, Known DEF Keeps
  <2>6. Balanced'
    BY <1>0, <1>1, <2>1, <2>4, <2>5, BalancedNow DEF Balanced, Bit
  <2> QED  BY <2>3, <2>6 DEF Keeps
<1>2. CASE /\ e.kind = "transcript"
           /\ conn' = Opened(conn, NextRequest)
           /\ textPrompt' = Append(textPrompt, NextRequest)
           /\ used' = [used EXCEPT !.requests = @ + 1]
           /\ astray' = IF InResponse THEN astray \cup {"stacked"} ELSE astray
           /\ SenderTo("audio")
  <2>1. /\ sender'.pc = "audio" /\ used'.requests = NextRequest
        /\ used'.requests = used.requests + 1 /\ used'.acked = used.acked
    BY <1>0, <1>2 DEF SenderTo, Counters, NextRequest
  <2>2. Asks
    BY <1>0, <1>2, <2>1 DEF Asks
  <2>3. Keeps(1)
    BY <2>2, AsksKeeps
  <2>4. ASSUME astray' = {}
        PROVE  astray = {} /\ ~InResponse /\ InResponse' /\ conn'.response = used'.requests
    <3>1. astray = {} /\ ~InResponse
      BY <1>2, <2>4
    <3>2. conn'.response = NextRequest
      BY <1>2, <3>1 DEF Opened, InResponse, NoConn
    <3> QED  BY <2>1, <3>1, <3>2, RequestPositive DEF InResponse
  <2>5. Pending' = Pending + 1
    BY <2>3 DEF Keeps
  <2>6. Balanced'
    BY <1>0, <2>1, <2>4, <2>5, BalancedNow DEF Balanced, Bit
  <2> QED  BY <2>3, <2>6 DEF Keeps
<1>3. CASE /\ e.kind \in {"assistant_text", "tool_calls"} /\ ~scope.discarding
           /\ conn' = IF e.kind = "assistant_text" THEN Begun(conn) ELSE Ensured(conn)
           /\ NoteLate
           /\ SenderTo("audio")
           /\ UNCHANGED <<textPrompt, used>>
  <2>1. sender'.pc = "audio"
    BY <1>0, <1>3 DEF SenderTo
  <2>2. Quiet
    BY <1>0, <1>3, <2>1 DEF Quiet
  <2>3. Keeps(0)
    BY <2>2, QuietKeeps
  <2>4. ASSUME astray' = {}
        PROVE  astray = {} /\ InResponse /\ conn'.response = conn.response
    <3>1. astray = {} /\ InResponse
      BY <1>3, <2>4 DEF NoteLate
    <3>2. Ensured(conn) = conn
      BY <3>1 DEF Ensured, InResponse
    <3>3. conn \in ConnState
      BY DEF IInv, TypeOK, SessionOK
    <3> QED  BY <1>3, <3>1, <3>2, <3>3 DEF Begun, ConnState
  <2>5. Pending' = Pending
    BY <2>3, Known DEF Keeps
  <2>6. ASSUME astray' = {}
        PROVE  InResponse'
    BY <2>4, <2>6 DEF InResponse
  <2>7. Balanced'
    BY <1>0, <1>3, <2>1, <2>4, <2>5, <2>6, BalancedNow DEF Balanced, Bit
  <2> QED  BY <2>3, <2>7 DEF Keeps
<1>4. CASE /\ SenderTo("audio") \/ SenderTo("audio0")
           /\ UNCHANGED <<conn, textPrompt, used, astray>>
  <2>1. sender'.pc \in {"audio", "audio0"}
    BY <1>0, <1>4 DEF SenderTo
  <2>2. Quiet /\ Idles
    BY <1>0, <1>4, <2>1 DEF Quiet, Idles
  <2> QED  BY <2>2, QuietKeeps, IdlesBalanced DEF Keeps
<1> QED  BY <1>1, <1>2, <1>3, <1>4 DEF SendText

LEMMA BargeInInv ==
  ASSUME IInv, TypeOK', BargeIn, UNCHANGED load
  PROVE  FIFO' /\ SentinelConserved' /\ Balanced'
<1>1. sender'.pc = "audio0" /\ scope'.discarding = TRUE
  BY DEF BargeIn, SenderTo, Cancelled, IInv, TypeOK, ThreadsOK
<1>2. Flushes
  BY <1>1 DEF BargeIn, Flushes, threads
<1>3. Keeps(0) /\ Pending' = Pending
  BY <1>2, FlushesKeeps, Known DEF Keeps
<1>4. ASSUME astray' = {}
      PROVE  astray = {} /\ ~scope.discarding
  BY <1>4 DEF BargeIn, NoteDoubled
<1>5. (InResponse' <=> InResponse) /\ conn' = conn /\ used' = used /\ sender.pc = "barge"
  BY DEF BargeIn, InResponse
<1>6. Balanced'
  BY <1>1, <1>3, <1>4, <1>5, BalancedNow DEF Balanced, Bit
<1> QED  BY <1>3, <1>6 DEF Keeps

LEMMA SendStaleDoneInv ==
  ASSUME IInv, TypeOK', SendStaleDone, UNCHANGED load
  PROVE  FIFO' /\ SentinelConserved' /\ Balanced'
<1>1. /\ sender'.pc = "next" /\ scope'.discarding = FALSE /\ used'.requests = used.requests
      /\ scope.discarding = TRUE
  BY DEF SendStaleDone, ResponseComplete, Undiscarded, StaleDone,
         IInv, TypeOK, FlagsOK, SessionOK, Counters
<1>2. Keeps(0 - 1)
  BY StaleDoneKeeps
<1>3. Pending' = Pending - 1 /\ Pending \in Int
  BY <1>2, Known DEF Keeps
<1>4. /\ (InResponse' <=> InResponse) /\ conn' = conn /\ astray' = astray
      /\ sender.pc \in {"audio", "audio0"}
  BY DEF SendStaleDone, InResponse
<1>5. Balanced'
  BY <1>1, <1>3, <1>4, BalancedNow DEF Balanced, Bit
<1> QED  BY <1>2, <1>5 DEF Keeps

LEMMA SendDoneInv ==
  ASSUME IInv, TypeOK', SendDone, UNCHANGED load
  PROVE  FIFO' /\ SentinelConserved' /\ Balanced'
<1>1. Keeps(0)
  BY SendDoneKeeps
<1>2. Pending' = Pending
  BY <1>1, Known DEF Keeps
<1>3. /\ (InResponse' <=> InResponse) /\ conn' = conn /\ astray' = astray
      /\ sender.pc \in {"audio", "audio0"} /\ sender'.pc = "tail" /\ used' = used
      /\ scope' = scope /\ ~scope.discarding
  BY DEF SendDone, InResponse, flags, StaleDone
<1>4. Balanced'
  BY <1>2, <1>3, BalancedNow DEF Balanced, Bit
<1> QED  BY <1>1, <1>4 DEF Keeps

LEMMA TakenAtLeastClosed ==
  ASSUME IInv
  PROVE  Taken >= Closed
<1>1. /\ Closed \in Nat /\ CountKind(sendAudio, "done") \in Nat
      /\ CountKind(lmProcessed, "end") \in Nat /\ CountKind(lmResponse, "end") \in Nat
  BY Known
<1>2. Taken = Closed + CountKind(sendAudio, "done") + CountKind(lmProcessed, "end")
              + CountKind(lmResponse, "end") + (IF llm.pc = "generate" THEN 1 ELSE 0)
  BY DEF Spoken, Handed, Written, Taken, Bit
<1> QED  BY <1>1, <1>2

LEMMA FinishHeldInv ==
  ASSUME IInv, TypeOK', FinishHeld, UNCHANGED load
  PROVE  FIFO' /\ SentinelConserved' /\ Balanced'
<1>0. /\ sender \in [pc : SuspendedAt \cup {"next", "audio0"}, for : Nat]
      /\ used \in Counters /\ scope \in [gen : Nat, discarding : BOOLEAN]
  BY DEF IInv, TypeOK, ThreadsOK, SessionOK, FlagsOK
<1>1. ~InResponse' /\ astray' = astray /\ sender.pc = "tail"
  BY DEF FinishHeld, InResponse, NoConn, NoId
<1>2. CASE InResponse
  <2>1. sender'.pc = "done" /\ scope' = scope /\ used' = used
    BY <1>0, <1>2 DEF FinishHeld, SenderTo, flags
  <2>2. Quiet
    BY <1>1, <2>1 DEF Quiet, FinishHeld, queues, threads
  <2>3. Keeps(0) /\ Pending' = Pending
    BY <2>2, QuietKeeps, Known DEF Keeps
  <2>4. Balanced'
    BY <1>1, <1>2, <2>1, <2>3, BalancedNow DEF Balanced, Bit
  <2> QED  BY <2>3, <2>4 DEF Keeps
<1>3. CASE ~InResponse
  <2>1. /\ sender'.pc = "next" /\ scope'.discarding = FALSE
        /\ used'.requests = used.requests /\ used'.acked = used.acked + 1
    BY <1>0, <1>3 DEF FinishHeld, ResponseComplete, Undiscarded, Counters
  <2>2. Acknowledges
    BY <1>1, <2>1 DEF Acknowledges, FinishHeld, queues, threads
  <2>3. Keeps(0 - 1)
    BY <2>2, AcknowledgesKeeps
  <2>4. Pending' = Pending - 1 /\ Pending \in Int
    BY <2>3, Known DEF Keeps
  <2>5. Pending >= 1
    <3>1. Closed = used.acked + 1 /\ used.acked \in Nat
      BY <1>1, Known DEF Closed, Bit
    <3>3. /\ Pending = Taken + Len(textPrompt) - used.acked /\ Len(textPrompt) \in Nat
          /\ Taken \in Nat /\ Closed \in Nat
      BY Known
    <3>4. Taken >= Closed
      BY TakenAtLeastClosed
    <3> QED  BY <3>1, <3>3, <3>4
  <2>6. Balanced'
    BY <1>1, <1>3, <2>1, <2>4, <2>5, BalancedNow DEF Balanced, Bit
  <2> QED  BY <2>3, <2>6 DEF Keeps
<1> QED  BY <1>2, <1>3

LEMMA DoneSentInv ==
  ASSUME IInv, TypeOK', DoneSent, UNCHANGED load
  PROVE  FIFO' /\ SentinelConserved' /\ Balanced'
<1>1. /\ sender.pc = "done" /\ sender'.pc = "next" /\ scope'.discarding = FALSE
      /\ used'.requests = used.requests /\ used'.acked = used.acked + 1
      /\ conn' = conn /\ astray' = astray /\ (InResponse' <=> InResponse)
  BY DEF DoneSent, ResponseComplete, Undiscarded, InResponse, IInv, TypeOK, FlagsOK,
         SessionOK, Counters
<1>2. Acknowledges
  BY <1>1 DEF Acknowledges, DoneSent, queues, threads
<1>3. Keeps(0 - 1)
  BY <1>2, AcknowledgesKeeps
<1>4. Pending' = Pending - 1 /\ Pending \in Int
  BY <1>3, Known DEF Keeps
<1>5. Balanced'
  BY <1>1, <1>4, BalancedNow DEF Balanced, Bit
<1> QED  BY <1>3, <1>5 DEF Keeps

LEMMA ChunkInv ==
  ASSUME IInv, TypeOK', DropAudio \/ SendChunk, UNCHANGED load
  PROVE  FIFO' /\ SentinelConserved' /\ Balanced'
<1>1. /\ sender.pc \in {"audio", "audio0"} /\ sender'.pc \in {"next", "pace"}
      /\ scope' = scope /\ used' = used
  BY DEF DropAudio, SendChunk, SenderTo, flags, IInv, TypeOK, ThreadsOK
<1>2. TakesChunk
  BY <1>1 DEF TakesChunk, DropAudio, SendChunk, threads
<1>3. Keeps(0) /\ Pending' = Pending
  BY <1>2, TakesChunkKeeps, Known DEF Keeps
<1>4. CASE DropAudio
  <2>1. Idles
    BY <1>1, <1>4 DEF Idles, DropAudio
  <2> QED  BY <1>3, <2>1, IdlesBalanced DEF Keeps
<1>5. CASE SendChunk
  <2>1. ASSUME astray' = {}
        PROVE  /\ astray = {} /\ InResponse /\ InResponse' /\ conn'.response = conn.response
    <3>1. astray = {} /\ InResponse
      BY <1>5, <2>1 DEF SendChunk, NoteLate
    <3>2. Ensured(conn) = conn
      BY <3>1 DEF Ensured, InResponse
    <3>3. conn \in ConnState
      BY DEF IInv, TypeOK, SessionOK
    <3>4. conn'.response = conn.response
      BY <1>5, <3>2, <3>3 DEF SendChunk, Begun, ConnState
    <3> QED  BY <3>1, <3>4 DEF InResponse
  <2>2. Balanced'
    BY <1>1, <1>3, <2>1, BalancedNow DEF Balanced, Bit
  <2> QED  BY <1>3, <2>2 DEF Keeps
<1> QED  BY <1>4, <1>5

LEMMA SendLoopInv ==
  ASSUME IInv, TypeOK', SendLoop, UNCHANGED load
  PROVE  FIFO' /\ SentinelConserved' /\ Balanced'
<1>1. CASE SendNoText \/ SendNoAudio \/ Paced
  <2>1. /\ sender.pc \notin {"barge", "tail", "done"}
        /\ sender'.pc \notin {"barge", "tail", "done"}
    BY <1>1 DEF SendNoText, SendNoAudio, Paced, SenderTo, IInv, TypeOK, ThreadsOK
  <2>2. UNCHANGED <<flags, conn, queues, threads, used, astray>>
    BY <1>1 DEF SendNoText, SendNoAudio, Paced
  <2>3. Quiet /\ Idles
    BY <2>1, <2>2 DEF Quiet, Idles, flags, queues, threads
  <2> QED  BY <2>3, QuietKeeps, IdlesBalanced DEF Keeps
<1> QED  BY <1>1, SendTextInv, BargeInInv, SendStaleDoneInv, SendDoneInv, FinishHeldInv,
            DoneSentInv, ChunkInv DEF SendLoop

LEMMA ClientCreateInv ==
  ASSUME IInv, TypeOK', ClientCreate, UNCHANGED load
  PROVE  FIFO' /\ SentinelConserved' /\ Balanced'
<1>1. /\ used'.requests = used.requests + 1 /\ used'.acked = used.acked
      /\ sender' = sender /\ scope'.discarding = FALSE /\ ~InResponse
      /\ used'.requests = NextRequest
  <2>1. used \in Counters /\ scope \in [gen : Nat, discarding : BOOLEAN]
    BY DEF IInv, TypeOK, SessionOK, FlagsOK
  <2> QED  BY <2>1 DEF ClientCreate, Counters, Undiscarded, NextRequest
<1>2. Asks
  BY <1>1 DEF Asks, ClientCreate, threads
<1>3. Keeps(1)
  BY <1>2, AsksKeeps
<1>4. InResponse' /\ conn'.response = used'.requests
  <2>1. conn'.response = NextRequest
    BY <1>1 DEF ClientCreate, Opened, InResponse, NoConn
  <2> QED  BY <1>1, <2>1, RequestPositive DEF InResponse
<1>5. ASSUME astray' = {}
      PROVE  astray = {} /\ Pending = 0 /\ sender.pc \notin {"barge", "tail", "done"}
  <2>1. astray = {} /\ ~(Pending > 0) /\ sender.pc # "barge"
    BY <1>5 DEF ClientCreate
  <2>2. Pending \in Nat
    <3>1. Pending = Bit(InResponse) + Bit(scope.discarding) + Bit(sender.pc \in {"barge", "done"})
      BY <2>1, BalancedNow
    <3> QED  BY <3>1 DEF Bit
  <2>3. sender.pc \notin {"tail", "done"}
    <3>1. Pending = 0
      BY <2>1, <2>2
    <3>2. /\ Pending = Taken + Len(textPrompt) - used.acked /\ Len(textPrompt) \in Nat
          /\ Taken \in Nat /\ Closed \in Nat /\ used.acked \in Nat
      BY Known
    <3>3. Taken >= Closed
      BY TakenAtLeastClosed
    <3>4. Closed = used.acked
      <4>1. Closed = used.acked \/ Closed = used.acked + 1
        BY <3>2 DEF Closed, Bit
      <4> QED  BY <3>1, <3>2, <3>3, <4>1
    <3> QED  BY <3>2, <3>4 DEF Closed, Bit
  <2> QED  BY <2>1, <2>2, <2>3
<1>6. ASSUME astray' = {}
      PROVE  Pending' = 1
  BY <1>3, <1>5, <1>6 DEF Keeps
<1>7. Balanced'
  BY <1>1, <1>4, <1>5, <1>6 DEF Balanced, Bit
<1> QED  BY <1>3, <1>7 DEF Keeps

LEMMA ClientCancelInv ==
  ASSUME IInv, TypeOK', ClientCancel, UNCHANGED load
  PROVE  FIFO' /\ SentinelConserved' /\ Balanced'
<1>1. /\ used'.requests = used.requests /\ used'.acked = used.acked
      /\ sender' = sender /\ ~InResponse'
  <2>1. used \in Counters
    BY DEF IInv, TypeOK, SessionOK
  <2> QED  BY <2>1 DEF ClientCancel, Counters, InResponse, NoConn, NoId
<1>2. Flushes
  BY <1>1 DEF Flushes, ClientCancel, threads
<1>3. Keeps(0) /\ Pending' = Pending
  BY <1>2, FlushesKeeps, Known DEF Keeps
<1>4. CASE InResponse
  <2>1. scope'.discarding = TRUE
    BY <1>4 DEF ClientCancel, Cancelled
  <2>2. ASSUME astray' = {}
        PROVE  astray = {} /\ ~scope.discarding
    BY <1>4, <2>2 DEF ClientCancel, NoteDoubled
  <2>3. Balanced'
    BY <1>1, <1>3, <1>4, <2>1, <2>2, BalancedNow DEF Balanced, Bit
  <2> QED  BY <1>3, <2>3 DEF Keeps
<1>5. CASE ~InResponse
  <2>1. scope' = scope /\ astray' = astray
    BY <1>5 DEF ClientCancel
  <2>2. Balanced'
    BY <1>1, <1>3, <1>5, <2>1, BalancedNow DEF Balanced, Bit
  <2> QED  BY <1>3, <2>2 DEF Keeps
<1> QED  BY <1>4, <1>5

LEMMA ClientInv ==
  ASSUME IInv, TypeOK', Client \/ CancelSent, UNCHANGED load
  PROVE  FIFO' /\ SentinelConserved' /\ Balanced'
<1>1. CASE SpeechStarts \/ SpeechEnds \/ SpeechDiscarded \/ CancelSent
  <2>1. used'.requests = used.requests /\ used'.acked = used.acked
    BY <1>1 DEF SpeechStarts, SpeechEnds, SpeechDiscarded, CancelSent,
                IInv, TypeOK, SessionOK, Counters
  <2>2. UNCHANGED <<scope, conn, sendAudio, textPrompt, lmResponse, lmProcessed, llm, tts,
                    sender, astray>>
    BY <1>1 DEF SpeechStarts, SpeechEnds, SpeechDiscarded, CancelSent, flags, queues,
       threads
  <2>3. Quiet /\ Idles
    BY <2>1, <2>2 DEF Quiet, Idles
  <2> QED  BY <2>3, QuietKeeps, IdlesBalanced DEF Keeps
<1> QED  BY <1>1, ClientCreateInv, ClientCancelInv DEF Client

LEMMA PipelineInv ==
  ASSUME IInv, TypeOK', Pipeline, UNCHANGED load
  PROVE  FIFO' /\ SentinelConserved' /\ Balanced'
<1>1. Keeps(0)
  <2>1. CASE Transcribe
    <3>1. Quiet
      BY <2>1 DEF Transcribe, Quiet, threads
    <3> QED  BY <3>1, QuietKeeps
  <2> QED  BY <2>1, LlmTakeKeeps, LlmStreamKeeps, LlmEndKeeps, ProcessKeeps, TtsTakeKeeps,
              TtsEndKeeps DEF Pipeline
<1>2. UNCHANGED <<conn, scope, astray, sender, used>>
  BY DEF Pipeline, Transcribe, LlmTake, LlmStream, LlmEnd, ProcessLmOutput, TtsTake,
     TtsEnd, flags
<1>3. Idles
  BY <1>2 DEF Idles
<1> QED  BY <1>1, <1>3, IdlesBalanced DEF Keeps

-----------------------------------------------------------------------------
(* The theorems. *)

LEMMA InitIInv ==
  Init => IInv
<1> SUFFICES ASSUME Init PROVE IInv
  OBVIOUS
<1>1. TypeOK
  BY InitTypeOK
<1>2. /\ sendAudio = << >> /\ lmProcessed = << >> /\ lmResponse = << >> /\ textPrompt = << >>
      /\ used.requests = 0 /\ used.acked = 0 /\ llm.pc = "idle" /\ tts.pc = "idle"
      /\ sender.pc = "text" /\ ~InResponse /\ scope.discarding = FALSE
  BY DEF Init, InResponse, NoConn, NoId
<1>3. /\ CountKind(sendAudio, "done") = 0 /\ CountKind(lmProcessed, "end") = 0
      /\ CountKind(lmResponse, "end") = 0
  BY <1>2, EmptyCount
<1>4. Pending = 0
  BY <1>2, <1>3 DEF Pending
<1>5. FIFO
  <2>1. \A base : /\ InTurn(sendAudio, "done", base) /\ InTurn(lmProcessed, "end", base)
                  /\ InTurn(lmResponse, "end", base)
    BY <1>2, EmptyCount
  <2> QED  BY <1>2, <2>1 DEF FIFO
<1>6. SentinelConserved /\ Balanced
  BY <1>2, <1>4 DEF SentinelConserved, Balanced, Bit
<1> QED  BY <1>1, <1>5, <1>6 DEF IInv

LEMMA IInvStep ==
  ASSUME IInv, [Next]_vars
  PROVE  IInv'
<1>1. TypeOK'
  BY TypeStep DEF IInv
<1>2. FIFO' /\ SentinelConserved' /\ Balanced'
  <2>1. CASE UNCHANGED vars
    <3>1. Quiet /\ Idles
      BY <2>1 DEF vars, session, flags, queues, threads, Quiet, Idles
    <3> QED  BY <1>1, <3>1, QuietKeeps, IdlesBalanced DEF Keeps
  <2>2. CASE Next
    BY <1>1, <2>2, SendLoopInv, ClientInv, PipelineInv DEF Next
  <2> QED  BY <2>1, <2>2
<1> QED  BY <1>1, <1>2 DEF IInv

\* In every reachable state requests are in order and in balance.
THEOREM Invariance == Spec => []IInv
<1>1. Init => IInv
  BY InitIInv
<1>2. IInv /\ [Next]_vars => IInv'
  BY IInvStep
<1> QED  BY <1>1, <1>2, PTL DEF Spec

\* Every state variable keeps its type.
THEOREM TypeCorrect == Spec => []TypeOK
<1>1. IInv => TypeOK
  BY DEF IInv
<1> QED  BY <1>1, Invariance, PTL

\* However a session goes, each request has its one sentinel: under way, or acknowledged
\* by the send loop.  No flush, cancellation or failure loses one or makes another.
THEOREM SentinelsConserved == Spec => []SentinelConserved
<1>1. IInv => SentinelConserved
  BY DEF IInv
<1> QED  BY <1>1, Invariance, PTL

LEMMA AudioFirst ==
  IInv => AudioBeforeDone
<1> SUFFICES ASSUME IInv, NEW m \in DOMAIN sendAudio, NEW n \in DOMAIN sendAudio,
                    m < n, sendAudio[m].kind = "done"
             PROVE  sendAudio[n].for # sendAudio[m].for
  BY DEF AudioBeforeDone
<1> DEFINE k == "done"
<1>1. sendAudio \in Seq(ItemsOf(AudioKinds)) /\ InTurn(sendAudio, k, Closed) /\ Closed \in Nat
  BY Known DEF IInv, TypeOK, QueuesOK, FIFO
<1>2. m \in Nat /\ n \in Nat
  BY <1>1
<1>3. m \notin Marks(sendAudio, k, m) /\ Marks(sendAudio, k, m) \cup {m} \in SUBSET Marks(sendAudio, k, n)
  <2>1. \A x \in DOMAIN sendAudio : x \in Nat /\ (x < m => x < n)
    BY <1>1, <1>2
  <2>2. m \notin Marks(sendAudio, k, m)
    BY <1>2 DEF Marks
  <2> QED  BY <2>1, <2>2 DEF Marks
<1>4. /\ IsFiniteSet(Marks(sendAudio, k, m)) /\ IsFiniteSet(Marks(sendAudio, k, n))
      /\ Ends(sendAudio, k, m) \in Nat /\ Ends(sendAudio, k, n) \in Nat
  BY <1>1, MarksFinite
<1>5. Cardinality(Marks(sendAudio, k, m) \cup {m}) = Ends(sendAudio, k, m) + 1
  BY <1>3, <1>4, FS_AddElement DEF Ends
<1>6. Cardinality(Marks(sendAudio, k, m) \cup {m}) <= Ends(sendAudio, k, n)
  BY <1>3, <1>4, FS_Subset DEF Ends
<1>7. /\ sendAudio[m].for = Closed + 1 + Ends(sendAudio, k, m)
      /\ sendAudio[n].for = Closed + 1 + Ends(sendAudio, k, n)
  BY <1>1 DEF InTurn
<1> QED  BY <1>1, <1>4, <1>5, <1>6, <1>7

\* The last item of its kind belongs to the last request of the queue.
LEMMA LastInTurn ==
  ASSUME NEW S, NEW q \in Seq(S), NEW k, NEW base \in Nat, InTurn(q, k, base),
         CountKind(q, k) > 0
  PROVE  \E n \in DOMAIN q : q[n].kind = k /\ q[n].for = base + CountKind(q, k)
<1> DEFINE at == {n \in DOMAIN q : q[n].kind = k}
           c == Cardinality(at)
           n == Nth(at, c)
<1>1. at \in SUBSET (1..Len(q)) /\ Len(q) \in Nat /\ c = CountKind(q, k) /\ c \in Nat
  <2>1. c = CountKind(q, k)
    BY DEF CountKind
  <2>2. CountKind(q, k) \in Nat
    BY CountIsEnds
  <2> HIDE DEF c
  <2> QED  BY <2>1, <2>2
<1>2. c \in 1..Cardinality(at)
  BY <1>1
<1>3. n \in at /\ Cardinality(UpTo(at, n)) = c
  BY <1>1, <1>2, NthProperties
<1>4. n \in DOMAIN q /\ n \in 1..Len(q) /\ q[n].kind = k
  BY <1>1, <1>3
<1>5. UpTo(at, n) = Marks(q, k, n) \cup {n} /\ n \notin Marks(q, k, n)
  <2> HIDE DEF n
  <2> QED  BY <1>3, <1>4 DEF UpTo, Marks
<1>6. Ends(q, k, n) \in Nat /\ Ends(q, k, n) + 1 = c
  BY <1>3, <1>5, MarksFinite, FS_AddElement DEF Ends
<1>7. q[n].for = base + 1 + Ends(q, k, n)
  BY <1>4 DEF InTurn
<1>8. q[n].for = base + c
  BY <1>6, <1>7
<1> QED  BY <1>1, <1>4, <1>8

LEMMA SentinelUnderWay ==
  IInv => OpenHasSentinel
<1> SUFFICES ASSUME IInv, InResponse, astray = {}
             PROVE  SentinelsFor(conn.response)
  BY DEF OpenHasSentinel
<1>1. conn.response = used.requests /\ sender.pc # "done"
  BY BalancedNow
<1>2. /\ used.acked \in Nat /\ used.requests \in Nat /\ Len(textPrompt) \in Nat
      /\ Taken \in Nat /\ Written \in Nat /\ Handed \in Nat /\ Spoken \in Nat /\ Closed \in Nat
      /\ used.requests = Taken + Len(textPrompt)
  <2>1. /\ used.acked \in Nat /\ used.requests \in Nat /\ Len(textPrompt) \in Nat
        /\ Taken \in Nat /\ Pending = Taken + Len(textPrompt) - used.acked
        /\ used.requests = used.acked + Pending
    BY Known
  <2> QED  BY <2>1, Known, SMTT(30)
<1>3. CASE Len(textPrompt) > 0
  <2>1. Len(textPrompt) \in DOMAIN textPrompt
    BY <1>2, <1>3 DEF IInv, TypeOK, QueuesOK
  <2>2. textPrompt[Len(textPrompt)] = used.requests
    BY <1>2, <2>1 DEF IInv, FIFO
  <2> QED  BY <1>1, <2>1, <2>2 DEF SentinelsFor
<1>4. CASE Len(textPrompt) = 0 /\ llm.pc = "generate"
  <2>1. llm.for = used.requests
    BY <1>2, <1>4 DEF IInv, FIFO, Taken, Bit
  <2> QED  BY <1>1, <1>4, <2>1 DEF SentinelsFor
<1>5. CASE Len(textPrompt) = 0 /\ llm.pc # "generate"
  <2>0. used.requests = Written
    BY <1>2, <1>5 DEF Taken, Bit
  <2>1. CASE CountKind(lmResponse, "end") > 0
    <3>1. /\ lmResponse \in Seq(ItemsOf({"text", "tools", "usage", "end"}))
          /\ InTurn(lmResponse, "end", Handed)
      BY DEF IInv, TypeOK, QueuesOK, FIFO
    <3>2. PICK n \in DOMAIN lmResponse :
            lmResponse[n].kind = "end" /\ lmResponse[n].for = Handed + CountKind(lmResponse, "end")
      BY <1>2, <2>1, <3>1, LastInTurn
    <3>3. lmResponse[n] \in ItemsOf({"text", "tools", "usage", "end"})
      BY <3>1, <3>2
    <3>4. lmResponse[n] = Item("end", used.requests)
      BY <2>0, <3>2, <3>3 DEF Item, ItemsOf, Written
    <3> QED  BY <1>1, <3>2, <3>4 DEF SentinelsFor
  <2>2. CASE ~(CountKind(lmResponse, "end") > 0) /\ CountKind(lmProcessed, "end") > 0
    <3>1. /\ lmProcessed \in Seq(ItemsOf({"text", "end"})) /\ InTurn(lmProcessed, "end", Spoken)
      BY DEF IInv, TypeOK, QueuesOK, FIFO
    <3>2. PICK n \in DOMAIN lmProcessed :
            lmProcessed[n].kind = "end" /\ lmProcessed[n].for = Spoken + CountKind(lmProcessed, "end")
      BY <1>2, <2>2, <3>1, LastInTurn
    <3>3. lmProcessed[n] \in ItemsOf({"text", "end"})
      BY <3>1, <3>2
    <3>4. used.requests = Handed
      BY <1>2, <2>0, <2>2, Known DEF Written
    <3>5. lmProcessed[n] = Item("end", used.requests)
      BY <3>2, <3>3, <3>4 DEF Item, ItemsOf, Handed
    <3> QED  BY <1>1, <3>2, <3>5 DEF SentinelsFor
  <2>3. CASE /\ ~(CountKind(lmResponse, "end") > 0) /\ ~(CountKind(lmProcessed, "end") > 0)
             /\ CountKind(sendAudio, "done") > 0
    <3>1. sendAudio \in Seq(ItemsOf(AudioKinds)) /\ InTurn(sendAudio, "done", Closed)
      BY DEF IInv, TypeOK, QueuesOK, FIFO
    <3>2. PICK n \in DOMAIN sendAudio :
            sendAudio[n].kind = "done" /\ sendAudio[n].for = Closed + CountKind(sendAudio, "done")
      BY <1>2, <2>3, <3>1, LastInTurn
    <3>3. sendAudio[n] \in ItemsOf(AudioKinds)
      BY <3>1, <3>2
    <3>4. used.requests = Spoken
      BY <1>2, <2>0, <2>3, Known DEF Written, Handed
    <3>5. sendAudio[n] = Item("done", used.requests)
      BY <3>2, <3>3, <3>4 DEF Item, ItemsOf, Spoken
    <3> QED  BY <1>1, <3>2, <3>5 DEF SentinelsFor
  <2>4. CASE /\ ~(CountKind(lmResponse, "end") > 0) /\ ~(CountKind(lmProcessed, "end") > 0)
             /\ ~(CountKind(sendAudio, "done") > 0)
    <3>1. used.requests = Closed
      BY <1>2, <2>0, <2>4, Known DEF Written, Handed, Spoken
    <3>2. used.requests > used.acked
      <4>1. Pending >= 1
        <5>1. Pending = Bit(InResponse) + Bit(scope.discarding) + Bit(sender.pc \in {"barge", "done"})
          BY BalancedNow
        <5> QED  BY <5>1 DEF Bit
      <4>2. used.requests = used.acked + Pending /\ Pending \in Int
        BY Known
      <4> QED  BY <1>2, <4>1, <4>2
    <3>3. sender.pc = "tail"
      BY <1>1, <1>2, <3>1, <3>2 DEF Closed, Bit
    <3>4. sender.for = used.requests
      BY <3>1, <3>3 DEF IInv, FIFO
    <3> QED  BY <1>1, <3>3, <3>4 DEF SentinelsFor
  <2> QED  BY <2>1, <2>2, <2>3, <2>4
<1> QED  BY <1>2, <1>3, <1>4, <1>5

\* The queues hold what the send loop takes them for: no audio behind the sentinel of its
\* request, and the sentinel of the open response under way for as long as the session has
\* not gone astray.
THEOREM QueuesCorrect == Spec => []QueuesSound
<1>1. IInv => QueuesSound
  BY AudioFirst, SentinelUnderWay DEF IInv, QueuesSound
<1> QED  BY <1>1, Invariance, PTL

\* With one sentinel under way, what is at the head of the chain is of the last request.
LEMMA OnlyRequest ==
  ASSUME IInv, astray = {}, InResponse, ~scope.discarding, sender.pc \notin {"barge", "done"}
  PROVE  conn.response = used.acked + 1 /\ used.acked \in Nat
<1>1. conn.response = used.requests
  BY BalancedNow
<1>2. Pending = 1
  <2>1. Pending = Bit(InResponse) + Bit(scope.discarding) + Bit(sender.pc \in {"barge", "done"})
    BY BalancedNow
  <2> QED  BY <2>1 DEF Bit
<1>3. used.requests = used.acked + Pending /\ used.acked \in Nat
  BY Known
<1> QED  BY <1>1, <1>2, <1>3

LEMMA ChunkInPlace ==
  ASSUME IInv, [Next]_vars, ChunkSent, astray' = {}
  PROVE  AudioInPlace
<1>1. SendChunk
  <2>1. sender'.pc = "pace" /\ sender.pc # "pace"
    BY DEF ChunkSent
  <2>2. sender \in [pc : SuspendedAt \cup {"next", "audio0"}, for : Nat]
    BY DEF IInv, TypeOK, ThreadsOK
  <2>3. ~UNCHANGED sender
    BY <2>1
  <2>4. SendLoop
    BY <2>3 DEF vars, session, Next, Client, ClientCreate, ClientCancel, CancelSent,
       SpeechStarts, SpeechEnds, SpeechDiscarded, Pipeline, Transcribe, LlmTake, LlmStream,
       LlmEnd, ProcessLmOutput, TtsTake, TtsEnd
  <2>5. /\ ~SendText /\ ~SendNoText /\ ~BargeIn /\ ~SendNoAudio /\ ~SendDone /\ ~DropAudio
        /\ ~Paced
    BY <2>1, <2>2 DEF SendText, SendNoText, BargeIn, SendNoAudio, SendDone, DropAudio,
       Paced, SenderTo
  <2>6. ~SendStaleDone /\ ~FinishHeld /\ ~DoneSent
    BY <2>1, <2>2 DEF SendStaleDone, FinishHeld, DoneSent, ResponseComplete, SenderTo
  <2> QED  BY <2>4, <2>5, <2>6 DEF SendLoop
<1>2. astray = {} /\ InResponse /\ ~scope.discarding /\ sender.pc \in {"audio", "audio0"}
  BY <1>1 DEF SendChunk, NoteLate
<1>3. conn.response = used.acked + 1 /\ used.acked \in Nat
  BY <1>2, OnlyRequest
<1>4. Head(sendAudio).for = Closed + 1
  BY <1>1, HeadOfAudio DEF SendChunk
<1>5. Closed = used.acked
  BY <1>2, <1>3 DEF Closed, Bit
<1>6. conn'.response = conn.response
  <2>1. Ensured(conn) = conn /\ conn \in ConnState
    BY <1>2 DEF Ensured, InResponse, IInv, TypeOK, SessionOK
  <2> QED  BY <1>1, <2>1 DEF SendChunk, Begun, ConnState
<1> QED  BY <1>3, <1>4, <1>5, <1>6 DEF AudioInPlace

LEMMA SentinelInPlace ==
  ASSUME IInv, sender.pc = "tail", InResponse, astray = {}
  PROVE  conn.response = sender.for
<1>1. ~scope.discarding
  BY BalancedNow
<1>2. conn.response = used.acked + 1
  BY <1>1, OnlyRequest
<1>3. sender.for = Closed
  BY DEF IInv, FIFO
<1> QED  BY <1>2, <1>3 DEF Closed, Bit

\* As long as the session has not gone astray, a chunk reaches the client under the
\* response it was produced for, and a sentinel closes the response it ends.
THEOREM Delivery == Spec => DeliveredInPlace
<1>1. IInv /\ [Next]_vars => [ChunkSent => (AudioInPlace \/ astray' # {})]_vars
  BY ChunkInPlace
<1>2. IInv /\ [Next]_vars
        => [(sender.pc = "tail" /\ sender'.pc # "tail" /\ InResponse)
            => (conn.response = sender.for \/ astray # {})]_vars
  BY SentinelInPlace
<1>3. Spec => AudioUnderOwnResponse
  BY <1>1, Invariance, PTL DEF Spec, AudioUnderOwnResponse
<1>4. Spec => DoneClosesOwn
  BY <1>2, Invariance, PTL DEF Spec, DoneClosesOwn
<1> QED  BY <1>3, <1>4 DEF DeliveredInPlace

=============================================================================
