--------------------------- MODULE Dialogue_proof ---------------------------
(***************************************************************************)
(* Proofs about ChatHistory and Dialogue, for every size of the history,   *)
(* every set of calls, any number of resets and of generations.            *)
(*                                                                         *)
(* Eviction and the splice are recursive functions.  What they compute is  *)
(* proved by induction on the natural numbers, which the first lemmas      *)
(* derive from the well-foundedness of <: for each, that the recursion     *)
(* defines a function, then that an eviction takes a prefix up to a user   *)
(* message, and that the splice keeps the other items in their order.      *)
(*                                                                         *)
(* HInv is the inductive invariant of the history.  An output stands next  *)
(* to its call, which neither an eviction nor a splice can part; the       *)
(* snapshot of a worker that may still apply it has no part of the latest  *)
(* turn, nothing that waits and no call without its outputs, and is large  *)
(* enough to bring the history under its cap; at most one worker is        *)
(* current.  DInv adds what the LLM thread reads.                          *)
(***************************************************************************)
EXTENDS Dialogue, FiniteSetTheorems, WellFoundedInduction, TLAPS

-----------------------------------------------------------------------------
(* Induction on the natural numbers, from the well-foundedness of <. *)

\* A set of numbers has a least one.
LEMMA Least ==
  ASSUME NEW T \in SUBSET Nat, T # {}
  PROVE  \E m \in T : \A n \in T : m <= n
<1>1. PICK m \in T : \A n \in T : ~ (<<n, m>> \in OpToRel(<, Nat))
  BY NatLessThanWellFounded, WFMin
<1>2. \A n \in T : ~ (n < m)
  BY <1>1 DEF OpToRel
<1>3. m \in Nat /\ \A n \in T : n \in Nat
  OBVIOUS
<1>4. \A a, b \in Nat : ~ (a < b) => b <= a
  OBVIOUS
<1> QED  BY <1>1, <1>2, <1>3, <1>4

\* What holds of 0 and passes from n to n + 1 holds of all.
LEMMA Induction ==
  ASSUME NEW S, 0 \in S, \A n \in Nat : n \in S => n + 1 \in S
  PROVE  Nat \subseteq S
<1> SUFFICES ASSUME Nat \ S # {} PROVE FALSE
  OBVIOUS
<1>1. PICK m \in Nat \ S : \A n \in Nat \ S : m <= n
  BY Least
<1>2. m # 0 /\ m - 1 \in Nat /\ ~ (m <= m - 1) /\ (m - 1) + 1 = m
  BY <1>1
<1>3. m - 1 \in S
  BY <1>1, <1>2
<1>4. (m - 1) + 1 \in S
  BY <1>2, <1>3
<1> QED  BY <1>1, <1>2, <1>4

\* A non-empty set of indices has a greatest element.
LEMMA Greatest ==
  ASSUME NEW L \in Nat, NEW T \in SUBSET (1..L), T # {}
  PROVE  Max(T) \in T /\ \A n \in T : n <= Max(T)
<1> DEFINE R == {L - n : n \in T}
<1>1. R \in SUBSET Nat /\ R # {}
  OBVIOUS
<1>2. PICK r \in R : \A q \in R : r <= q
  BY <1>1, Least
<1>3. PICK m \in T : r = L - m
  BY <1>2
<1>4. \A n \in T : n <= m
  <2> TAKE n \in T
  <2>1. L - n \in R /\ m \in 1..L /\ n \in 1..L
    OBVIOUS
  <2>2. L - m <= L - n
    BY <1>2, <1>3, <2>1
  <2> QED  BY <2>1, <2>2
<1> HIDE DEF R
<1>5. \E x \in T : \A y \in T : x >= y
  <2>1. \A y \in T : m >= y
    BY <1>4
  <2> QED  BY <2>1
<1>6. Max(T) \in T /\ \A y \in T : Max(T) >= y
  BY <1>5, Zenon DEF Max
<1>7. \A n \in T : n \in Int
  OBVIOUS
<1> QED  BY <1>6, <1>7

-----------------------------------------------------------------------------
(* Counting user messages. *)

Users(b) == {n \in DOMAIN b : IsUser(b[n])}

\* User messages are finitely many.
LEMMA CountType ==
  ASSUME NEW S, NEW b \in Seq(S)
  PROVE  /\ IsFiniteSet(Users(b)) /\ UserCount(b) \in Nat
         /\ UserCount(b) = Cardinality(Users(b))
         /\ UserCount(b) = 0 <=> Users(b) = {}
<1>1. DOMAIN b = 1..Len(b) /\ Len(b) \in Nat
  OBVIOUS
<1>2. IsFiniteSet(1..Len(b))
  BY <1>1, FS_Interval
<1>3. Users(b) \in SUBSET (1..Len(b))
  BY <1>1 DEF Users
<1>4. IsFiniteSet(Users(b))
  BY <1>2, <1>3, FS_Subset
<1>5. UserCount(b) = Cardinality(Users(b))
  BY DEF UserCount, Users
<1> QED  BY <1>4, <1>5, FS_CardinalityType, FS_EmptySet

\* What an item at the end adds to the count.
LEMMA CountAppend ==
  ASSUME NEW S, NEW b \in Seq(S), NEW i \in S
  PROVE  UserCount(Append(b, i)) = UserCount(b) + (IF IsUser(i) THEN 1 ELSE 0)
<1> DEFINE L == Len(b) + 1
           c == Append(b, i)
<1>1. /\ c \in Seq(S) /\ DOMAIN b = 1..Len(b) /\ DOMAIN c = 1..L /\ Len(b) \in Nat
      /\ \A n \in 1..Len(b) : c[n] = b[n]
      /\ c[L] = i
  OBVIOUS
<1> HIDE DEF c
<1>2. IsFiniteSet(Users(b)) /\ UserCount(b) \in Nat /\ UserCount(b) = Cardinality(Users(b))
  BY CountType
<1>0. UserCount(c) = Cardinality(Users(c))
  BY <1>1, CountType
<1>5. L \notin Users(b)
  BY <1>1 DEF Users
<1>3. CASE IsUser(i)
  <2>1. Users(c) = Users(b) \cup {L}
    BY <1>1, <1>3 DEF Users
  <2>2. Cardinality(Users(c)) = Cardinality(Users(b)) + 1
    BY <2>1, <1>2, <1>5, FS_AddElement
  <2> QED  BY <1>0, <1>2, <1>3, <2>2 DEF c
<1>4. CASE ~IsUser(i)
  <2>1. Users(c) = Users(b)
    BY <1>1, <1>4 DEF Users
  <2> QED  BY <1>0, <1>2, <1>4, <2>1 DEF c
<1> QED  BY <1>3, <1>4

\* t is what is left of s without its first d items.
After(s, t, d) ==
  /\ d \in 0..Len(s)
  /\ Len(t) = Len(s) - d
  /\ \A n \in 1..Len(t) : t[n] = s[n + d]

\* The count of what is left when the first d items are gone.
LEMMA CountTail ==
  ASSUME NEW S, NEW s \in Seq(S), NEW t \in Seq(S), NEW d, After(s, t, d)
  PROVE  /\ Cardinality({n \in 1..d : IsUser(s[n])}) \in Nat
         /\ UserCount(s) = Cardinality({n \in 1..d : IsUser(s[n])}) + UserCount(t)
<1> DEFINE A == {n \in 1..d : IsUser(s[n])}
           B == {n \in (d + 1)..Len(s) : IsUser(s[n])}
           f == [n \in Users(t) |-> n + d]
<1>1. /\ DOMAIN s = 1..Len(s) /\ DOMAIN t = 1..Len(t) /\ Len(s) \in Nat /\ Len(t) \in Nat
      /\ d \in 0..Len(s) /\ d \in Nat /\ Len(t) = Len(s) - d
      /\ \A n \in 1..Len(t) : t[n] = s[n + d]
  BY DEF After
<1>2. Users(s) = A \cup B /\ A \cap B = {}
  BY <1>1 DEF Users
<1>3. IsFiniteSet(Users(s)) /\ IsFiniteSet(Users(t))
  BY CountType
<1>4. IsFiniteSet(A) /\ IsFiniteSet(B)
  BY <1>2, <1>3, FS_Subset
<1>5. f \in Bijection(Users(t), B)
  <2>1. \A n \in Users(t) : n \in 1..Len(t) /\ IsUser(t[n])
    BY <1>1 DEF Users
  <2>2. f \in [Users(t) -> B]
    BY <1>1, <2>1
  <2>3. \A m, n \in Users(t) : f[m] = f[n] => m = n
    BY <1>1, <2>1
  <2>4. ASSUME NEW m \in B PROVE \E n \in Users(t) : f[n] = m
    <3>1. m - d \in 1..Len(t) /\ (m - d) + d = m
      BY <1>1
    <3>2. m - d \in Users(t)
      BY <1>1, <3>1, <2>4 DEF Users
    <3> QED  BY <3>1, <3>2
  <2> HIDE DEF f
  <2> QED  BY <2>2, <2>3, <2>4 DEF Bijection, Injection, Surjection, IsInjective
<1>6. Cardinality(B) = Cardinality(Users(t))
  BY <1>3, <1>5, FS_Bijection DEF ExistsBijection
<1>7. Cardinality(Users(s)) = Cardinality(A) + Cardinality(B) - Cardinality({})
  <2> HIDE DEF A, B
  <2>1. Cardinality(A \cup B) = Cardinality(A) + Cardinality(B) - Cardinality(A \cap B)
    BY <1>4, FS_Union
  <2> QED  BY <1>2, <2>1
<1>8. Cardinality(A) \in Nat /\ Cardinality(B) \in Nat /\ Cardinality({}) = 0
  BY <1>4, FS_CardinalityType, FS_EmptySet
<1> HIDE DEF A, B
<1>9. UserCount(s) = Cardinality(A) + UserCount(t) /\ Cardinality(A) \in Nat
  BY <1>6, <1>7, <1>8, CountType
<1> QED  BY <1>9 DEF A

-----------------------------------------------------------------------------
(* Eviction leaves the end of a history, from a user message on. *)

\* What is left of s after turns have been evicted from it.
Evicted(s, t) ==
  \E d \in 0..Len(s) :
    /\ After(s, t, d)
    /\ d = 0 \/ d = Len(s) \/ IsUser(s[d + 1])

\* Nothing may be evicted.
LEMMA EvictedSelf == ASSUME NEW S, NEW s \in Seq(S) PROVE Evicted(s, s)
<1>1. Len(s) \in Nat
  OBVIOUS
<1>2. 0 \in 0..Len(s) /\ After(s, s, 0)
  BY <1>1 DEF After
<1> QED  BY <1>2 DEF Evicted

LEMMA EvictedTwice ==
  ASSUME NEW S, NEW s \in Seq(S), NEW t \in Seq(S), NEW u \in Seq(S),
         Evicted(s, t), Evicted(t, u)
  PROVE  Evicted(s, u)
<1>1. PICK d \in 0..Len(s) : After(s, t, d) /\ (d = 0 \/ d = Len(s) \/ IsUser(s[d + 1]))
  BY DEF Evicted
<1>2. PICK e \in 0..Len(t) : After(t, u, e) /\ (e = 0 \/ e = Len(t) \/ IsUser(t[e + 1]))
  BY DEF Evicted
<1>3. Len(s) \in Nat /\ Len(t) \in Nat /\ Len(u) \in Nat
  OBVIOUS
<1>4. Len(t) = Len(s) - d /\ Len(u) = Len(t) - e /\ d + e \in 0..Len(s) /\ Len(u) = Len(s) - (d + e)
  BY <1>1, <1>2, <1>3 DEF After
<1>5. ASSUME NEW n \in 1..Len(u) PROVE u[n] = s[n + (d + e)]
  <2>1. n + e \in 1..Len(t) /\ (n + e) + d = n + (d + e)
    BY <1>3, <1>4
  <2> QED  BY <1>1, <1>2, <2>1 DEF After
<1>6. d + e = 0 \/ d + e = Len(s) \/ IsUser(s[(d + e) + 1])
  <2>1. CASE e = 0
    BY <1>1, <1>4, <2>1
  <2>2. CASE e = Len(t)
    BY <1>4, <2>2
  <2>3. CASE e # 0 /\ e # Len(t)
    <3>1. e + 1 \in 1..Len(t) /\ (e + 1) + d = (d + e) + 1
      BY <1>3, <1>4, <2>3
    <3>2. t[e + 1] = s[(d + e) + 1]
      BY <1>1, <3>1 DEF After
    <3> QED  BY <1>2, <2>3, <3>2
  <2> QED  BY <2>1, <2>2, <2>3
<1> QED  BY <1>4, <1>5, <1>6 DEF Evicted, After

\* A history whose turns are counted right.
Counted(h) ==
  /\ h = [items |-> h.items, turns |-> h.turns]
  /\ h.items \in Seq(ItemType) /\ h.turns = UserCount(h.items)

\* One turn is evicted from a history that holds anything.
LEMMA EvictOldestTurn ==
  ASSUME NEW h, Counted(h)
  PROVE  /\ Counted(EvictOldest(h)) /\ Evicted(h.items, EvictOldest(h).items)
         /\ h.items # << >> => Len(EvictOldest(h).items) < Len(h.items)
         /\ EvictOldest(h).turns \in {h.turns, h.turns - 1}
<1> DEFINE s     == h.items
           users == {n \in DOMAIN s : n > 1 /\ IsUser(s[n])}
           next  == IF users = {} THEN Len(s) + 1 ELSE Min(users)
           t     == SubSeq(s, next, Len(s))
           r     == EvictOldest(h)
<1>1. s \in Seq(ItemType) /\ DOMAIN s = 1..Len(s) /\ Len(s) \in Nat /\ h.turns = UserCount(s)
  BY DEF Counted
<1>2. CASE s = << >>
  <2>1. r = h
    BY <1>2 DEF EvictOldest
  <2> QED  BY <1>1, <1>2, <2>1, EvictedSelf
<1>3. CASE s # << >>
  <2>1. r = [items |-> t, turns |-> h.turns - (IF IsUser(s[1]) THEN 1 ELSE 0)]
    BY <1>3 DEF EvictOldest
  <2>2. /\ next \in 2..(Len(s) + 1)
        /\ next # Len(s) + 1 => IsUser(s[next])
        /\ \A n \in 2..(next - 1) : ~IsUser(s[n])
    <3>1. Len(s) >= 1
      BY <1>1, <1>3
    <3>2. CASE users = {}
      <4>1. \A n \in 2..Len(s) : n \in DOMAIN s /\ n > 1
        BY <1>1
      <4>2. \A n \in 2..Len(s) : ~IsUser(s[n])
        BY <3>2, <4>1
      <4>3. next = Len(s) + 1
        BY <3>2
      <4> HIDE DEF next, users
      <4> QED  BY <1>1, <3>1, <4>2, <4>3
    <3>3. CASE users # {}
      <4>1. users \in SUBSET Nat
        BY <1>1
      <4>2. \E m \in users : \A n \in users : m <= n
        BY <3>3, <4>1, Least
      <4>3. next \in users /\ \A n \in users : next <= n
        <5> HIDE DEF users
        <5> QED  BY <3>3, <4>2, Zenon DEF Min
      <4>4. next \in 2..Len(s) /\ IsUser(s[next])
        BY <1>1, <4>3
      <4>5. ASSUME NEW n \in 2..(next - 1) PROVE ~IsUser(s[n])
        <5>1. n \in DOMAIN s /\ n > 1 /\ ~ (next <= n)
          BY <1>1, <4>4
        <5> QED  BY <4>3, <5>1
      <4> HIDE DEF next
      <4> QED  BY <1>1, <4>4, <4>5
    <3> QED  BY <3>2, <3>3
  <2> HIDE DEF next
  <2> DEFINE d == next - 1
  <2>3. d \in 1..Len(s) /\ t \in Seq(ItemType) /\ Len(t) = Len(s) - d
        /\ \A n \in 1..Len(t) : t[n] = s[n + d]
    BY <1>1, <2>2
  <2>4. After(s, t, d)
    BY <2>3 DEF After
  <2>5. d = Len(s) \/ IsUser(s[d + 1])
    BY <1>1, <2>2
  <2>6. Evicted(s, t)
    BY <2>3, <2>4, <2>5 DEF Evicted
  <2> HIDE DEF t
  <2>7. UserCount(s) = (IF IsUser(s[1]) THEN 1 ELSE 0) + UserCount(t) /\ UserCount(t) \in Nat
    <3> DEFINE A == {n \in 1..d : IsUser(s[n])}
    <3>1. UserCount(s) = Cardinality(A) + UserCount(t) /\ UserCount(t) \in Nat
      BY <1>1, <2>3, <2>4, CountTail, CountType
    <3>2. \A n \in 1..d : n = 1 \/ n \in 2..(next - 1)
      OBVIOUS
    <3>3. A = IF IsUser(s[1]) THEN {1} ELSE {}
      <4>1. 1 \in 1..d
        BY <2>3
      <4> QED  BY <2>2, <3>2, <4>1
    <3>4. Cardinality({1}) = 1 /\ Cardinality({}) = 0
      BY FS_Singleton, FS_EmptySet
    <3> HIDE DEF A, d
    <3> QED  BY <3>1, <3>3, <3>4
  <2>8. r.items = t /\ r.turns = UserCount(t) /\ r = [items |-> r.items, turns |-> r.turns]
    <3> HIDE DEF r, s
    <3> QED  BY <1>1, <2>1, <2>7
  <2>9. Counted(r)
    BY <2>3, <2>8 DEF Counted
  <2>10. r.turns \in {h.turns, h.turns - 1}
    <3> HIDE DEF r, s
    <3> QED  BY <1>1, <2>1, <2>7, <2>8
  <2>11. Len(r.items) < Len(s)
    BY <1>1, <2>3, <2>8
  <2> QED  BY <2>6, <2>8, <2>9, <2>10, <2>11
<1> QED  BY <1>2, <1>3

-----------------------------------------------------------------------------
(* EvictTo, by induction on the number of evictions. *)

\* The function that EvictTo defines by recursion.
Evictions(h) ==
  LET after[n \in 0..Len(h.items)] ==
        IF n = 0 THEN h ELSE EvictOldest(after[n - 1])
  IN after

\* It exists, and satisfies its definition.
LEMMA EvictionsRecursive ==
  ASSUME NEW h, Len(h.items) \in Nat
  PROVE  Evictions(h) = [n \in 0..Len(h.items) |->
                           IF n = 0 THEN h ELSE EvictOldest(Evictions(h)[n - 1])]
<1> DEFINE Rec(k, f) == f = [n \in 0..k |-> IF n = 0 THEN h ELSE EvictOldest(f[n - 1])]
           S == {k \in Nat : \E f : Rec(k, f)}
<1>1. 0 \in S
  <2> DEFINE f == [n \in 0..0 |-> h]
  <2>1. Rec(0, f)
    OBVIOUS
  <2> QED  BY <2>1
<1>2. ASSUME NEW k \in Nat, k \in S PROVE k + 1 \in S
  <2>1. PICK f : Rec(k, f)
    BY <1>2
  <2> DEFINE g == [n \in 0..(k + 1) |-> IF n <= k THEN f[n] ELSE EvictOldest(f[k])]
  <2>2. ASSUME NEW n \in 0..(k + 1) PROVE g[n] = IF n = 0 THEN h ELSE EvictOldest(g[n - 1])
    <3>1. CASE n = 0
      BY <3>1, <2>1
    <3>2. CASE n # 0 /\ n <= k
      <4>1. n \in 0..k /\ n - 1 \in 0..(k + 1) /\ n - 1 <= k
        BY <3>2
      <4> QED  BY <4>1, <3>2, <2>1
    <3>3. CASE n = k + 1
      <4>1. n - 1 = k /\ n # 0 /\ ~(n <= k) /\ k \in 0..(k + 1)
        BY <3>3
      <4> QED  BY <4>1, <3>3
    <3> QED  BY <3>1, <3>2, <3>3
  <2>3. Rec(k + 1, g)
    <3> DEFINE r == [n \in 0..(k + 1) |-> IF n = 0 THEN h ELSE EvictOldest(g[n - 1])]
    <3>1. \A n \in 0..(k + 1) : g[n] = r[n]
      <4> HIDE DEF g
      <4> QED  BY <2>2
    <3> QED  BY <3>1
  <2> HIDE DEF g, Rec
  <2> QED  BY <2>3
<1> HIDE DEF S
<1>3. Len(h.items) \in S
  BY <1>1, <1>2, Induction
<1>4. \E f : Rec(Len(h.items), f)
  BY <1>3 DEF S
<1>5. Evictions(h) = CHOOSE f : Rec(Len(h.items), f)
  BY DEF Evictions
<1>6. Rec(Len(h.items), Evictions(h))
  <2> HIDE DEF Rec
  <2> QED  BY <1>4, <1>5
<1> QED  BY <1>6

\* After n evictions the history is counted right, and shorter by n at least
\* unless it is empty; each has lowered the count by one at most.
LEMMA EvictionsKeep ==
  ASSUME NEW h, Counted(h)
  PROVE  \A n \in 0..Len(h.items) :
           LET f == Evictions(h)
           IN /\ Counted(f[n]) /\ Evicted(h.items, f[n].items)
              /\ Len(f[n].items) <= Len(h.items) - n
              /\ n = 0 => f[n] = h
              /\ n > 0 => f[n].turns \in {f[n - 1].turns, f[n - 1].turns - 1}
<1> DEFINE f    == Evictions(h)
           L    == Len(h.items)
           P(n) == /\ Counted(f[n]) /\ Evicted(h.items, f[n].items)
                   /\ Len(f[n].items) <= L - n
                   /\ n = 0 => f[n] = h
                   /\ n > 0 => f[n].turns \in {f[n - 1].turns, f[n - 1].turns - 1}
           S    == {n \in Nat : n \in 0..L => P(n)}
<1>1. L \in Nat /\ h.items \in Seq(ItemType)
  BY DEF Counted
<1>2. f = [n \in 0..L |-> IF n = 0 THEN h ELSE EvictOldest(f[n - 1])]
  BY <1>1, EvictionsRecursive
<1> HIDE DEF f, L
<1>3. 0 \in S
  <2>1. f[0] = h
    BY <1>1, <1>2
  <2> QED  BY <1>1, <2>1, EvictedSelf DEF L
<1>4. ASSUME NEW n \in Nat, n \in S PROVE n + 1 \in S
  <2> SUFFICES ASSUME n + 1 \in 0..L PROVE P(n + 1)
    OBVIOUS
  <2>1. n \in 0..L /\ (n + 1) - 1 = n /\ n + 1 # 0 /\ n + 1 > 0
    BY <1>1
  <2>2. P(n)
    BY <1>4, <2>1
  <2>3. f[n + 1] = EvictOldest(f[n])
    BY <1>2, <2>1
  <2>4. /\ Counted(f[n + 1]) /\ Evicted(f[n].items, f[n + 1].items)
        /\ f[n].items # << >> => Len(f[n + 1].items) < Len(f[n].items)
        /\ f[n + 1].turns \in {f[n].turns, f[n].turns - 1}
    BY <2>2, <2>3, EvictOldestTurn
  <2>5. f[n].items \in Seq(ItemType) /\ f[n + 1].items \in Seq(ItemType)
    BY <2>2, <2>4 DEF Counted
  <2>6. Evicted(h.items, f[n + 1].items)
    BY <1>1, <2>2, <2>4, <2>5, EvictedTwice
  <2>7. Len(f[n + 1].items) <= L - (n + 1)
    <3>1. Len(f[n].items) \in Nat /\ Len(f[n + 1].items) \in Nat /\ Len(f[n].items) <= L - n
      BY <2>2, <2>5
    <3>2. CASE f[n].items # << >>
      BY <1>1, <2>4, <3>1, <3>2
    <3>3. CASE f[n].items = << >>
      <4>1. Len(f[n].items) = 0
        BY <3>3
      <4>2. Len(f[n + 1].items) = 0
        <5>1. EvictOldest(f[n]) = f[n]
          BY <3>3 DEF EvictOldest
        <5> QED  BY <2>3, <4>1, <5>1
      <4> QED  BY <1>1, <2>1, <4>2
    <3> QED  BY <3>2, <3>3
  <2> QED  BY <2>1, <2>4, <2>6, <2>7
<1> HIDE DEF S
<1>5. Nat \subseteq S
  BY <1>3, <1>4, Induction
<1>6. ASSUME NEW n \in 0..L PROVE P(n)
  <2>1. n \in S /\ n \in 0..L
    BY <1>1, <1>5
  <2> QED  BY <2>1 DEF S
<1> QED  BY <1>6 DEF f, L

\* EvictTo ends: what it leaves is counted right, within the limit, and at the
\* limit if there was that much.
LEMMA EvictToLimit ==
  ASSUME NEW h, Counted(h), NEW limit \in Nat
  PROVE  /\ Counted(EvictTo(h, limit)) /\ Evicted(h.items, EvictTo(h, limit).items)
         /\ EvictTo(h, limit).turns <= limit
         /\ h.turns >= limit => EvictTo(h, limit).turns = limit
<1> DEFINE f    == Evictions(h)
           L    == Len(h.items)
           T    == {n \in DOMAIN f : f[n].turns <= limit}
           m    == Min(T)
<1>1. L \in Nat
  BY DEF Counted
<1>2. DOMAIN f = 0..L
  BY <1>1, EvictionsRecursive
<1>3. EvictTo(h, limit) = f[m]
  BY DEF EvictTo, Evictions
<1>4. \A n \in 0..L :
         /\ Counted(f[n]) /\ Evicted(h.items, f[n].items)
         /\ Len(f[n].items) <= L - n
         /\ n = 0 => f[n] = h
         /\ n > 0 => f[n].turns \in {f[n - 1].turns, f[n - 1].turns - 1}
  BY EvictionsKeep
<1> HIDE DEF f
<1>5. \A n \in 0..L : f[n].turns \in Nat
  BY <1>4, CountType DEF Counted
<1>6. L \in T
  <2>1. L \in 0..L /\ L - L = 0
    BY <1>1
  <2>2. f[L].items \in Seq(ItemType) /\ Len(f[L].items) <= 0 /\ f[L].turns = UserCount(f[L].items)
    BY <1>4, <2>1 DEF Counted
  <2>3. f[L].items = << >>
    BY <2>2
  <2>4. Users(<< >>) = {}
    BY DEF Users
  <2>5. UserCount(f[L].items) = 0
    BY <2>2, <2>3, <2>4, CountType
  <2>6. f[L].turns = 0
    BY <2>2, <2>5
  <2> QED  BY <1>2, <2>1, <2>6
<1>7. T \in SUBSET Nat /\ T \subseteq 0..L
  BY <1>1, <1>2
<1>8. m \in T /\ \A n \in T : m <= n
  <2>1. \E x \in T : \A y \in T : x <= y
    BY <1>6, <1>7, Least
  <2> HIDE DEF T
  <2> QED  BY <2>1, Zenon DEF Min
<1>9. m \in 0..L /\ f[m].turns <= limit
  BY <1>7, <1>8
<1> HIDE DEF m
<1>10. ASSUME h.turns >= limit PROVE f[m].turns = limit
  <2>1. CASE m = 0
    BY <1>4, <1>5, <1>9, <1>10, <2>1
  <2>2. CASE m # 0
    <3>1. m - 1 \in 0..L /\ m > 0 /\ ~(m <= m - 1)
      BY <1>1, <1>9, <2>2
    <3>2. m - 1 \notin T
      BY <1>8, <3>1
    <3>3. ~(f[m - 1].turns <= limit)
      BY <1>2, <3>1, <3>2
    <3>4. f[m].turns \in {f[m - 1].turns, f[m - 1].turns - 1}
      BY <1>4, <1>9, <3>1
    <3>5. f[m].turns \in Nat /\ f[m - 1].turns \in Nat
      BY <1>5, <1>9, <3>1
    <3> QED  BY <1>9, <3>3, <3>4, <3>5
  <2> QED  BY <2>1, <2>2
<1> QED  BY <1>3, <1>4, <1>9, <1>10

\* The safety net of add_item.
LEMMA HardCapLimit ==
  ASSUME NEW h, Counted(h)
  PROVE  /\ Counted(HardCap(h)) /\ Evicted(h.items, HardCap(h).items)
         /\ HardCap(h).turns <= 2 * Size
         /\ HardCap(h) = h \/ HardCap(h).turns = 2 * Size
<1>1. 2 * Size \in Nat /\ h.items \in Seq(ItemType) /\ h.turns \in Nat
  BY SizeAssumption, CountType DEF Counted
<1>2. CASE h.turns > 2 * Size
  <2>1. HardCap(h) = EvictTo(h, 2 * Size) /\ h.turns >= 2 * Size
    BY <1>1, <1>2 DEF HardCap
  <2> QED  BY <1>1, <2>1, EvictToLimit
<1>3. CASE ~(h.turns > 2 * Size)
  <2>1. HardCap(h) = h /\ h.turns <= 2 * Size
    BY <1>1, <1>3 DEF HardCap
  <2> QED  BY <1>1, <2>1, EvictedSelf
<1> QED  BY <1>2, <1>3

-----------------------------------------------------------------------------
(* Without, by induction on the length of what has been looked at. *)

\* The function that Without defines by recursion, and its step.
Keep(items, gone, n, r) ==
  IF n = 0 THEN << >>
  ELSE IF items[n] \in gone THEN r ELSE Append(r, items[n])

Keeps(items, gone) ==
  LET kept[n \in 0..Len(items)] ==
        IF n = 0 THEN << >>
        ELSE IF items[n] \in gone THEN kept[n - 1] ELSE Append(kept[n - 1], items[n])
  IN kept

\* The recursion of Without defines a function.
LEMMA KeepsRecursive ==
  ASSUME NEW items, NEW gone, Len(items) \in Nat
  PROVE  Keeps(items, gone) =
           [n \in 0..Len(items) |-> Keep(items, gone, n, Keeps(items, gone)[n - 1])]
<1> DEFINE Rec(k, f) == f = [n \in 0..k |-> Keep(items, gone, n, f[n - 1])]
           S == {k \in Nat : \E f : Rec(k, f)}
<1>1. 0 \in S
  <2> DEFINE f == [n \in 0..0 |-> << >>]
  <2>1. Rec(0, f)
    BY DEF Keep
  <2> QED  BY <2>1
<1>2. ASSUME NEW k \in Nat, k \in S PROVE k + 1 \in S
  <2>1. PICK f : Rec(k, f)
    BY <1>2
  <2> DEFINE g == [n \in 0..(k + 1) |->
                     IF n <= k THEN f[n] ELSE Keep(items, gone, k + 1, f[k])]
  <2>2. ASSUME NEW n \in 0..(k + 1) PROVE g[n] = Keep(items, gone, n, g[n - 1])
    <3>1. CASE n = 0
      BY <3>1, <2>1 DEF Keep
    <3>2. CASE n # 0 /\ n <= k
      <4>1. n \in 0..k /\ n - 1 \in 0..(k + 1) /\ n - 1 <= k
        BY <3>2
      <4> QED  BY <4>1, <3>2, <2>1
    <3>3. CASE n = k + 1
      <4>1. n - 1 = k /\ n # 0 /\ ~(n <= k) /\ k \in 0..(k + 1) /\ k <= k
        BY <3>3
      <4> QED  BY <4>1, <3>3
    <3> QED  BY <3>1, <3>2, <3>3
  <2>3. Rec(k + 1, g)
    <3> DEFINE r == [n \in 0..(k + 1) |-> Keep(items, gone, n, g[n - 1])]
    <3>1. \A n \in 0..(k + 1) : g[n] = r[n]
      <4> HIDE DEF g
      <4> QED  BY <2>2
    <3> QED  BY <3>1
  <2> HIDE DEF g, Rec
  <2> QED  BY <2>3
<1> HIDE DEF S
<1>3. Len(items) \in S
  BY <1>1, <1>2, Induction
<1>4. \E f : Rec(Len(items), f)
  BY <1>3 DEF S
<1>5. Keeps(items, gone) = CHOOSE f : Rec(Len(items), f)
  BY DEF Keeps, Keep
<1>6. Rec(Len(items), Keeps(items, gone))
  <2> HIDE DEF Rec
  <2> QED  BY <1>4, <1>5
<1> QED  BY <1>6

\* r holds, in their order, those of the first m items of s that are not gone.
Picks(s, m, gone, r, at) ==
  /\ at \in [1..Len(r) -> 1..m]
  /\ \A j, k \in 1..Len(r) : j < k => at[j] < at[k]
  /\ \A k \in 1..Len(r) : r[k] = s[at[k]] /\ r[k] \notin gone
  /\ \A n \in 1..m : s[n] \notin gone => \E k \in 1..Len(r) : at[k] = n

\* Without keeps what is not to go, all of it and in its order.
LEMMA WithoutPicks ==
  ASSUME NEW S, NEW s \in Seq(S), NEW gone
  PROVE  /\ Without(s, gone) \in Seq(S)
         /\ \E at : Picks(s, Len(s), gone, Without(s, gone), at)
<1> DEFINE f    == Keeps(s, gone)
           L    == Len(s)
           P(n) == f[n] \in Seq(S) /\ \E at : Picks(s, n, gone, f[n], at)
           N    == {n \in Nat : n \in 0..L => P(n)}
<1>1. L \in Nat /\ \A n \in 1..L : s[n] \in S
  OBVIOUS
<1>2. f = [n \in 0..L |-> Keep(s, gone, n, f[n - 1])]
  BY <1>1, KeepsRecursive
<1>3. Without(s, gone) = f[L]
  BY DEF Without, Keeps
<1> HIDE DEF f, L
<1>4. 0 \in N
  <2>1. f[0] = << >>
    BY <1>1, <1>2 DEF Keep
  <2>2. Picks(s, 0, gone, << >>, << >>)
    BY DEF Picks
  <2>3. << >> \in Seq(S)
    OBVIOUS
  <2> QED  BY <2>1, <2>2, <2>3
<1>5. ASSUME NEW n \in Nat, n \in N PROVE n + 1 \in N
  <2> SUFFICES ASSUME n + 1 \in 0..L PROVE P(n + 1)
    OBVIOUS
  <2>1. n \in 0..L /\ (n + 1) - 1 = n /\ n + 1 # 0 /\ n + 1 \in 1..L
    BY <1>1
  <2>2. PICK at : Picks(s, n, gone, f[n], at)
    BY <1>5, <2>1
  <2>3. f[n + 1] = IF s[n + 1] \in gone THEN f[n] ELSE Append(f[n], s[n + 1])
    BY <1>2, <2>1 DEF Keep
  <2>4. f[n] \in Seq(S) /\ s[n + 1] \in S
    BY <1>1, <1>5, <2>1
  <2> DEFINE r == f[n]
             K == Len(r)
  <2>5. /\ K \in Nat
        /\ at \in [1..K -> 1..n]
        /\ \A j, k \in 1..K : j < k => at[j] < at[k]
        /\ \A k \in 1..K : r[k] = s[at[k]] /\ r[k] \notin gone
        /\ \A i \in 1..n : s[i] \notin gone => \E k \in 1..K : at[k] = i
    BY <2>2, <2>4 DEF Picks
  <2> HIDE DEF N
  <2>6. CASE s[n + 1] \in gone
    <3>1. at \in [1..K -> 1..(n + 1)]
      BY <2>5
    <3>2. \A i \in 1..(n + 1) : s[i] \notin gone => \E k \in 1..K : at[k] = i
      <4> TAKE i \in 1..(n + 1)
      <4>1. i = n + 1 \/ i \in 1..n
        OBVIOUS
      <4> QED  BY <2>5, <2>6, <4>1
    <3>3. Picks(s, n + 1, gone, r, at)
      BY <2>5, <3>1, <3>2 DEF Picks
    <3> QED  BY <2>3, <2>4, <2>6, <3>3
  <2>7. CASE s[n + 1] \notin gone
    <3> DEFINE q  == Append(r, s[n + 1])
               to == [k \in 1..(K + 1) |-> IF k <= K THEN at[k] ELSE n + 1]
    <3>1. q \in Seq(S) /\ Len(q) = K + 1 /\ q[K + 1] = s[n + 1] /\ \A k \in 1..K : q[k] = r[k]
      BY <2>4
    <3> HIDE DEF q, r, K
    <3>2. /\ to \in [1..(K + 1) -> 1..(n + 1)] /\ to[K + 1] = n + 1
          /\ \A k \in 1..K : to[k] = at[k] /\ at[k] \in 1..n
      BY <2>5
    <3> HIDE DEF to
    <3>3. \A j, k \in 1..(K + 1) : j < k => to[j] < to[k]
      <4> TAKE j, k \in 1..(K + 1)
      <4>1. CASE k \in 1..K /\ j < k
        <5>1. j \in 1..K
          BY <2>5, <4>1
        <5> QED  BY <2>5, <3>2, <4>1, <5>1
      <4>2. CASE k = K + 1 /\ j < k
        <5>1. j \in 1..K
          BY <2>5, <4>2
        <5> QED  BY <3>2, <4>2, <5>1
      <4>3. k \in 1..K \/ k = K + 1
        BY <2>5
      <4> QED  BY <4>1, <4>2, <4>3
    <3>4. \A k \in 1..(K + 1) : q[k] = s[to[k]] /\ q[k] \notin gone
      <4> TAKE k \in 1..(K + 1)
      <4>1. k \in 1..K \/ k = K + 1
        BY <2>5
      <4> QED  BY <2>5, <2>7, <3>1, <3>2, <4>1
    <3>5. \A i \in 1..(n + 1) : s[i] \notin gone => \E k \in 1..(K + 1) : to[k] = i
      <4> SUFFICES ASSUME NEW i \in 1..(n + 1), s[i] \notin gone
                   PROVE  \E k \in 1..(K + 1) : to[k] = i
        OBVIOUS
      <4>1. CASE i = n + 1
        <5>1. K + 1 \in 1..(K + 1)
          BY <2>5
        <5> QED  BY <3>2, <4>1, <5>1
      <4>2. CASE i \in 1..n
        <5>1. PICK k \in 1..K : at[k] = i
          BY <2>5, <4>2
        <5>2. k \in 1..(K + 1)
          BY <2>5, <5>1
        <5> QED  BY <3>2, <5>1, <5>2
      <4> QED  BY <4>1, <4>2
    <3>6. Picks(s, n + 1, gone, q, to)
      BY <3>1, <3>2, <3>3, <3>4, <3>5 DEF Picks
    <3>7. f[n + 1] = q
      BY <2>3, <2>7 DEF q, r
    <3> QED  BY <3>1, <3>6, <3>7
  <2> QED  BY <2>6, <2>7
<1> HIDE DEF N
<1>6. L \in N
  BY <1>1, <1>4, <1>5, Induction
<1>7. L \in 0..L
  BY <1>1
<1>8. P(L)
  BY <1>6, <1>7 DEF N
<1> QED  BY <1>3, <1>8 DEF L

-----------------------------------------------------------------------------
(* The parts of the invariant, for a buffer b, the waiting calls p, the next *)
(* identifier next, the epoch e, and whether a call was answered twice.      *)

Ids(next) == 1..(next - 1)

\* An identifier names one item, in the buffer or waiting.
Numbered(b, p, next) ==
  /\ \A n \in 1..Len(b) : b[n].id \in Ids(next)
  /\ \A m, n \in 1..Len(b) : b[m].id = b[n].id => m = n
  /\ \A k \in p : k.id \in Ids(next) /\ \A n \in 1..Len(b) : b[n].id # k.id
  /\ \A j, k \in p : j.id = k.id => j = k

\* What waits is calls, each once.
Waiting(p) ==
  /\ \A k \in p : k.kind = "call"
  /\ \A j, k \in p : j.call = k.call => j = k

FromEpoch(b, p, e) ==
  (\A n \in 1..Len(b) : b[n].epoch = e) /\ (\A k \in p : k.epoch = e)

\* An output stands next to its call.
Adjacent(b) ==
  \A n \in 1..Len(b) : b[n].kind = "output" =>
    n - 1 \in 1..Len(b) /\ b[n - 1].kind = "call" /\ b[n - 1].call = b[n].call

History(b, p, next, e, rep) ==
  /\ b \in Seq(ItemType) /\ p \in SUBSET ItemType /\ next \in Nat \ {0}
  /\ Numbered(b, p, next) /\ Waiting(p) /\ FromEpoch(b, p, e)
  /\ ~rep => Adjacent(b)

\* Where the latest user message is, and what follows it.
Latest(b) ==
  {n \in 1..Len(b) : /\ \E m \in 1..Len(b) : IsUser(b[m])
                     /\ \A m \in 1..Len(b) : IsUser(b[m]) => m <= n}

\* A snapshot that may be spliced in holds no part of the latest turn, nothing
\* that waits, and an output with its call or neither.
Fits(w, b, p, next, rep) ==
  /\ w.markers \subseteq Ids(next)
  /\ \A k \in p : k.id \notin w.markers
  /\ \A n \in Latest(b) : b[n].id \notin w.markers
  /\ ~rep => \A n \in 1..Len(b) : b[n].kind = "output" =>
               (b[n].id \in w.markers <=> b[n - 1].id \in w.markers)

\* When the buffer holds more than the cap, a splice will take a turn away.
Relieves(w, b) ==
  UserCount(b) > 2 * Size =>
    \E n \in 1..Len(b) : IsUser(b[n]) /\ b[n].id \in w.markers

\* What may be added at the end of b, out of p or anew.
MayJoin(b, p, next, e, rep, i, p2, next2) ==
  /\ i \in ItemType /\ i.epoch = e /\ p2 \subseteq p /\ next2 \in Nat /\ next <= next2
  /\ i.id \in Ids(next2)
  /\ \A n \in 1..Len(b) : b[n].id # i.id
  /\ \A k \in p2 : k.id # i.id
  /\ ~rep /\ i.kind = "output" =>
       Len(b) \in 1..Len(b) /\ b[Len(b)].kind = "call" /\ b[Len(b)].call = i.call

\* An eviction leaves a history a history, and a snapshot fitting.
LEMMA EvictedHistory ==
  ASSUME NEW s, NEW t \in Seq(ItemType), NEW p, NEW next, NEW e, NEW rep,
         History(s, p, next, e, rep), Evicted(s, t)
  PROVE  /\ History(t, p, next, e, rep)
         /\ \A w : Fits(w, s, p, next, rep) => Fits(w, t, p, next, rep)
<1>1. PICK d \in 0..Len(s) : After(s, t, d) /\ (d = 0 \/ d = Len(s) \/ IsUser(s[d + 1]))
  BY DEF Evicted
<1>2. /\ s \in Seq(ItemType) /\ Len(s) \in Nat /\ Len(t) \in Nat /\ Len(t) = Len(s) - d
      /\ d \in Nat
  BY <1>1 DEF History, After
<1>3. \A n \in 1..Len(t) : n + d \in 1..Len(s) /\ t[n] = s[n + d]
  BY <1>1, <1>2 DEF After
<1>4. Numbered(t, p, next)
  <2>1. \A m, n \in 1..Len(t) : t[m].id = t[n].id => m = n
    <3> TAKE m, n \in 1..Len(t)
    <3>1. t[m].id = t[n].id => m + d = n + d
      BY <1>3 DEF History, Numbered
    <3> QED  BY <1>2, <3>1
  <2> QED  BY <1>3, <2>1 DEF History, Numbered
<1>5. FromEpoch(t, p, e)
  BY <1>3 DEF History, FromEpoch
<1>6. ASSUME ~rep, NEW n \in 1..Len(t), t[n].kind = "output"
      PROVE  /\ n - 1 \in 1..Len(t) /\ t[n - 1] = s[(n + d) - 1]
             /\ s[(n + d) - 1].kind = "call" /\ s[(n + d) - 1].call = t[n].call
  <2>1. /\ n + d \in 1..Len(s) /\ t[n] = s[n + d]
        /\ (n + d) - 1 \in 1..Len(s)
        /\ s[(n + d) - 1].kind = "call" /\ s[(n + d) - 1].call = t[n].call
    BY <1>3, <1>6 DEF History, Adjacent
  <2>2. n # 1
    <3> SUFFICES ASSUME n = 1 PROVE FALSE
      OBVIOUS
    <3>1. d # 0
      BY <1>2, <2>1
    <3>2. d # Len(s)
      BY <1>2, <2>1
    <3>3. IsUser(s[d + 1]) /\ s[d + 1] = t[n] /\ n + d = d + 1
      BY <1>1, <1>2, <2>1, <3>1, <3>2
    <3> QED  BY <1>6, <3>3 DEF IsUser
  <2>3. n - 1 \in 1..Len(t) /\ (n - 1) + d = (n + d) - 1
    BY <1>2, <2>2
  <2> QED  BY <1>3, <2>1, <2>3
<1>7. ~rep => Adjacent(t)
  BY <1>6 DEF Adjacent
<1>8. History(t, p, next, e, rep)
  BY <1>4, <1>5, <1>7 DEF History
<1>9. ASSUME NEW w, Fits(w, s, p, next, rep) PROVE Fits(w, t, p, next, rep)
  <2>1. ASSUME NEW n \in Latest(t) PROVE t[n].id \notin w.markers
    <3>1. n \in 1..Len(t) /\ n + d \in 1..Len(s) /\ t[n] = s[n + d]
      BY <1>3 DEF Latest
    <3>2. PICK m \in 1..Len(t) : IsUser(t[m])
      BY DEF Latest
    <3>3. m + d \in 1..Len(s) /\ IsUser(s[m + d])
      BY <1>3, <3>2
    <3>4. ASSUME NEW j \in 1..Len(s), IsUser(s[j]) PROVE j <= n + d
      <4>1. CASE j <= d
        BY <1>2, <3>1, <4>1
      <4>2. CASE ~(j <= d)
        <5>1. j - d \in 1..Len(t) /\ (j - d) + d = j
          BY <1>2, <4>2
        <5>2. IsUser(t[j - d])
          BY <1>3, <3>4, <5>1
        <5>3. j - d <= n
          BY <5>1, <5>2 DEF Latest
        <5> QED  BY <1>2, <3>1, <5>1, <5>3
      <4> QED  BY <4>1, <4>2
    <3>5. n + d \in Latest(s)
      BY <3>1, <3>3, <3>4 DEF Latest
    <3> QED  BY <1>9, <3>1, <3>5 DEF Fits
  <2>2. ASSUME ~rep, NEW n \in 1..Len(t), t[n].kind = "output"
        PROVE  t[n].id \in w.markers <=> t[n - 1].id \in w.markers
    <3>1. t[n - 1] = s[(n + d) - 1] /\ t[n] = s[n + d] /\ n + d \in 1..Len(s)
      BY <1>3, <1>6, <2>2
    <3> QED  BY <1>9, <2>2, <3>1 DEF Fits
  <2> QED  BY <1>9, <2>1, <2>2 DEF Fits
<1> QED  BY <1>8, <1>9

\* So does an item at the end.
LEMMA JoinedHistory ==
  ASSUME NEW b, NEW p, NEW next, NEW e, NEW rep, NEW i, NEW p2, NEW next2,
         History(b, p, next, e, rep), MayJoin(b, p, next, e, rep, i, p2, next2)
  PROVE  /\ History(Append(b, i), p2, next2, e, rep)
         /\ \A w : /\ Fits(w, b, p, next, rep) /\ i.id \notin w.markers
                   /\ ~rep /\ i.kind = "output" => b[Len(b)].id \notin w.markers
                   => Fits(w, Append(b, i), p2, next2, rep)
<1> DEFINE c == Append(b, i)
           L == Len(b)
<1>1. b \in Seq(ItemType) /\ i \in ItemType /\ next \in Nat /\ next2 \in Nat \ {0} /\ next <= next2
  BY DEF History, MayJoin
<1>2. /\ c \in Seq(ItemType) /\ L \in Nat /\ Len(c) = L + 1 /\ c[L + 1] = i
      /\ \A n \in 1..L : c[n] = b[n]
  BY <1>1
<1> HIDE DEF c, L
<1>3. \A n \in 1..(L + 1) : n = L + 1 \/ n \in 1..L
  BY <1>2
<1>4. \A n \in Ids(next) : n \in Ids(next2)
  BY <1>1 DEF Ids
<1>5. Numbered(c, p2, next2)
  <2>1. \A n \in 1..Len(c) : c[n].id \in Ids(next2)
    BY <1>2, <1>3, <1>4 DEF History, MayJoin, Numbered, L
  <2>2. \A m, n \in 1..Len(c) : c[m].id = c[n].id => m = n
    BY <1>2, <1>3 DEF History, MayJoin, Numbered, L
  <2>3. \A k \in p2 : k.id \in Ids(next2) /\ \A n \in 1..Len(c) : c[n].id # k.id
    BY <1>2, <1>3, <1>4 DEF History, MayJoin, Numbered, L
  <2>4. \A j, k \in p2 : j.id = k.id => j = k
    BY DEF History, MayJoin, Numbered
  <2> QED  BY <2>1, <2>2, <2>3, <2>4 DEF Numbered
<1>6. Waiting(p2) /\ p2 \in SUBSET ItemType
  BY DEF History, MayJoin, Waiting
<1>7. FromEpoch(c, p2, e)
  BY <1>2, <1>3 DEF History, MayJoin, FromEpoch, L
<1>8. ASSUME ~rep, NEW n \in 1..(L + 1), c[n].kind = "output"
      PROVE  /\ n - 1 \in 1..L /\ c[n - 1].kind = "call" /\ c[n - 1].call = c[n].call
  <2>1. CASE n = L + 1
    <3>1. L \in 1..L /\ b[L].kind = "call" /\ b[L].call = i.call
      BY <1>2, <1>8, <2>1 DEF MayJoin, L
    <3>2. n - 1 = L
      BY <1>2, <2>1
    <3> QED  BY <1>2, <2>1, <3>1, <3>2
  <2>2. CASE n \in 1..L
    <3>1. n - 1 \in 1..L /\ b[n - 1].kind = "call" /\ b[n - 1].call = b[n].call
      BY <1>2, <1>8, <2>2 DEF History, Adjacent, L
    <3> QED  BY <1>2, <2>2, <3>1
  <2> QED  BY <1>3, <2>1, <2>2
<1>9. ~rep => Adjacent(c)
  <2> SUFFICES ASSUME ~rep, NEW n \in 1..Len(c), c[n].kind = "output"
               PROVE  n - 1 \in 1..Len(c) /\ c[n - 1].kind = "call" /\ c[n - 1].call = c[n].call
    BY DEF Adjacent
  <2>1. n \in 1..(L + 1) /\ \A m \in 1..L : m \in 1..Len(c)
    BY <1>2
  <2> QED  BY <1>8, <2>1
<1>10. History(c, p2, next2, e, rep)
  BY <1>1, <1>2, <1>5, <1>6, <1>7, <1>9 DEF History
<1>11. ASSUME NEW w, Fits(w, b, p, next, rep), i.id \notin w.markers,
              ~rep /\ i.kind = "output" => b[Len(b)].id \notin w.markers
       PROVE  Fits(w, c, p2, next2, rep)
  <2>1. w.markers \subseteq Ids(next2) /\ \A k \in p2 : k.id \notin w.markers
    BY <1>4, <1>11 DEF Fits, MayJoin
  <2>2. ASSUME NEW n \in Latest(c) PROVE c[n].id \notin w.markers
    <3>1. n \in 1..(L + 1) /\ \A m \in 1..(L + 1) : IsUser(c[m]) => m <= n
      BY <1>2 DEF Latest
    <3>2. CASE n = L + 1
      BY <1>2, <1>11, <3>2
    <3>3. CASE n \in 1..L
      <4>1. PICK m \in 1..(L + 1) : IsUser(c[m])
        BY <1>2 DEF Latest
      <4>2. m <= n /\ m \in 1..L
        BY <1>2, <3>1, <3>3, <4>1
      <4>3. IsUser(b[m])
        BY <1>2, <4>1, <4>2
      <4>4. \A j \in 1..L : IsUser(b[j]) => j <= n
        BY <1>2, <3>1
      <4>5. n \in Latest(b)
        BY <3>3, <4>2, <4>3, <4>4 DEF Latest, L
      <4> QED  BY <1>2, <1>11, <3>3, <4>5 DEF Fits
    <3> QED  BY <1>3, <3>1, <3>2, <3>3
  <2>3. ASSUME ~rep, NEW n \in 1..Len(c), c[n].kind = "output"
        PROVE  c[n].id \in w.markers <=> c[n - 1].id \in w.markers
    <3>1. n \in 1..(L + 1) /\ n - 1 \in 1..L
      BY <1>2, <1>8, <2>3
    <3>2. CASE n = L + 1
      <4>1. n - 1 = L
        BY <1>2, <3>2
      <4>2. c[n - 1] = b[L] /\ c[n] = i
        BY <1>2, <3>1, <3>2, <4>1
      <4> QED  BY <1>11, <2>3, <4>2 DEF L
    <3>3. CASE n \in 1..L
      BY <1>2, <1>11, <2>3, <3>1, <3>3 DEF Fits, L
    <3> QED  BY <1>3, <3>1, <3>2, <3>3
  <2> QED  BY <2>1, <2>2, <2>3 DEF Fits
<1> QED  BY <1>10, <1>11 DEF c

-----------------------------------------------------------------------------
(* The inductive invariant of ChatHistory. *)

\* A compaction of this generation is the one in flight, of this epoch, and
\* its snapshot fits until it has been spliced in or given up.
Snapshots ==
  \A w \in workers :
    /\ w.gen <= gen
    /\ w.gen = gen =>
         /\ inFlight /\ w.epoch = resets
         /\ w.pc # "finally" =>
              Fits(w, buffer, pending, nextId, repeated) /\ Relieves(w, buffer)

OneCurrent == \A v, w \in workers : v.gen = gen /\ w.gen = gen => v = w

HInv ==
  /\ TypeOK /\ TurnCountExact /\ Bounded
  /\ History(buffer, pending, nextId, resets, repeated)
  /\ Snapshots /\ OneCurrent

\* The latest turn stays in the buffer.
KeepsLatest ==
  \A n \in Latest(buffer) : \E m \in 1..Len(buffer') : buffer'[m] = buffer[n]

\* What is in the buffer was there, or waited, or is new; what waits did or is new.
Fresh(i) == i.id \in Nat /\ nextId <= i.id

FromBefore ==
  /\ \A n \in 1..Len(buffer') :
       \/ \E m \in 1..Len(buffer) : buffer'[n] = buffer[m]
       \/ buffer'[n] \in pending \/ Fresh(buffer'[n])
  /\ \A k \in pending' : k \in pending \/ Fresh(k)

Sound == HInv' /\ (resets' = resets => KeepsLatest) /\ FromBefore

\* The buffer with items added at its end, a user message last if at all.
Added(b2) ==
  /\ Len(buffer) <= Len(b2) /\ b2 \in Seq(ItemType)
  /\ \A n \in 1..Len(buffer) : b2[n] = buffer[n]
  /\ \A n \in (Len(buffer) + 1)..Len(b2) :
       (IsUser(b2[n]) => n = Len(b2)) /\ (b2[n] \in pending \/ Fresh(b2[n]))

\* An eviction that leaves two user messages, or one and there is no new one,
\* leaves what was the latest turn.
LEMMA LatestStays ==
  ASSUME HInv, NEW b2, Added(b2), buffer' \in Seq(ItemType), Evicted(b2, buffer'),
         \/ UserCount(buffer') >= 2
         \/ UserCount(buffer') >= 1 /\ b2 = buffer
         \/ buffer' = b2
  PROVE  KeepsLatest
<1>1. PICK d \in 0..Len(b2) : After(b2, buffer', d)
  BY DEF Evicted
<1>2. /\ buffer \in Seq(ItemType) /\ Len(buffer) \in Nat /\ Len(b2) \in Nat
      /\ Len(buffer') \in Nat /\ Len(buffer') = Len(b2) - d /\ Len(buffer) <= Len(b2)
      /\ DOMAIN (buffer') = 1..Len(buffer')
      /\ d \in Nat
  BY <1>1 DEF HInv, History, Added, After
<1>3. ASSUME NEW n \in Latest(buffer) PROVE \E m \in 1..Len(buffer') : buffer'[m] = buffer[n]
  <2>1. n \in 1..Len(buffer) /\ b2[n] = buffer[n] /\ n \in 1..Len(b2)
    BY <1>2 DEF Latest, Added
  <2>2. CASE buffer' = b2
    BY <2>1, <2>2
  <2>3. CASE d < n
    <3>1. n - d \in 1..Len(buffer') /\ (n - d) + d = n
      BY <1>2, <2>1, <2>3
    <3>2. buffer'[n - d] = b2[n]
      BY <1>1, <3>1 DEF After
    <3> QED  BY <2>1, <3>1, <3>2
  <2>4. CASE ~(d < n) /\ buffer' # b2
    <3>1. ASSUME NEW m \in Users(buffer') PROVE m = Len(buffer') /\ b2 # buffer
      <4>1. m \in 1..Len(buffer') /\ IsUser(buffer'[m])
        BY <1>2 DEF Users
      <4>2. m + d \in 1..Len(b2) /\ IsUser(b2[m + d]) /\ m + d > n
        BY <1>1, <1>2, <2>1, <2>4, <4>1 DEF After
      <4>3. ~(m + d <= Len(buffer))
        <5> SUFFICES ASSUME m + d <= Len(buffer) PROVE FALSE
          OBVIOUS
        <5>1. m + d \in 1..Len(buffer) /\ IsUser(buffer[m + d])
          BY <1>2, <4>1, <4>2 DEF Added
        <5>2. m + d <= n
          BY <5>1 DEF Latest
        <5> QED  BY <1>2, <2>1, <4>1, <4>2, <5>2
      <4>4. m + d \in (Len(buffer) + 1)..Len(b2)
        BY <1>2, <4>1, <4>2, <4>3
      <4>5. m + d = Len(b2)
        BY <4>2, <4>4 DEF Added
      <4> QED  BY <1>2, <4>1, <4>4, <4>5
    <3>2. UserCount(buffer') = Cardinality(Users(buffer')) /\ UserCount(buffer') \in Nat
          /\ IsFiniteSet(Users(buffer')) /\ (UserCount(buffer') = 0 <=> Users(buffer') = {})
      BY CountType
    <3>3. Users(buffer') \in SUBSET {Len(buffer')}
      BY <3>1
    <3>4. UserCount(buffer') <= 1
      <4>1. Users(buffer') = {} \/ Users(buffer') = {Len(buffer')}
        BY <3>3
      <4>2. Cardinality({Len(buffer')}) = 1
        BY FS_Singleton
      <4>3. CASE Users(buffer') = {}
        <5>1. UserCount(buffer') = 0
          BY <3>2, <4>3
        <5> QED  BY <5>1
      <4>4. CASE Users(buffer') = {Len(buffer')}
        <5>1. UserCount(buffer') = 1
          BY <3>2, <4>2, <4>4
        <5> QED  BY <5>1
      <4> QED  BY <4>1, <4>3, <4>4
    <3>5. b2 = buffer => UserCount(buffer') = 0
      BY <3>1, <3>2
    <3> QED  BY <2>4, <3>2, <3>4, <3>5
  <2> QED  BY <1>2, <2>1, <2>2, <2>3, <2>4
<1> QED  BY <1>3 DEF KeepsLatest

\* After a step that adds or evicts, without touching the compactions.
LEMMA Resettled ==
  ASSUME HInv, NEW b2, Added(b2), buffer' \in Seq(ItemType), Evicted(b2, buffer'),
         History(b2, pending', nextId', resets, repeated'),
         \A w \in workers : w.gen = gen /\ w.pc # "finally" =>
           Fits(w, b2, pending', nextId', repeated'),
         userTurns' = UserCount(buffer'), userTurns' <= 2 * Size,
         repeated' \in BOOLEAN,
         \A k \in pending' : k \in pending \/ Fresh(k),
         UNCHANGED <<gen, inFlight, closing, workers, compactor, resets>>
  PROVE  HInv' /\ FromBefore
<1>1. /\ History(buffer', pending', nextId', resets, repeated')
      /\ \A w : Fits(w, b2, pending', nextId', repeated') =>
                Fits(w, buffer', pending', nextId', repeated')
  BY EvictedHistory
<1>2. userTurns' \in Nat /\ 2 * Size \in Nat /\ ~(UserCount(buffer') > 2 * Size)
  BY CountType, SizeAssumption
<1>3. \A w : Relieves(w, buffer')
  BY <1>2 DEF Relieves
<1>4. Snapshots'
  BY <1>1, <1>3 DEF HInv, Snapshots
<1>5. TypeOK'
  BY <1>1, <1>2 DEF HInv, TypeOK, History
<1>6. TurnCountExact' /\ Bounded'
  BY <1>2 DEF TurnCountExact, Bounded
<1>7. History(buffer, pending, nextId, resets, repeated)' /\ OneCurrent'
  BY <1>1 DEF HInv, OneCurrent
<1>8. FromBefore
  <2>1. PICK d \in 0..Len(b2) : After(b2, buffer', d)
    BY DEF Evicted
  <2>2. Len(buffer) \in Nat /\ Len(b2) \in Nat /\ Len(buffer') \in Nat
    BY DEF HInv, History, Added
  <2>3. ASSUME NEW n \in 1..Len(buffer')
        PROVE  \/ \E m \in 1..Len(buffer) : buffer'[n] = buffer[m]
               \/ buffer'[n] \in pending \/ Fresh(buffer'[n])
    <3>1. n + d \in 1..Len(b2) /\ buffer'[n] = b2[n + d]
      BY <2>1, <2>2 DEF After
    <3>2. CASE n + d \in 1..Len(buffer)
      BY <3>1, <3>2 DEF Added
    <3>3. CASE n + d \in (Len(buffer) + 1)..Len(b2)
      BY <3>1, <3>3 DEF Added
    <3> QED  BY <2>2, <3>1, <3>2, <3>3
  <2> QED  BY <2>3 DEF FromBefore
<1> QED  BY <1>4, <1>5, <1>6, <1>7, <1>8 DEF HInv

\* Adding what is in b2.
LEMMA AddStep ==
  ASSUME HInv, NEW b2, NEW turns, Added(b2), turns = UserCount(b2),
         Store(HardCap([items |-> b2, turns |-> turns])),
         History(b2, pending', nextId', resets, repeated'),
         \A w \in workers : w.gen = gen /\ w.pc # "finally" =>
           Fits(w, b2, pending', nextId', repeated'),
         repeated' \in BOOLEAN,
         \A k \in pending' : k \in pending \/ Fresh(k),
         UNCHANGED <<gen, inFlight, closing, workers, compactor, resets>>
  PROVE  Sound
<1> DEFINE h == [items |-> b2, turns |-> turns]
           r == HardCap(h)
<1>1. Counted(h)
  BY DEF Added, Counted
<1>2. /\ Counted(r) /\ Evicted(h.items, r.items) /\ r.turns <= 2 * Size
      /\ r = h \/ r.turns = 2 * Size
  BY <1>1, HardCapLimit
<1>3. buffer' = r.items /\ userTurns' = r.turns
  BY DEF Store
<1>4. h.items = b2
  OBVIOUS
<1>5. /\ buffer' \in Seq(ItemType) /\ userTurns' = UserCount(buffer')
      /\ Evicted(b2, buffer') /\ userTurns' <= 2 * Size
      /\ buffer' = b2 \/ userTurns' = 2 * Size
  <2> HIDE DEF h, r
  <2> QED  BY <1>2, <1>3, <1>4 DEF Counted
<1>6. 2 * Size >= 2
  BY SizeAssumption
<1>7. buffer' = b2 \/ UserCount(buffer') >= 2
  BY <1>5, <1>6
<1>8. KeepsLatest
  BY <1>5, <1>7, LatestStays
<1>9. HInv' /\ FromBefore
  BY <1>5, Resettled
<1> QED  BY <1>8, <1>9 DEF Sound

-----------------------------------------------------------------------------
(* The steps that add, and eviction. *)

\* One new item at the end.
LEMMA AddNew ==
  ASSUME HInv, NEW kind \in {"user", "assistant"},
         Extend(<<Item(kind, NoCall)>>, IF kind = "user" THEN 1 ELSE 0),
         nextId' = nextId + 1,
         UNCHANGED <<pending, gen, inFlight, closing, workers, compactor, resets, repeated>>
  PROVE  Sound
<1> DEFINE i  == Item(kind, NoCall)
           b2 == Append(buffer, i)
           turns == userTurns + (IF kind = "user" THEN 1 ELSE 0)
<1>1. /\ buffer \in Seq(ItemType) /\ nextId \in Nat \ {0} /\ repeated \in BOOLEAN
      /\ userTurns = UserCount(buffer) /\ userTurns \in Nat /\ resets \in Nat
      /\ History(buffer, pending, nextId, resets, repeated)
  BY DEF HInv, History, TypeOK, TurnCountExact
<1>2. /\ i \in ItemType /\ i.id = nextId /\ i.epoch = resets /\ i.kind = kind /\ i.call = NoCall
  BY <1>1 DEF Item, ItemType
<1> HIDE DEF i
<1>3. buffer \o <<i>> = b2
  BY <1>1, <1>2
<1>4. Store(HardCap([items |-> b2, turns |-> turns]))
  BY <1>3 DEF Extend, i
<1>5. MayJoin(buffer, pending, nextId, resets, repeated, i, pending, nextId')
  <2>1. nextId' \in Nat /\ nextId <= nextId' /\ nextId \in Ids(nextId') /\ nextId \notin Ids(nextId)
    BY <1>1 DEF Ids
  <2>2. \A n \in 1..Len(buffer) : buffer[n].id # nextId
    BY <1>1, <2>1 DEF History, Numbered
  <2>3. \A k \in pending : k.id # nextId
    BY <1>1, <2>1 DEF History, Numbered
  <2> QED  BY <1>2, <2>1, <2>2, <2>3 DEF MayJoin
<1>6. /\ History(b2, pending, nextId', resets, repeated)
      /\ \A w : Fits(w, buffer, pending, nextId, repeated) /\ i.id \notin w.markers
                => Fits(w, b2, pending, nextId', repeated)
  BY <1>1, <1>2, <1>5, JoinedHistory
<1>7. ASSUME NEW w \in workers, w.gen = gen, w.pc # "finally"
      PROVE  Fits(w, b2, pending', nextId', repeated')
  <2>1. Fits(w, buffer, pending, nextId, repeated)
    BY <1>7 DEF HInv, Snapshots
  <2>2. i.id \notin w.markers
    BY <1>1, <1>2, <2>1 DEF Fits, Ids
  <2> QED  BY <1>6, <2>1, <2>2
<1>8. turns = UserCount(b2)
  BY <1>1, <1>2, CountAppend DEF IsUser
<1>9. Added(b2)
  <2>1. /\ b2 \in Seq(ItemType) /\ Len(b2) = Len(buffer) + 1 /\ Len(buffer) \in Nat
        /\ \A n \in 1..Len(buffer) : b2[n] = buffer[n]
        /\ b2[Len(b2)] = i
    BY <1>1, <1>2
  <2>2. \A n \in (Len(buffer) + 1)..Len(b2) : n = Len(b2)
    BY <2>1
  <2>3. Fresh(i)
    BY <1>1, <1>2 DEF Fresh
  <2> HIDE DEF b2
  <2> QED  BY <2>1, <2>2, <2>3 DEF Added
<1> HIDE DEF b2, turns
<1>10. History(b2, pending', nextId', resets, repeated')
  BY <1>6
<1> QED  BY <1>1, <1>4, <1>7, <1>8, <1>9, <1>10, AddStep

\* Chat.add_item of a user message, which evicts beyond the cap.
LEMMA AddUserStep == HInv /\ AddUser => Sound
<1> SUFFICES ASSUME HInv, AddUser PROVE Sound
  OBVIOUS
<1>1. Extend(<<Item("user", NoCall)>>, IF "user" = "user" THEN 1 ELSE 0)
  BY DEF AddUser
<1> QED  BY <1>1, AddNew DEF AddUser

\* The same of an assistant message.
LEMMA AddAssistantStep == HInv /\ AddAssistant => Sound
<1> SUFFICES ASSUME HInv, AddAssistant PROVE Sound
  OBVIOUS
<1>1. Extend(<<Item("assistant", NoCall)>>, IF "assistant" = "user" THEN 1 ELSE 0)
  BY DEF AddAssistant
<1> QED  BY <1>1, AddNew DEF AddAssistant

\* A call waits outside the buffer.
LEMMA AddCallStep ==
  ASSUME HInv, NEW c \in Calls, AddCall(c)
  PROVE  Sound
<1> DEFINE i == Item("call", c)
<1>1. /\ buffer \in Seq(ItemType) /\ nextId \in Nat \ {0} /\ repeated \in BOOLEAN
      /\ userTurns = UserCount(buffer) /\ resets \in Nat /\ pending \in SUBSET ItemType
      /\ History(buffer, pending, nextId, resets, repeated)
  BY DEF HInv, History, TypeOK, TurnCountExact
<1>2. /\ i \in ItemType /\ i.id = nextId /\ i.epoch = resets /\ i.kind = "call" /\ i.call = c
  BY <1>1 DEF Item, ItemType
<1> HIDE DEF i
<1>3. /\ pending' = pending \cup {i} /\ nextId' = nextId + 1 /\ Store(HardCap(Now))
      /\ c \notin {k.call : k \in pending}
      /\ UNCHANGED <<gen, inFlight, closing, workers, compactor, resets, repeated>>
  BY DEF AddCall, i
<1>4. nextId' \in Nat \ {0} /\ nextId \in Ids(nextId') /\ nextId \notin Ids(nextId)
      /\ \A n \in Ids(nextId) : n \in Ids(nextId')
  BY <1>1, <1>3 DEF Ids
<1>5. Numbered(buffer, pending', nextId')
  BY <1>1, <1>2, <1>3, <1>4 DEF History, Numbered
<1>6. Waiting(pending')
  BY <1>1, <1>2, <1>3 DEF History, Waiting
<1>7. FromEpoch(buffer, pending', resets)
  BY <1>1, <1>2, <1>3 DEF History, FromEpoch
<1>8. History(buffer, pending', nextId', resets, repeated')
  BY <1>1, <1>2, <1>3, <1>4, <1>5, <1>6, <1>7 DEF History
<1>9. ASSUME NEW w \in workers, w.gen = gen, w.pc # "finally"
      PROVE  Fits(w, buffer, pending', nextId', repeated')
  <2>1. Fits(w, buffer, pending, nextId, repeated)
    BY <1>9 DEF HInv, Snapshots
  <2> QED  BY <1>2, <1>3, <1>4, <2>1 DEF Fits
<1>10. Added(buffer)
  BY <1>1 DEF Added
<1>11. \A k \in pending' : k \in pending \/ Fresh(k)
  BY <1>1, <1>2, <1>3 DEF Fresh
<1>12. Store(HardCap([items |-> buffer, turns |-> userTurns]))
  BY <1>3 DEF Now
<1> QED  BY <1>1, <1>3, <1>8, <1>9, <1>10, <1>11, <1>12, AddStep

\* An output, after its call if that was waiting.
LEMMA AddOutputStep ==
  ASSUME HInv, NEW c \in Calls, AddOutput(c)
  PROVE  Sound
<1> DEFINE o  == Item("output", c)
           p2 == {k \in pending : k.call # c}
<1>1. /\ buffer \in Seq(ItemType) /\ nextId \in Nat \ {0} /\ repeated \in BOOLEAN
      /\ userTurns = UserCount(buffer) /\ resets \in Nat /\ pending \in SUBSET ItemType
      /\ userTurns \in Nat
      /\ History(buffer, pending, nextId, resets, repeated)
  BY DEF HInv, History, TypeOK, TurnCountExact
<1>2. /\ o \in ItemType /\ o.id = nextId /\ o.epoch = resets /\ o.kind = "output" /\ o.call = c
  BY <1>1 DEF Item, ItemType
<1> HIDE DEF o, p2
<1>3. /\ pending' = p2 /\ nextId' = nextId + 1 /\ repeated' = (repeated \/ HasCall(c))
      /\ Extend(OutputItems(c), 0)
      /\ HasCall(c) \/ c \in {k.call : k \in pending}
      /\ UNCHANGED <<gen, inFlight, closing, workers, compactor, resets>>
  BY DEF AddOutput, p2
<1>4. nextId' \in Nat \ {0} /\ nextId <= nextId' /\ nextId \in Ids(nextId')
      /\ nextId \notin Ids(nextId)
  BY <1>1, <1>3 DEF Ids
<1>5. p2 \subseteq pending /\ repeated' \in BOOLEAN /\ HasCall(c) \in BOOLEAN
  BY <1>1, <1>3 DEF p2, HasCall
<1>6. \A k \in pending' : k \in pending \/ Fresh(k)
  BY <1>3, <1>5
<1>7. /\ \A n \in 1..Len(buffer) : buffer[n].id # nextId
      /\ \A k \in pending : k.id # nextId /\ k.id \in Ids(nextId)
                            /\ \A n \in 1..Len(buffer) : buffer[n].id # k.id
  BY <1>1, <1>4 DEF History, Numbered
<1>8. Fresh(o)
  BY <1>1, <1>2 DEF Fresh
<1>9. CASE HasCall(c)
  <2> DEFINE b2 == Append(buffer, o)
  <2>1. repeated' /\ History(buffer, pending, nextId, resets, TRUE)
    BY <1>1, <1>3, <1>9 DEF History
  <2>2. MayJoin(buffer, pending, nextId, resets, TRUE, o, p2, nextId')
    BY <1>2, <1>4, <1>5, <1>7 DEF MayJoin
  <2>3. /\ History(b2, p2, nextId', resets, TRUE)
        /\ \A w : Fits(w, buffer, pending, nextId, TRUE) /\ o.id \notin w.markers
                  => Fits(w, b2, p2, nextId', TRUE)
    BY <2>1, <2>2, JoinedHistory
  <2>4. ASSUME NEW w \in workers, w.gen = gen, w.pc # "finally"
        PROVE  Fits(w, b2, p2, nextId', TRUE)
    <3>1. Fits(w, buffer, pending, nextId, repeated)
      BY <2>4 DEF HInv, Snapshots
    <3>2. Fits(w, buffer, pending, nextId, TRUE) /\ o.id \notin w.markers
      BY <1>1, <1>2, <3>1 DEF Fits, Ids
    <3> QED  BY <2>3, <3>2
  <2>5. OutputItems(c) = <<o>> /\ buffer \o <<o>> = b2
    BY <1>1, <1>2, <1>9 DEF OutputItems, o
  <2>6. Store(HardCap([items |-> b2, turns |-> userTurns + 0]))
    BY <1>3, <2>5 DEF Extend
  <2>7. userTurns + 0 = UserCount(b2)
    BY <1>1, <1>2, CountAppend DEF IsUser
  <2>8. Added(b2)
    <3>1. /\ b2 \in Seq(ItemType) /\ Len(b2) = Len(buffer) + 1 /\ Len(buffer) \in Nat
          /\ \A n \in 1..Len(buffer) : b2[n] = buffer[n]
          /\ b2[Len(b2)] = o
      BY <1>1, <1>2
    <3>2. \A n \in (Len(buffer) + 1)..Len(b2) : n = Len(b2)
      BY <3>1
    <3> HIDE DEF b2
    <3> QED  BY <1>8, <3>1, <3>2 DEF Added
  <2> HIDE DEF b2
  <2>9. History(b2, pending', nextId', resets, repeated')
    BY <1>3, <1>5, <2>1, <2>3
  <2>10. \A w \in workers : w.gen = gen /\ w.pc # "finally" =>
           Fits(w, b2, pending', nextId', repeated')
    BY <1>3, <1>5, <2>1, <2>4
  <2> QED  BY <1>1, <1>3, <1>5, <1>6, <2>6, <2>7, <2>8, <2>9, <2>10, AddStep
<1>10. CASE ~HasCall(c)
  <2>1. PICK k \in pending : k.call = c
    BY <1>3, <1>10
  <2> DEFINE b1 == Append(buffer, k)
             b2 == Append(b1, o)
  <2>2. {j \in pending : j.call = c} = {k}
    BY <1>1, <2>1 DEF History, Waiting
  <2>3. SetToSeq({k}) = <<k>>
    <3>1. Cardinality({k}) = 1
      BY FS_Singleton
    <3>2. <<k>> \in [1..1 -> {k}] /\ IsInjective(<<k>>)
      BY DEF IsInjective
    <3>3. \A f \in [1..1 -> {k}] : f = <<k>>
      OBVIOUS
    <3>4. SetToSeq({k}) = CHOOSE f \in [1..1 -> {k}] : IsInjective(f)
      BY <3>1 DEF SetToSeq
    <3> QED  BY <3>2, <3>3, <3>4
  <2>4. OutputItems(c) = <<k>> \o <<o>>
    BY <1>10, <2>2, <2>3 DEF OutputItems, o
  <2>5. k \in ItemType /\ k.kind = "call" /\ k.epoch = resets /\ repeated' = repeated
        /\ repeated \in BOOLEAN
    BY <1>1, <1>3, <1>10, <2>1 DEF History, Waiting, FromEpoch
  <2>6. buffer \o (<<k>> \o <<o>>) = b2
    BY <1>1, <1>2, <2>5
  <2>7. /\ b1 \in Seq(ItemType) /\ Len(b1) = Len(buffer) + 1 /\ Len(buffer) \in Nat
        /\ \A n \in 1..Len(buffer) : b1[n] = buffer[n]
        /\ b1[Len(buffer) + 1] = k
    BY <1>1, <2>5
  <2>8. \A j \in p2 : j.id # k.id
    BY <1>1, <2>1, <1>5 DEF History, Numbered, p2
  <2>9. MayJoin(buffer, pending, nextId, resets, repeated, k, p2, nextId)
    BY <1>1, <1>5, <1>7, <2>1, <2>5, <2>8 DEF MayJoin
  <2>10. /\ History(b1, p2, nextId, resets, repeated)
         /\ \A w : Fits(w, buffer, pending, nextId, repeated) /\ k.id \notin w.markers
                   => Fits(w, b1, p2, nextId, repeated)
    BY <1>1, <2>5, <2>9, JoinedHistory
  <2>11. MayJoin(b1, p2, nextId, resets, repeated, o, p2, nextId')
    <3>1. \A n \in 1..Len(b1) : b1[n].id \in Ids(nextId)
      BY <2>10 DEF History, Numbered
    <3>2. \A n \in 1..Len(b1) : b1[n].id # o.id
      BY <1>2, <1>4, <3>1
    <3>3. Len(b1) \in 1..Len(b1) /\ b1[Len(b1)].kind = "call" /\ b1[Len(b1)].call = o.call
      BY <1>2, <2>1, <2>5, <2>7
    <3>4. \A j \in p2 : j.id # o.id
      BY <1>2, <1>5, <1>7
    <3> HIDE DEF b1
    <3> QED  BY <1>2, <1>4, <3>2, <3>3, <3>4 DEF MayJoin
  <2>12. /\ History(b2, p2, nextId', resets, repeated)
         /\ \A w : Fits(w, b1, p2, nextId, repeated) /\ o.id \notin w.markers
                   /\ b1[Len(b1)].id \notin w.markers
                   => Fits(w, b2, p2, nextId', repeated)
    BY <2>10, <2>11, JoinedHistory
  <2>13. ASSUME NEW w \in workers, w.gen = gen, w.pc # "finally"
         PROVE  Fits(w, b2, p2, nextId', repeated)
    <3>1. Fits(w, buffer, pending, nextId, repeated)
      BY <2>13 DEF HInv, Snapshots
    <3>2. k.id \notin w.markers /\ o.id \notin w.markers
      BY <1>1, <1>2, <2>1, <3>1 DEF Fits, Ids
    <3>3. b1[Len(b1)].id = k.id
      BY <2>7
    <3> HIDE DEF b1, b2
    <3> QED  BY <2>10, <2>12, <3>1, <3>2, <3>3
  <2>14. Store(HardCap([items |-> b2, turns |-> userTurns + 0]))
    BY <1>3, <2>4, <2>6 DEF Extend
  <2>15. userTurns + 0 = UserCount(b2)
    <3>1. UserCount(b1) = UserCount(buffer) + 0
      BY <1>1, <2>5, CountAppend DEF IsUser
    <3> HIDE DEF b1
    <3>2. UserCount(b2) = UserCount(b1) + 0
      BY <1>2, <2>7, CountAppend DEF IsUser
    <3> QED  BY <1>1, <3>1, <3>2
  <2>16. Added(b2)
    <3>1. /\ b2 \in Seq(ItemType) /\ Len(b2) = Len(b1) + 1 /\ b2[Len(b1) + 1] = o
          /\ \A n \in 1..Len(b1) : b2[n] = b1[n]
      <4> HIDE DEF b1
      <4> QED  BY <1>2, <2>7
    <3> HIDE DEF b1, b2
    <3>2. \A n \in 1..Len(buffer) : n \in 1..Len(b1) /\ b2[n] = buffer[n]
      BY <2>7, <3>1
    <3>3. ASSUME NEW n \in (Len(buffer) + 1)..Len(b2)
          PROVE  ~IsUser(b2[n]) /\ (b2[n] \in pending \/ Fresh(b2[n]))
      <4>1. CASE n = Len(buffer) + 1
        <5>1. n \in 1..Len(b1) /\ b2[n] = k
          BY <2>7, <3>1, <4>1
        <5> QED  BY <2>1, <2>5, <5>1 DEF IsUser
      <4>2. CASE n = Len(b1) + 1
        BY <1>2, <1>8, <3>1, <4>2 DEF IsUser
      <4> QED  BY <2>7, <3>1, <3>3, <4>1, <4>2
    <3> QED  BY <2>7, <3>1, <3>2, <3>3 DEF Added
  <2> HIDE DEF b1, b2
  <2>17. History(b2, pending', nextId', resets, repeated')
    BY <1>3, <2>5, <2>12
  <2>18. \A w \in workers : w.gen = gen /\ w.pc # "finally" =>
           Fits(w, b2, pending', nextId', repeated')
    BY <1>3, <2>5, <2>13
  <2> QED  BY <1>1, <1>3, <1>5, <1>6, <2>14, <2>15, <2>16, <2>17, <2>18, AddStep
<1> QED  BY <1>9, <1>10

\* Eviction without a compactor.
LEMMA EvictStep == HInv /\ Evict => Sound
<1> SUFFICES ASSUME HInv, Evict PROVE Sound
  OBVIOUS
<1>1. /\ buffer \in Seq(ItemType) /\ repeated \in BOOLEAN
      /\ userTurns = UserCount(buffer) /\ userTurns \in Nat
      /\ History(buffer, pending, nextId, resets, repeated)
  BY DEF HInv, History, TypeOK, TurnCountExact
<1>2. Size \in Nat /\ Size >= 1 /\ Size <= 2 * Size /\ userTurns >= Size
  BY <1>1, SizeAssumption DEF Evict
<1>3. Counted(Now)
  BY <1>1 DEF Counted, Now
<1>4. /\ Counted(EvictTo(Now, Size)) /\ Evicted(buffer, EvictTo(Now, Size).items)
      /\ EvictTo(Now, Size).turns = Size
  BY <1>2, <1>3, EvictToLimit DEF Now
<1>5. buffer' = EvictTo(Now, Size).items /\ userTurns' = EvictTo(Now, Size).turns
      /\ UNCHANGED <<pending, gen, inFlight, closing, workers, compactor, nextId, resets, repeated>>
  BY DEF Evict, Store
<1>6. /\ buffer' \in Seq(ItemType) /\ Evicted(buffer, buffer') /\ userTurns' = UserCount(buffer')
      /\ userTurns' = Size
  BY <1>4, <1>5 DEF Counted
<1>7. Added(buffer)
  BY <1>1 DEF Added
<1>8. UserCount(buffer') >= 1 /\ userTurns' <= 2 * Size
  BY <1>2, <1>6
<1>9. KeepsLatest
  BY <1>6, <1>7, <1>8, LatestStays
<1>10. History(buffer, pending', nextId', resets, repeated')
  BY <1>1, <1>5
<1>11. \A w \in workers : w.gen = gen /\ w.pc # "finally" =>
           Fits(w, buffer, pending', nextId', repeated')
  BY <1>5 DEF HInv, Snapshots
<1>12. repeated' \in BOOLEAN /\ \A k \in pending' : k \in pending \/ Fresh(k)
  BY <1>1, <1>5
<1>13. HInv' /\ FromBefore
  BY <1>5, <1>6, <1>7, <1>8, <1>10, <1>11, <1>12, Resettled
<1> QED  BY <1>9, <1>13 DEF Sound

-----------------------------------------------------------------------------
(* Compactions. *)

\* User messages among the first n items.
LEMMA CountPrefix ==
  ASSUME NEW S, NEW b \in Seq(S), NEW n \in 1..Len(b)
  PROVE  UserCount(SubSeq(b, 1, n)) = Cardinality({m \in 1..n : IsUser(b[m])})
<1> DEFINE t == SubSeq(b, 1, n)
<1>1. DOMAIN t = 1..n /\ \A m \in 1..n : t[m] = b[m]
  OBVIOUS
<1> HIDE DEF t
<1>2. {m \in DOMAIN t : IsUser(t[m])} = {m \in 1..n : IsUser(b[m])}
  BY <1>1
<1> QED  BY <1>2 DEF UserCount, t

\* What a snapshot takes, and what it leaves.
LEMMA MarkersFit ==
  ASSUME HInv, Compactable >= 2, NEW w, w.markers = Markers
  PROVE  Fits(w, buffer, pending, nextId, repeated) /\ Relieves(w, buffer)
<1> DEFINE U(n) == {m \in 1..n : IsUser(buffer[m])}
           L    == Len(buffer)
<1>1. /\ buffer \in Seq(ItemType) /\ L \in Nat /\ DOMAIN buffer = 1..L
      /\ History(buffer, pending, nextId, resets, repeated)
      /\ userTurns = UserCount(buffer) /\ userTurns \in Nat
      /\ userTurns = Cardinality(Users(buffer)) /\ IsFiniteSet(Users(buffer))
      /\ userTurns = 0 <=> Users(buffer) = {}
  BY CountType DEF HInv, History, TurnCountExact
<1>2. userTurns # 0 /\ Compactable = userTurns - 1 /\ Compactable \in Nat
      /\ ~(userTurns <= Compactable)
  <2>1. userTurns # 0
    <3> SUFFICES ASSUME userTurns = 0 PROVE FALSE
      OBVIOUS
    <3>1. Compactable = 0
      BY DEF Compactable
    <3> QED  BY <3>1
  <2> QED  BY <1>1, <2>1 DEF Compactable
<1>3. Markers = {buffer[n].id : n \in {m \in 1..L : Cardinality(U(m)) <= Compactable}}
  <2>1. \A n \in 1..L : UserCount(SubSeq(buffer, 1, n)) = Cardinality(U(n))
    BY <1>1, CountPrefix
  <2> HIDE DEF U
  <2> QED  BY <1>1, <2>1 DEF Markers
<1>4. \A n \in 1..L : buffer[n].id \in Markers <=> Cardinality(U(n)) <= Compactable
  <2> TAKE n \in 1..L
  <2>1. \A m \in 1..L : buffer[m].id = buffer[n].id => m = n
    BY <1>1 DEF History, Numbered
  <2> HIDE DEF U
  <2> QED  BY <1>3, <2>1
<1>5. Markers \subseteq Ids(nextId) /\ \A k \in pending : k.id \notin Markers
  <2>1. \A n \in 1..L : buffer[n].id \in Ids(nextId) /\ \A k \in pending : buffer[n].id # k.id
    BY <1>1 DEF History, Numbered
  <2> HIDE DEF U
  <2> QED  BY <1>3, <2>1
<1>6. ASSUME NEW n \in Latest(buffer) PROVE buffer[n].id \notin Markers
  <2>1. n \in 1..L /\ \A m \in 1..L : IsUser(buffer[m]) => m <= n
    BY DEF Latest
  <2>2. U(n) = Users(buffer)
    BY <1>1, <2>1 DEF Users
  <2>3. Cardinality(U(n)) = userTurns
    BY <1>1, <2>2
  <2> HIDE DEF U
  <2> QED  BY <1>2, <1>4, <2>1, <2>3
<1>7. ASSUME ~repeated, NEW n \in 1..L, buffer[n].kind = "output"
      PROVE  buffer[n].id \in Markers <=> buffer[n - 1].id \in Markers
  <2>1. n - 1 \in 1..L /\ ~IsUser(buffer[n])
    BY <1>1, <1>7 DEF History, Adjacent, IsUser
  <2>2. U(n) = U(n - 1)
    <3>1. \A m \in 1..n : m = n \/ m \in 1..(n - 1)
      BY <2>1
    <3>2. \A m \in 1..(n - 1) : m \in 1..n
      BY <2>1
    <3> QED  BY <2>1, <3>1, <3>2
  <2> HIDE DEF U
  <2> QED  BY <1>4, <2>1, <2>2
<1>8. \E n \in 1..L : IsUser(buffer[n]) /\ buffer[n].id \in Markers
  <2>1. Users(buffer) \in SUBSET Nat /\ Users(buffer) # {}
    BY <1>1, <1>2 DEF Users
  <2>2. PICK n \in Users(buffer) : \A m \in Users(buffer) : n <= m
    BY <2>1, Least
  <2>3. n \in 1..L /\ IsUser(buffer[n])
    BY <1>1 DEF Users
  <2>4. ASSUME NEW m \in 1..n, IsUser(buffer[m]) PROVE m = n
    <3>1. m \in Users(buffer)
      BY <1>1, <2>3, <2>4 DEF Users
    <3>2. n <= m
      BY <2>2, <3>1
    <3> QED  BY <1>1, <2>3, <3>2
  <2>5. U(n) = {n}
    BY <1>1, <2>3, <2>4
  <2>6. Cardinality(U(n)) = 1
    BY <2>5, FS_Singleton
  <2> HIDE DEF U
  <2>7. buffer[n].id \in Markers
    BY <1>2, <1>4, <2>3, <2>6
  <2> QED  BY <2>3, <2>7
<1> QED  BY <1>5, <1>6, <1>7, <1>8 DEF Fits, Relieves

\* trim_if_needed starts a worker: its snapshot fits, and no other is current.
LEMMA TriggerStep == HInv /\ TriggerCompaction => HInv'
<1> SUFFICES ASSUME HInv, TriggerCompaction PROVE HInv'
  OBVIOUS
<1>1. PICK w : w = [gen |-> gen, markers |-> Markers, epoch |-> resets, pc |-> "start"]
  OBVIOUS
<1>2. /\ workers' = workers \cup {w} /\ inFlight' = TRUE /\ ~inFlight /\ Compactable >= 2
      /\ UNCHANGED <<buffer, pending, userTurns, gen, closing, compactor, nextId, resets, repeated>>
  BY <1>1 DEF TriggerCompaction
<1>3. w.gen = gen /\ w.markers = Markers /\ w.epoch = resets /\ w.pc = "start"
  BY <1>1
<1>4. Fits(w, buffer, pending, nextId, repeated) /\ Relieves(w, buffer)
  BY <1>2, <1>3, MarkersFit
<1>5. w \in WorkerType
  <2>1. Markers \in SUBSET Nat /\ gen \in Nat /\ resets \in Nat
    <3>1. Markers \subseteq Ids(nextId) /\ nextId \in Nat
      BY <1>3, <1>4 DEF Fits, HInv, History
    <3> QED  BY <3>1 DEF Ids, HInv, TypeOK
  <2> QED  BY <1>1, <2>1 DEF WorkerType
<1>6. \A v \in workers : v.gen <= gen /\ v.gen # gen
  BY <1>2 DEF HInv, Snapshots
<1>7. TypeOK'
  BY <1>2, <1>5 DEF HInv, TypeOK
<1>8. Snapshots'
  <2>1. gen <= gen
    BY DEF HInv, TypeOK
  <2> QED  BY <1>2, <1>3, <1>4, <1>6, <2>1 DEF Snapshots
<1>9. OneCurrent'
  BY <1>2, <1>6 DEF OneCurrent
<1>10. History(buffer, pending, nextId, resets, repeated)' /\ TurnCountExact' /\ Bounded'
  BY <1>2 DEF HInv, TurnCountExact, Bounded
<1> QED  BY <1>7, <1>8, <1>9, <1>10 DEF HInv

\* A worker that goes on keeps its snapshot.
LEMMA GoOnStep ==
  ASSUME HInv, NEW w \in workers, NEW pc \in {"call", "apply", "finally"}, Goto(w, pc),
         w.pc # "finally",
         UNCHANGED <<buffer, pending, userTurns, gen, inFlight, closing, compactor,
                     nextId, resets, repeated>>
  PROVE  HInv'
<1>1. PICK v : v = [w EXCEPT !.pc = pc]
  OBVIOUS
<1>2. workers' = (workers \ {w}) \cup {v}
  BY <1>1 DEF Goto
<1>3. w \in WorkerType
  BY DEF HInv, TypeOK
<1>4. /\ v \in WorkerType /\ v.gen = w.gen /\ v.markers = w.markers /\ v.epoch = w.epoch
      /\ v.pc = pc
  BY <1>1, <1>3 DEF WorkerType
<1>5. /\ Fits(w, buffer, pending, nextId, repeated) => Fits(v, buffer, pending, nextId, repeated)
      /\ Relieves(w, buffer) => Relieves(v, buffer)
  BY <1>4 DEF Fits, Relieves
<1>6. Snapshots'
  BY <1>2, <1>4, <1>5 DEF HInv, Snapshots
<1>7. OneCurrent'
  <2>1. \A x \in workers : x.gen = gen /\ w.gen = gen => x = w
    BY DEF HInv, OneCurrent
  <2> QED  BY <1>2, <1>4, <2>1 DEF HInv, OneCurrent
<1>8. TypeOK' /\ TurnCountExact' /\ Bounded' /\ History(buffer, pending, nextId, resets, repeated)'
  BY <1>2, <1>4 DEF HInv, TypeOK, TurnCountExact, Bounded
<1> QED  BY <1>6, <1>7, <1>8 DEF HInv

\* The worker's end clears its own flag.
LEMMA WorkerEndStep ==
  ASSUME HInv, NEW w \in workers, WorkerEnd(w)
  PROVE  HInv'
<1>1. /\ workers' = workers \ {w} /\ inFlight' = (inFlight /\ gen # w.gen)
      /\ UNCHANGED <<buffer, pending, userTurns, gen, closing, compactor, nextId, resets, repeated>>
  BY DEF WorkerEnd, FlagAfter
<1>2. \A v \in workers' : v \in workers /\ (v.gen = gen => inFlight')
  <2> SUFFICES ASSUME NEW v \in workers', v.gen = gen PROVE v \in workers /\ inFlight'
    BY <1>1
  <2>1. v \in workers /\ v # w
    BY <1>1
  <2>2. w.gen # gen
    BY <2>1 DEF HInv, OneCurrent
  <2>3. inFlight
    BY <2>1 DEF HInv, Snapshots
  <2> QED  BY <1>1, <2>1, <2>2, <2>3
<1>3. Snapshots'
  BY <1>1, <1>2 DEF HInv, Snapshots
<1>4. inFlight' \in BOOLEAN
  BY <1>1 DEF HInv, TypeOK
<1>5. TypeOK'
  BY <1>1, <1>4 DEF HInv, TypeOK
<1>6. TurnCountExact' /\ Bounded' /\ OneCurrent'
      /\ History(buffer, pending, nextId, resets, repeated)'
  BY <1>1 DEF HInv, TurnCountExact, Bounded, OneCurrent
<1> QED  BY <1>3, <1>5, <1>6 DEF HInv

\* A reset, and the end of close(), leave no compaction current.
LEMMA ResetStep == HInv /\ Reset => HInv'
<1> SUFFICES ASSUME HInv, Reset PROVE HInv'
  OBVIOUS
<1>1. /\ resets' = resets + 1 /\ gen' = gen + 1 /\ inFlight' = FALSE
      /\ buffer' = << >> /\ pending' = {} /\ userTurns' = 0
      /\ UNCHANGED <<closing, workers, compactor, nextId, repeated>>
  BY DEF Reset
<1>2. /\ << >> \in Seq(ItemType) /\ Len(<< >>) = 0 /\ Users(<< >>) = {} /\ 1..0 = {}
      /\ \A n \in 1..0 : FALSE
  BY DEF Users
<1>3. UserCount(<< >>) = 0
  BY <1>2, CountType
<1>4. History(<< >>, {}, nextId, resets', repeated)
  BY <1>2 DEF HInv, History, Numbered, Waiting, FromEpoch, Adjacent
<1>5. \A w \in workers : w.gen <= gen' /\ w.gen # gen'
  <2>1. gen \in Nat /\ \A w \in workers : w.gen \in Nat /\ w.gen <= gen
    BY DEF HInv, TypeOK, WorkerType, Snapshots
  <2> QED  BY <1>1, <2>1
<1>6. Snapshots' /\ OneCurrent'
  BY <1>1, <1>5 DEF Snapshots, OneCurrent
<1>7. TypeOK'
  <2>1. gen' \in Nat /\ resets' \in Nat /\ userTurns' \in Nat
    BY <1>1 DEF HInv, TypeOK
  <2>2. inFlight' \in BOOLEAN
    BY <1>1
  <2>3. buffer' \in Seq(ItemType) /\ pending' \subseteq ItemType
    BY <1>1, <1>2
  <2> QED  BY <1>1, <2>1, <2>2, <2>3 DEF HInv, TypeOK
<1>8. TurnCountExact' /\ Bounded'
  BY <1>1, <1>3, SizeAssumption DEF TurnCountExact, Bounded
<1> QED  BY <1>1, <1>4, <1>6, <1>7, <1>8 DEF HInv

\* Chat.close.
LEMMA CloseStep == HInv /\ (CloseBegin \/ CloseEnd) => HInv'
<1> SUFFICES ASSUME HInv, CloseBegin \/ CloseEnd PROVE HInv'
  OBVIOUS
<1>1. /\ UNCHANGED <<buffer, pending, userTurns, workers, compactor, nextId, resets, repeated>>
      /\ closing' \in {"open", "shutdown", "closed"}
      /\ UNCHANGED <<gen, inFlight>> \/ (gen' = gen + 1 /\ inFlight' = FALSE)
  BY DEF CloseBegin, CloseEnd
<1>2. gen \in Nat /\ \A w \in workers : w.gen \in Nat /\ w.gen <= gen
  BY DEF HInv, TypeOK, WorkerType, Snapshots
<1>3. CASE UNCHANGED <<gen, inFlight>>
  BY <1>1, <1>3 DEF HInv, TypeOK, TurnCountExact, Bounded, Snapshots, OneCurrent
<1>4. CASE gen' = gen + 1 /\ inFlight' = FALSE
  <2>1. \A w \in workers : w.gen <= gen' /\ w.gen # gen'
    BY <1>2, <1>4
  <2>2. Snapshots' /\ OneCurrent'
    BY <1>1, <2>1 DEF Snapshots, OneCurrent
  <2>3. gen' \in Nat /\ inFlight' \in BOOLEAN
    <3>1. inFlight' \in BOOLEAN
      BY <1>4
    <3>2. gen' \in Nat
      BY <1>2, <1>4
    <3> QED  BY <3>1, <3>2
  <2>4. TypeOK'
    BY <1>1, <2>3 DEF HInv, TypeOK
  <2>5. TurnCountExact' /\ Bounded' /\ History(buffer, pending, nextId, resets, repeated)'
    BY <1>1 DEF HInv, TurnCountExact, Bounded
  <2> QED  BY <2>2, <2>4, <2>5 DEF HInv
<1> QED  BY <1>1, <1>3, <1>4

-----------------------------------------------------------------------------
(* The splice. *)

\* Which items of the snapshot go.
LEMMA DroppedItems ==
  ASSUME buffer \in Seq(ItemType), NEW w, NEW n \in 1..Len(buffer)
  PROVE  /\ buffer[n] \in Dropped(w) => buffer[n].id \in w.markers
         /\ buffer[n].id \in w.markers /\ buffer[n].kind # "call" => buffer[n] \in Dropped(w)
<1> DEFINE inRange  == {buffer[i] : i \in {j \in DOMAIN buffer : buffer[j].id \in w.markers}}
           done == {i.call : i \in {j \in inRange : j.kind = "output"}}
<1>1. Dropped(w) = {i \in inRange : i.kind # "call" \/ i.call \in done}
  BY DEF Dropped
<1>2. buffer[n] \in inRange => buffer[n].id \in w.markers
  OBVIOUS
<1>3. buffer[n].id \in w.markers => buffer[n] \in inRange
  <2>1. n \in DOMAIN buffer
    OBVIOUS
  <2> QED  BY <2>1
<1> HIDE DEF inRange, done
<1> QED  BY <1>1, <1>2, <1>3

\* A subset of the buffer, in its order, and how many user messages it has.
LEMMA KeptCount ==
  ASSUME NEW S, NEW s \in Seq(S), NEW r \in Seq(S), NEW gone, NEW at,
         Picks(s, Len(s), gone, r, at)
  PROVE  /\ UserCount(r) <= UserCount(s)
         /\ (\E n \in 1..Len(s) : IsUser(s[n]) /\ s[n] \in gone) => UserCount(r) < UserCount(s)
<1> DEFINE R == Users(r)
           T == {n \in Users(s) : s[n] \notin gone}
           f == [k \in R |-> at[k]]
<1>1. /\ DOMAIN s = 1..Len(s) /\ DOMAIN r = 1..Len(r) /\ Len(s) \in Nat /\ Len(r) \in Nat
      /\ at \in [1..Len(r) -> 1..Len(s)]
      /\ \A j, k \in 1..Len(r) : j < k => at[j] < at[k]
      /\ \A k \in 1..Len(r) : r[k] = s[at[k]] /\ r[k] \notin gone
  BY DEF Picks
<1>2. /\ IsFiniteSet(Users(s)) /\ UserCount(s) = Cardinality(Users(s)) /\ UserCount(s) \in Nat
      /\ IsFiniteSet(R) /\ UserCount(r) = Cardinality(R) /\ UserCount(r) \in Nat
  BY CountType
<1>3. T \in SUBSET Users(s)
  OBVIOUS
<1>4. /\ IsFiniteSet(T) /\ Cardinality(T) <= Cardinality(Users(s))
      /\ Cardinality(T) = Cardinality(Users(s)) => T = Users(s)
  BY <1>2, <1>3, FS_Subset
<1>5. f \in Injection(R, T)
  <2>1. \A k \in R : k \in 1..Len(r) /\ IsUser(r[k])
    BY <1>1 DEF Users
  <2>2. f \in [R -> T]
    <3> SUFFICES ASSUME NEW k \in R PROVE at[k] \in T
      OBVIOUS
    <3>1. at[k] \in 1..Len(s) /\ IsUser(s[at[k]]) /\ s[at[k]] \notin gone
      BY <1>1, <2>1
    <3> QED  BY <1>1, <3>1 DEF Users
  <2>3. ASSUME NEW j \in R, NEW k \in R, f[j] = f[k] PROVE j = k
    <3>1. j \in 1..Len(r) /\ k \in 1..Len(r) /\ at[j] = at[k] /\ at[j] \in Int
      BY <1>1, <2>1, <2>3
    <3>2. ~(j < k) /\ ~(k < j)
      BY <1>1, <3>1
    <3> QED  BY <1>1, <3>1, <3>2
  <2>4. DOMAIN f = R
    OBVIOUS
  <2> HIDE DEF f, R, T
  <2> QED  BY <2>2, <2>3, <2>4 DEF Injection, IsInjective
<1>6. Cardinality(R) <= Cardinality(T) /\ Cardinality(T) \in Nat
  BY <1>4, <1>5, FS_Injection, FS_CardinalityType
<1>7. ASSUME NEW n \in 1..Len(s), IsUser(s[n]), s[n] \in gone PROVE T # Users(s)
  <2>1. n \in Users(s) /\ n \notin T
    BY <1>1, <1>7 DEF Users
  <2> QED  BY <2>1
<1> HIDE DEF T, R
<1> QED  BY <1>2, <1>4, <1>6, <1>7

\* Two items in front.
LEMMA InFront ==
  ASSUME NEW S, NEW r \in Seq(S), NEW u \in S, NEW v \in S
  PROVE  LET c == <<u, v>> \o r
         IN /\ c \in Seq(S) /\ Len(c) = Len(r) + 2 /\ c[1] = u /\ c[2] = v
            /\ \A k \in 1..Len(r) : k + 2 \in 1..Len(c) /\ c[k + 2] = r[k]
            /\ \A n \in 1..Len(c) : n = 1 \/ n = 2 \/ (n - 2 \in 1..Len(r) /\ c[n] = r[n - 2])
OBVIOUS

\* The summary in place of the snapshot leaves a history, recounted, under the
\* cap, with its latest turn.
LEMMA SpliceKeeps ==
  ASSUME HInv, NEW w \in workers, w.gen = gen, w.pc # "finally",
         NEW b, b = Spliced(w).items
  PROVE  /\ History(b, pending, nextId + 2, resets, repeated)
         /\ Spliced(w).turns = UserCount(b) /\ UserCount(b) <= 2 * Size + 1
         /\ \A n \in Latest(buffer) : \E m \in 1..Len(b) : b[m] = buffer[n]
         /\ \A n \in 1..Len(b) : (\E m \in 1..Len(buffer) : b[n] = buffer[m]) \/ Fresh(b[n])
<1> DEFINE L    == Len(buffer)
           gone == Dropped(w)
           r    == Without(buffer, gone)
           K    == Len(r)
           new(n, kind) == [kind |-> kind, id |-> n, call |-> NoCall, epoch |-> w.epoch]
           u    == new(nextId, "user")
           v    == new(nextId + 1, "assistant")
<1>1. /\ buffer \in Seq(ItemType) /\ L \in Nat /\ DOMAIN buffer = 1..L
      /\ nextId \in Nat /\ nextId \in Nat \ {0} /\ resets \in Nat /\ gen \in Nat
      /\ History(buffer, pending, nextId, resets, repeated)
      /\ Fits(w, buffer, pending, nextId, repeated) /\ Relieves(w, buffer) /\ w.epoch = resets
      /\ UserCount(buffer) <= 2 * Size + 1
  <2>1. w.gen <= gen /\ (w.gen = gen => inFlight /\ w.epoch = resets
        /\ (w.pc # "finally" => Fits(w, buffer, pending, nextId, repeated) /\ Relieves(w, buffer)))
    BY DEF HInv, Snapshots
  <2> QED  BY <2>1 DEF HInv, History, TypeOK, Bounded
<1>2. b = <<u, v>> \o r /\ Spliced(w).turns = UserCount(b)
  BY DEF Spliced
<1> HIDE DEF gone, L
<1>3. r \in Seq(ItemType) /\ \E at : Picks(buffer, L, gone, r, at)
  BY <1>1, WithoutPicks DEF L
<1>4. PICK at : Picks(buffer, L, gone, r, at)
  BY <1>3
<1> HIDE DEF r
<1>5. /\ K \in Nat /\ at \in [1..K -> 1..L]
      /\ \A j, k \in 1..K : j < k => at[j] < at[k]
      /\ \A k \in 1..K : r[k] = buffer[at[k]] /\ r[k] \notin gone
      /\ \A n \in 1..L : buffer[n] \notin gone => \E k \in 1..K : at[k] = n
  BY <1>3, <1>4 DEF Picks
<1>6. /\ u \in ItemType /\ u.id = nextId /\ u.epoch = resets /\ u.kind = "user"
      /\ v \in ItemType /\ v.id = nextId + 1 /\ v.epoch = resets /\ v.kind = "assistant"
  BY <1>1 DEF ItemType
<1> HIDE DEF u, v, K
<1>7. /\ b \in Seq(ItemType) /\ Len(b) = K + 2 /\ b[1] = u /\ b[2] = v
      /\ \A k \in 1..K : k + 2 \in 1..Len(b) /\ b[k + 2] = r[k]
      /\ \A n \in 1..Len(b) : n = 1 \/ n = 2 \/ (n - 2 \in 1..K /\ b[n] = r[n - 2])
  BY <1>2, <1>3, <1>6, InFront DEF K
<1>8. \A k \in 1..K : /\ r[k].id \in Ids(nextId) /\ r[k].epoch = resets
                      /\ \A j \in pending : j.id # r[k].id
  BY <1>1, <1>5 DEF History, Numbered, FromEpoch, L
<1>9. \A j, k \in 1..K : r[j].id = r[k].id => j = k
  <2> SUFFICES ASSUME NEW j \in 1..K, NEW k \in 1..K, r[j].id = r[k].id PROVE j = k
    OBVIOUS
  <2>1. at[j] = at[k] /\ at[j] \in 1..L /\ at[k] \in 1..L
    BY <1>1, <1>5 DEF History, Numbered, L
  <2>2. ~(j < k) /\ ~(k < j)
    BY <1>1, <1>5, <2>1
  <2> QED  BY <1>5, <2>2
<1>10. /\ nextId \notin Ids(nextId) /\ nextId + 1 \notin Ids(nextId)
       /\ nextId \in Ids(nextId + 2) /\ nextId + 1 \in Ids(nextId + 2)
       /\ \A n \in Ids(nextId) : n \in Ids(nextId + 2)
       /\ nextId + 2 \in Nat \ {0} /\ nextId # nextId + 1
  BY <1>1 DEF Ids
<1>11. Numbered(b, pending, nextId + 2)
  <2>1. \A n \in 1..Len(b) : b[n].id \in Ids(nextId + 2)
    BY <1>6, <1>7, <1>8, <1>10
  <2>2. ASSUME NEW m \in 1..Len(b), NEW n \in 1..Len(b), b[m].id = b[n].id PROVE m = n
    <3>1. CASE m = 1 \/ m = 2 \/ n = 1 \/ n = 2
      BY <1>6, <1>7, <1>8, <1>10, <2>2, <3>1
    <3>2. CASE ~(m = 1 \/ m = 2 \/ n = 1 \/ n = 2)
      <4>1. m - 2 \in 1..K /\ n - 2 \in 1..K /\ r[m - 2].id = r[n - 2].id
        BY <1>7, <2>2, <3>2
      <4>2. m - 2 = n - 2
        BY <1>9, <4>1
      <4> QED  BY <1>5, <4>1, <4>2
    <3> QED  BY <3>1, <3>2
  <2>3. \A k \in pending : k.id \in Ids(nextId) /\ \A j \in pending : j.id = k.id => j = k
    BY <1>1 DEF History, Numbered
  <2>4. \A k \in pending : \A n \in 1..Len(b) : b[n].id # k.id
    BY <1>6, <1>7, <1>8, <1>10, <2>3
  <2> QED  BY <1>10, <2>1, <2>2, <2>3, <2>4 DEF Numbered
<1>12. FromEpoch(b, pending, resets)
  BY <1>1, <1>6, <1>7, <1>8 DEF History, FromEpoch
<1>13. ASSUME ~repeated PROVE Adjacent(b)
  <2> SUFFICES ASSUME NEW n \in 1..Len(b), b[n].kind = "output"
               PROVE  n - 1 \in 1..Len(b) /\ b[n - 1].kind = "call" /\ b[n - 1].call = b[n].call
    BY DEF Adjacent
  <2>1. n - 2 \in 1..K /\ b[n] = r[n - 2]
    BY <1>6, <1>7
  <2>2. PICK k \in 1..K : k = n - 2
    BY <2>1
  <2>3. b[n] = r[k] /\ r[k] = buffer[at[k]] /\ r[k] \notin gone /\ at[k] \in 1..L
    BY <1>5, <2>1, <2>2
  <2> DEFINE o == at[k]
  <2>4. /\ o - 1 \in 1..L /\ buffer[o - 1].kind = "call" /\ buffer[o - 1].call = buffer[o].call
        /\ buffer[o].kind = "output"
        /\ buffer[o].id \in w.markers <=> buffer[o - 1].id \in w.markers
    BY <1>1, <1>13, <2>3 DEF History, Adjacent, Fits, L
  <2>5. buffer[o].id \notin w.markers
    <3>1. buffer[o].id \in w.markers /\ buffer[o].kind # "call" => buffer[o] \in Dropped(w)
      BY <1>1, <2>3, DroppedItems DEF L
    <3> QED  BY <2>3, <2>4, <3>1 DEF gone
  <2>6. buffer[o - 1] \notin gone
    <3>1. buffer[o - 1] \in Dropped(w) => buffer[o - 1].id \in w.markers
      BY <1>1, <2>4, DroppedItems DEF L
    <3> QED  BY <2>4, <2>5, <3>1 DEF gone
  <2>7. PICK j \in 1..K : at[j] = o - 1
    BY <1>5, <2>4, <2>6
  <2>8. j = k - 1
    <3>1. o \in Int /\ j \in Int /\ k \in Int /\ o - 1 < o /\ at[k] = o
      BY <1>5, <2>3
    <3>2. ~(k < j) /\ j # k
      <4>1. k < j => at[k] < at[j]
        BY <1>5
      <4> QED  BY <2>7, <3>1, <4>1
    <3>3. j < k
      BY <3>1, <3>2
    <3>4. SUFFICES ASSUME j < k - 1 PROVE FALSE
      BY <3>1, <3>3
    <3>5. k - 1 \in 1..K /\ j < k - 1 /\ k - 1 < k
      BY <1>5, <3>1, <3>4
    <3>6. at[j] < at[k - 1] /\ at[k - 1] < at[k] /\ at[k - 1] \in Int
      BY <1>5, <3>5
    <3> QED  BY <2>7, <3>1, <3>6
  <2>9. n - 1 = j + 2 /\ n - 1 \in 1..Len(b)
    BY <1>5, <1>7, <2>2, <2>8
  <2>10. b[n - 1] = r[j] /\ r[j] = buffer[o - 1]
    BY <1>5, <1>7, <2>7, <2>9
  <2> QED  BY <2>3, <2>4, <2>9, <2>10
<1>14. History(b, pending, nextId + 2, resets, repeated)
  BY <1>1, <1>7, <1>10, <1>11, <1>12, <1>13 DEF History
<1>15. UserCount(b) = UserCount(r) + 1
  <2>1. After(b, r, 2)
    BY <1>5, <1>7 DEF After, K
  <2>2. UserCount(b) = Cardinality({n \in 1..2 : IsUser(b[n])}) + UserCount(r)
    BY <1>3, <1>7, <2>1, CountTail
  <2>3. {n \in 1..2 : IsUser(b[n])} = {1}
    BY <1>6, <1>7 DEF IsUser
  <2>4. Cardinality({1}) = 1 /\ UserCount(r) \in Nat
    BY <1>3, CountType, FS_Singleton
  <2> QED  BY <2>2, <2>3, <2>4
<1>16. UserCount(b) <= 2 * Size + 1
  <2>1. UserCount(r) \in Nat /\ UserCount(buffer) \in Nat /\ 2 * Size \in Nat
    BY <1>1, <1>3, CountType, SizeAssumption
  <2>2. /\ UserCount(r) <= UserCount(buffer)
        /\ (\E n \in 1..L : IsUser(buffer[n]) /\ buffer[n] \in gone)
             => UserCount(r) < UserCount(buffer)
    BY <1>1, <1>3, <1>4, KeptCount DEF L
  <2>3. CASE UserCount(buffer) > 2 * Size
    <3>1. PICK n \in 1..L : IsUser(buffer[n]) /\ buffer[n].id \in w.markers
      BY <1>1, <2>3 DEF Relieves, L
    <3>2. buffer[n].kind # "call"
      BY <3>1 DEF IsUser
    <3>3. buffer[n] \in gone
      BY <1>1, <3>1, <3>2, DroppedItems DEF gone, L
    <3>4. UserCount(r) < UserCount(buffer)
      BY <2>2, <3>1, <3>3
    <3> QED  BY <1>1, <1>15, <2>1, <3>4
  <2>4. CASE ~(UserCount(buffer) > 2 * Size)
    BY <1>15, <2>1, <2>2, <2>4
  <2> QED  BY <2>3, <2>4
<1>17. ASSUME NEW n \in Latest(buffer) PROVE \E m \in 1..Len(b) : b[m] = buffer[n]
  <2>1. n \in 1..L /\ buffer[n].id \notin w.markers
    BY <1>1 DEF Latest, Fits, L
  <2>2. buffer[n] \notin gone
    BY <1>1, <2>1, DroppedItems DEF gone, L
  <2>3. PICK k \in 1..K : at[k] = n
    BY <1>5, <2>1, <2>2
  <2>4. k + 2 \in 1..Len(b) /\ b[k + 2] = buffer[n]
    BY <1>5, <1>7, <2>3
  <2> QED  BY <2>4
<1>18. ASSUME NEW n \in 1..Len(b)
       PROVE  (\E m \in 1..Len(buffer) : b[n] = buffer[m]) \/ Fresh(b[n])
  <2>1. CASE n = 1 \/ n = 2
    BY <1>1, <1>6, <1>7, <2>1 DEF Fresh
  <2>2. CASE ~(n = 1 \/ n = 2)
    <3>1. n - 2 \in 1..K /\ b[n] = r[n - 2]
      BY <1>7, <2>2
    <3>2. b[n] = buffer[at[n - 2]] /\ at[n - 2] \in 1..L
      BY <1>5, <3>1
    <3> QED  BY <3>2 DEF L
  <2> QED  BY <2>1, <2>2
<1> QED  BY <1>2, <1>14, <1>16, <1>17, <1>18

\* _apply_compaction, of a worker that may or may not.
LEMMA ApplyStep ==
  ASSUME HInv, NEW w \in workers, ApplyCompaction(w)
  PROVE  Sound
<1>1. /\ w.pc = "apply" /\ Goto(w, "finally") /\ w.pc # "finally"
      /\ UNCHANGED <<pending, gen, inFlight, closing, compactor, resets, repeated>>
  BY DEF ApplyCompaction
<1>2. CASE ~MayApply(w)
  <2>1. UNCHANGED <<buffer, userTurns, nextId>>
    BY <1>2 DEF ApplyCompaction
  <2>2. HInv'
    BY <1>1, <2>1, GoOnStep
  <2> QED  BY <1>1, <2>1, <2>2 DEF Sound, KeepsLatest, FromBefore, Latest
<1>3. CASE MayApply(w)
  <2>1. buffer' = Spliced(w).items /\ userTurns' = Spliced(w).turns /\ nextId' = nextId + 2
        /\ w.gen = gen
    BY <1>3 DEF ApplyCompaction, Store, MayApply, Current
  <2>2. /\ History(buffer', pending, nextId', resets, repeated)
        /\ userTurns' = UserCount(buffer') /\ UserCount(buffer') <= 2 * Size + 1
        /\ \A n \in Latest(buffer) : \E m \in 1..Len(buffer') : buffer'[m] = buffer[n]
        /\ \A n \in 1..Len(buffer') :
             (\E m \in 1..Len(buffer) : buffer'[n] = buffer[m]) \/ Fresh(buffer'[n])
    BY <1>1, <2>1, SpliceKeeps
  <2>3. PICK v : v = [w EXCEPT !.pc = "finally"]
    OBVIOUS
  <2>4. workers' = (workers \ {w}) \cup {v}
    BY <1>1, <2>3 DEF Goto
  <2>5. w \in WorkerType
    BY DEF HInv, TypeOK
  <2>6. v \in WorkerType /\ v.gen = w.gen /\ v.epoch = w.epoch /\ v.pc = "finally"
    BY <2>3, <2>5 DEF WorkerType
  <2>7. \A x \in workers : x.gen = gen => x = w
    BY <2>1 DEF HInv, OneCurrent
  <2>8. Snapshots'
    BY <1>1, <2>1, <2>4, <2>6, <2>7 DEF HInv, Snapshots
  <2>9. OneCurrent'
    BY <1>1, <2>4, <2>7 DEF OneCurrent
  <2>10. TypeOK'
    <3>1. buffer' \in Seq(ItemType) /\ userTurns' \in Nat /\ nextId' \in Nat
      BY <2>2, CountType DEF History
    <3> QED  BY <1>1, <2>4, <2>6, <3>1 DEF HInv, TypeOK
  <2>11. TurnCountExact' /\ Bounded' /\ History(buffer, pending, nextId, resets, repeated)'
    BY <1>1, <2>2 DEF TurnCountExact, Bounded
  <2>12. HInv'
    BY <2>8, <2>9, <2>10, <2>11 DEF HInv
  <2> QED  BY <1>1, <2>2, <2>12 DEF Sound, KeepsLatest, FromBefore
<1> QED  BY <1>2, <1>3

\* Steps that leave the buffer alone, or empty it.
LEMMA BufferKept ==
  ASSUME HInv', UNCHANGED <<buffer, pending>>
  PROVE  Sound
BY DEF Sound, KeepsLatest, FromBefore, Latest

\* A step of a worker thread.
LEMMA WorkStep == HInv /\ Work => Sound
<1> SUFFICES ASSUME HInv, NEW w \in workers,
                    WorkerStart(w) \/ Summarised(w) \/ ApplyCompaction(w) \/ WorkerEnd(w)
             PROVE  Sound
  BY DEF Work
<1>1. CASE WorkerStart(w)
  <2>1. PICK pc \in {"call", "finally"} : Goto(w, pc)
    BY <1>1 DEF WorkerStart
  <2>2. w.pc # "finally" /\ UNCHANGED <<buffer, pending, userTurns, gen, inFlight, closing,
                                         compactor, nextId, resets, repeated>>
    BY <1>1 DEF WorkerStart
  <2>3. HInv'
    BY <2>1, <2>2, GoOnStep
  <2> QED  BY <2>2, <2>3, BufferKept
<1>2. CASE Summarised(w)
  <2>1. PICK pc \in {"apply", "finally"} : Goto(w, pc)
    BY <1>2 DEF Summarised
  <2>2. w.pc # "finally" /\ UNCHANGED <<buffer, pending, userTurns, gen, inFlight, closing,
                                         compactor, nextId, resets, repeated>>
    BY <1>2 DEF Summarised
  <2>3. HInv'
    BY <2>1, <2>2, GoOnStep
  <2> QED  BY <2>2, <2>3, BufferKept
<1>3. CASE ApplyCompaction(w)
  BY <1>3, ApplyStep
<1>4. CASE WorkerEnd(w)
  <2>1. HInv' /\ UNCHANGED <<buffer, pending>>
    BY <1>4, WorkerEndStep DEF WorkerEnd
  <2> QED  BY <2>1, BufferKept
<1> QED  BY <1>1, <1>2, <1>3, <1>4

\* An empty history.
LEMMA HInitially == Init => HInv
<1> SUFFICES ASSUME Init PROVE HInv
  OBVIOUS
<1>1. /\ << >> \in Seq(ItemType) /\ Len(<< >>) = 0 /\ Users(<< >>) = {} /\ \A n \in 1..0 : FALSE
  BY DEF Users
<1>2. UserCount(<< >>) = 0
  BY <1>1, CountType
<1>3. /\ buffer = << >> /\ pending = {} /\ userTurns = 0 /\ nextId = 1 /\ resets = 0
      /\ repeated = FALSE /\ workers = {} /\ compactor \in BOOLEAN /\ inFlight = FALSE
      /\ gen = 0 /\ closing = "open"
  BY DEF Init
<1>4. History(<< >>, {}, 1, 0, FALSE)
  BY <1>1 DEF History, Numbered, Waiting, FromEpoch, Adjacent
<1>5. TypeOK
  <2>1. userTurns \in Nat /\ gen \in Nat /\ nextId \in Nat /\ resets \in Nat
    BY <1>3
  <2>2. inFlight \in BOOLEAN /\ compactor \in BOOLEAN /\ repeated \in BOOLEAN
    BY <1>3
  <2>3. buffer \in Seq(ItemType) /\ pending \subseteq ItemType /\ workers \subseteq WorkerType
    BY <1>1, <1>3
  <2> QED  BY <1>3, <2>1, <2>2, <2>3 DEF TypeOK
<1>6. TurnCountExact /\ Bounded
  BY <1>2, <1>3, SizeAssumption DEF TurnCountExact, Bounded
<1>7. Snapshots /\ OneCurrent
  BY <1>3 DEF Snapshots, OneCurrent
<1> QED  BY <1>3, <1>4, <1>5, <1>6, <1>7 DEF HInv

\* Every step keeps the invariant, the latest turn and the origin of items.
LEMMA HNext == HInv /\ [Next]_vars => Sound
<1> SUFFICES ASSUME HInv, [Next]_vars PROVE Sound
  OBVIOUS
<1>1. CASE UNCHANGED vars
  <2>1. HInv' /\ UNCHANGED <<buffer, pending>>
    BY <1>1 DEF vars, HInv, TypeOK, TurnCountExact, Bounded, Snapshots, OneCurrent
  <2> QED  BY <2>1, BufferKept
<1>2. CASE AddUser \/ AddAssistant
  BY <1>2, AddUserStep, AddAssistantStep
<1>3. CASE \E c \in Calls : AddCall(c) \/ AddOutput(c)
  BY <1>3, AddCallStep, AddOutputStep
<1>4. CASE Evict
  BY <1>4, EvictStep
<1>5. CASE TriggerCompaction
  <2>1. HInv' /\ UNCHANGED <<buffer, pending>>
    BY <1>5, TriggerStep DEF TriggerCompaction
  <2> QED  BY <2>1, BufferKept
<1>6. CASE Work
  BY <1>6, WorkStep
<1>7. CASE Reset
  <2>1. HInv' /\ buffer' = << >> /\ pending' = {} /\ resets' = resets + 1
    BY <1>7, ResetStep DEF Reset
  <2>2. resets' # resets
    BY <2>1 DEF HInv, TypeOK
  <2>3. \A n \in 1..Len(<< >>) : FALSE
    OBVIOUS
  <2>4. FromBefore
    BY <2>1, <2>3 DEF FromBefore
  <2> QED  BY <2>1, <2>2, <2>4 DEF Sound
<1>8. CASE CloseBegin \/ CloseEnd
  <2>1. HInv' /\ UNCHANGED <<buffer, pending>>
    BY <1>8, CloseStep DEF CloseBegin, CloseEnd
  <2> QED  BY <2>1, BufferKept
<1> QED  BY <1>1, <1>2, <1>3, <1>4, <1>5, <1>6, <1>7, <1>8 DEF Next

-----------------------------------------------------------------------------
(* What follows from it. *)

\* An output next to its call comes after it.
LEMMA HistoryIsSound == HInv => HistorySound
<1> SUFFICES ASSUME HInv PROVE HistorySound
  OBVIOUS
<1>1. buffer \in Seq(ItemType) /\ DOMAIN buffer = 1..Len(buffer) /\ Len(buffer) \in Nat
      /\ (~repeated => Adjacent(buffer))
  BY DEF HInv, History
<1>2. Paired
  <2> SUFFICES ASSUME ~repeated, NEW n \in 1..Len(buffer), buffer[n].kind = "output"
               PROVE  \E m \in 1..(n - 1) : buffer[m].kind = "call" /\ buffer[m].call = buffer[n].call
    BY <1>1 DEF Paired
  <2>1. n - 1 \in 1..Len(buffer) /\ buffer[n - 1].kind = "call" /\ buffer[n - 1].call = buffer[n].call
    BY <1>1 DEF Adjacent
  <2>2. n - 1 \in 1..(n - 1)
    BY <2>1
  <2> QED  BY <2>1, <2>2
<1> QED  BY <1>2 DEF HInv, HistorySound

\* No two current workers, and nothing of an earlier epoch.
LEMMA SplicesDoFit == HInv => SplicesFit
<1> SUFFICES ASSUME HInv PROVE SplicesFit
  OBVIOUS
<1>1. SingleFlight
  <2> DEFINE C == {w \in workers : w.gen = gen}
  <2>1. \A v, w \in C : v = w
    BY DEF HInv, OneCurrent
  <2>2. C = {} \/ \E w : C = {w}
    <3>1. CASE C = {}
      BY <3>1
    <3>2. CASE C # {}
      <4>1. PICK w \in C : TRUE
        BY <3>2
      <4>2. C = {w}
        BY <2>1, <4>1
      <4> QED  BY <4>2
    <3> QED  BY <3>1, <3>2
  <2> HIDE DEF C
  <2>3. Cardinality(C) \in {0, 1}
    <3>1. CASE C = {}
      <4>1. Cardinality(C) = 0
        BY <3>1, FS_EmptySet
      <4> QED  BY <4>1
    <3>2. CASE \E w : C = {w}
      <4>1. Cardinality(C) = 1
        BY <3>2, FS_Singleton
      <4> QED  BY <4>1
    <3> QED  BY <2>2, <3>1, <3>2
  <2>4. Cardinality(C) <= 1
    BY <2>3
  <2> QED  BY <2>4 DEF C, SingleFlight
<1>2. NoResurrection
  <2>1. DOMAIN buffer = 1..Len(buffer)
    BY DEF HInv, History
  <2> QED  BY <2>1 DEF HInv, History, FromEpoch, NoResurrection
<1> QED  BY <1>1, <1>2 DEF SplicesFit

\* Only a reset takes the latest turn.
LEMMA LatestTurnStays ==
  ASSUME HInv, Sound, resets' = resets
  PROVE  LatestTurn \subseteq ToSet(buffer')
<1> DEFINE users == {n \in DOMAIN buffer : IsUser(buffer[n])}
<1>1. /\ buffer \in Seq(ItemType) /\ DOMAIN buffer = 1..Len(buffer) /\ Len(buffer) \in Nat
      /\ buffer' \in Seq(ItemType) /\ DOMAIN (buffer') = 1..Len(buffer')
  BY DEF HInv, Sound, History
<1>2. CASE users = {}
  BY <1>2 DEF LatestTurn
<1>3. CASE users # {}
  <2>1. users \in SUBSET (1..Len(buffer))
    BY <1>1
  <2>2. Max(users) \in users /\ \A n \in users : n <= Max(users)
    BY <1>1, <1>3, <2>1, Greatest
  <2>3. PICK top \in 1..Len(buffer) : top = Max(users)
    BY <2>1, <2>2
  <2>4. LatestTurn = {buffer[n] : n \in top..Len(buffer)}
    BY <1>3, <2>3 DEF LatestTurn
  <2>5. IsUser(buffer[top]) /\ \A m \in 1..Len(buffer) : IsUser(buffer[m]) => m <= top
    BY <1>1, <2>2, <2>3
  <2>6. ASSUME NEW n \in top..Len(buffer) PROVE buffer[n] \in ToSet(buffer')
    <3>1. n \in 1..Len(buffer) /\ \A m \in 1..Len(buffer) : IsUser(buffer[m]) => m <= n
      BY <1>1, <2>3, <2>5
    <3>2. n \in Latest(buffer)
      BY <2>3, <2>5, <3>1 DEF Latest
    <3>3. PICK m \in 1..Len(buffer') : buffer'[m] = buffer[n]
      BY <3>2 DEF Sound, KeepsLatest
    <3> QED  BY <1>1, <3>3 DEF ToSet
  <2> QED  BY <2>4, <2>6
<1> QED  BY <1>2, <1>3

\* The inductive invariant of the history.
THEOREM Invariance == Spec => []HInv
<1>1. HInv /\ [Next]_vars => HInv'
  BY HNext DEF Sound
<1> QED  BY <1>1, HInitially, PTL DEF Spec

\* The turn counter of Chat is exact, no output is without its call before it
\* unless the client answered a call twice, and the history is bounded by its
\* cap, through additions, evictions and splices (chat.py).
THEOREM SoundHistory == Spec => []HistorySound
BY Invariance, HistoryIsSound, PTL

\* One compaction is under way at a time, and what a worker of before a reset or
\* a close summarised never comes back (chat.py, _compact_worker).
THEOREM FittingSplices == Spec => []SplicesFit
BY Invariance, SplicesDoFit, PTL

\* Neither an eviction nor a compaction takes anything of the latest turn
\* (chat.py, trim_if_needed and _apply_compaction).
THEOREM LatestTurnIsKept == Spec => LatestTurnKept
<1>1. HInv /\ [Next]_vars => [resets' = resets => LatestTurn \subseteq ToSet(buffer')]_vars
  BY HNext, LatestTurnStays
<1> QED  BY <1>1, Invariance, PTL DEF Spec, LatestTurnKept

-----------------------------------------------------------------------------
(* Generations. *)

\* A picture is a user message of the history, or gone from it.
PicturesFit ==
  /\ pictures \subseteq Ids(nextId)
  /\ \A n \in 1..Len(buffer) : buffer[n].id \in pictures => IsUser(buffer[n])
  /\ \A k \in pending : k.id \notin pictures

\* What has been shown is forgotten when the generation ends.
ShownOnce == llm.pc # "stream" => shown = {}

DInv == HInv /\ DialogueTypeOK /\ PromptPaired /\ PicturesFit /\ ShownOnce

\* No step of the history takes an identifier back, or an answer given twice.
LEMMA Monotone ==
  ASSUME HInv, [Next]_vars
  PROVE  nextId <= nextId' /\ nextId \in Nat /\ (repeated => repeated')
<1>1. nextId \in Nat /\ repeated \in BOOLEAN
  BY DEF HInv, TypeOK
<1>2. /\ nextId' \in {nextId, nextId + 1, nextId + 2}
      /\ repeated' = repeated \/ \E c \in Calls : repeated' = (repeated \/ HasCall(c))
  BY DEF Next, vars, AddUser, AddAssistant, AddCall, AddOutput, Evict, TriggerCompaction, Work,
         WorkerStart, Summarised, ApplyCompaction, WorkerEnd, Reset, CloseBegin, CloseEnd
<1>3. repeated => repeated'
  BY <1>1, <1>2
<1> QED  BY <1>1, <1>2, <1>3

\* A step of the history, a new picture or not.
LEMMA PicturesStep ==
  ASSUME HInv, PicturesFit, [Next]_vars,
         pictures' = pictures \/ (AddUser /\ pictures' = pictures \cup {nextId})
  PROVE  PicturesFit'
<1>1. HInv' /\ FromBefore /\ nextId <= nextId' /\ nextId \in Nat /\ nextId' \in Nat
  BY HNext, Monotone DEF Sound, HInv, TypeOK
<1>2. nextId \notin Ids(nextId) /\ \A n \in Ids(nextId) : n \in Ids(nextId')
  <2>1. \A a, b \in Nat : a <= b => a \notin Ids(a) /\ \A n \in Ids(a) : n \in Ids(b)
    BY DEF Ids
  <2> QED  BY <1>1, <2>1
<1>3. \A i : Fresh(i) => i.id \notin Ids(nextId)
  <2>1. \A j \in Nat : nextId <= j => j \notin Ids(nextId)
    BY <1>1 DEF Ids
  <2> QED  BY <2>1 DEF Fresh
<1>4. /\ \A n \in 1..Len(buffer') : buffer'[n].id \in pictures => IsUser(buffer'[n])
      /\ \A k \in pending' : k.id \notin pictures
  <2>1. \A i : Fresh(i) => i.id \notin pictures
    BY <1>3 DEF PicturesFit
  <2>2. ASSUME NEW n \in 1..Len(buffer'), buffer'[n].id \in pictures
        PROVE  IsUser(buffer'[n])
    <3>1. CASE \E m \in 1..Len(buffer) : buffer'[n] = buffer[m]
      <4>1. PICK m \in 1..Len(buffer) : buffer'[n] = buffer[m]
        BY <3>1
      <4>2. buffer[m].id \in pictures
        BY <2>2, <4>1
      <4>3. IsUser(buffer[m])
        BY <4>2 DEF PicturesFit
      <4> QED  BY <4>1, <4>3
    <3>2. buffer'[n] \notin pending /\ ~Fresh(buffer'[n])
      BY <2>1, <2>2 DEF PicturesFit
    <3> QED  BY <1>1, <3>1, <3>2 DEF FromBefore
  <2>3. \A k \in pending' : k.id \notin pictures
    BY <1>1, <2>1 DEF PicturesFit, FromBefore
  <2> QED  BY <2>2, <2>3
<1>5. CASE pictures' = pictures
  BY <1>2, <1>4, <1>5 DEF PicturesFit
<1>6. CASE AddUser /\ pictures' = pictures \cup {nextId}
  <2>1. nextId' = nextId + 1 /\ pending' = pending
    BY <1>6 DEF AddUser
  <2>2. nextId \in Ids(nextId')
    <3>1. nextId # 0
      BY DEF HInv, History
    <3> QED  BY <1>1, <2>1, <3>1 DEF Ids
  <2>3. \A k \in pending' : k.id # nextId
    BY <1>2, <2>1 DEF HInv, History, Numbered
  <2>4. ASSUME NEW n \in 1..Len(buffer'), buffer'[n].id = nextId PROVE IsUser(buffer'[n])
    <3> DEFINE i == Item("user", NoCall)
               b == buffer \o <<i>>
    <3>1. /\ buffer \in Seq(ItemType) /\ userTurns = UserCount(buffer) /\ userTurns \in Nat
          /\ resets \in Nat /\ Len(buffer) \in Nat
      BY DEF HInv, TypeOK, TurnCountExact
    <3>2. i \in ItemType /\ i.kind = "user"
      BY <1>1, <3>1 DEF Item, ItemType
    <3> HIDE DEF i
    <3>3. b = Append(buffer, i)
      BY <3>1, <3>2
    <3>4. b \in Seq(ItemType) /\ UserCount(b) = userTurns + 1
      <4>1. IsUser(i)
        BY <3>2 DEF IsUser
      <4>2. UserCount(Append(buffer, i)) = UserCount(buffer) + (IF IsUser(i) THEN 1 ELSE 0)
        BY <3>1, <3>2, CountAppend
      <4>3. UserCount(b) = userTurns + 1
        <5> HIDE DEF b
        <5> QED  BY <3>1, <3>3, <4>1, <4>2
      <4> QED  BY <3>1, <3>2, <3>3, <4>3
    <3>5. Len(b) = Len(buffer) + 1 /\ b[Len(buffer) + 1] = i
          /\ \A m \in 1..Len(buffer) : b[m] = buffer[m]
      BY <3>1, <3>2
    <3> DEFINE h == [items |-> b, turns |-> userTurns + 1]
    <3>6. Counted(h) /\ h.items = b
      <4> HIDE DEF b
      <4> QED  BY <3>4 DEF Counted
    <3>7. buffer' = HardCap(h).items
      BY <1>6 DEF AddUser, Extend, Store, i
    <3> HIDE DEF h, b
    <3>8. Evicted(b, buffer')
      BY <3>6, <3>7, HardCapLimit
    <3>9. PICK d \in 0..Len(b) : After(b, buffer', d)
      BY <3>8 DEF Evicted
    <3>10. n + d \in 1..Len(b) /\ buffer'[n] = b[n + d]
      BY <3>1, <3>5, <3>9 DEF After
    <3>11. CASE n + d \in 1..Len(buffer)
      BY <1>2, <2>4, <3>5, <3>10, <3>11 DEF HInv, History, Numbered
    <3>12. CASE n + d = Len(buffer) + 1
      BY <3>2, <3>5, <3>10, <3>12 DEF IsUser
    <3> QED  BY <3>1, <3>5, <3>10, <3>11, <3>12
  <2> QED  BY <1>2, <1>4, <1>6, <2>2, <2>3, <2>4 DEF PicturesFit
<1> QED  BY <1>5, <1>6

\* Eviction keeps outputs next to their calls, in any sequence.
LEMMA EvictedAdjacent ==
  ASSUME NEW s \in Seq(ItemType), NEW t \in Seq(ItemType), Adjacent(s), Evicted(s, t)
  PROVE  Adjacent(t)
<1>1. PICK d \in 0..Len(s) : After(s, t, d) /\ (d = 0 \/ d = Len(s) \/ IsUser(s[d + 1]))
  BY DEF Evicted
<1>2. /\ Len(s) \in Nat /\ Len(t) \in Nat /\ Len(t) = Len(s) - d /\ d \in Nat
      /\ \A n \in 1..Len(t) : n + d \in 1..Len(s) /\ t[n] = s[n + d]
  BY <1>1 DEF After
<1>3. ASSUME NEW n \in 1..Len(t), t[n].kind = "output"
      PROVE  n - 1 \in 1..Len(t) /\ t[n - 1].kind = "call" /\ t[n - 1].call = t[n].call
  <2>1. /\ (n + d) - 1 \in 1..Len(s) /\ t[n] = s[n + d] /\ s[(n + d) - 1].kind = "call"
        /\ s[(n + d) - 1].call = t[n].call
    BY <1>2, <1>3, SMTT(30) DEF Adjacent
  <2>2. n # 1
    <3> SUFFICES ASSUME n = 1 PROVE FALSE
      OBVIOUS
    <3>1. d # 0 /\ d # Len(s) /\ n + d = d + 1
      BY <1>2, <2>1
    <3>2. IsUser(t[n])
      BY <1>1, <2>1, <3>1
    <3> QED  BY <1>3, <3>2 DEF IsUser
  <2>3. n - 1 \in 1..Len(t) /\ (n - 1) + d = (n + d) - 1
    BY <1>2, <2>2
  <2> QED  BY <1>2, <2>1, <2>3
<1> QED  BY <1>3 DEF Adjacent

\* The copy a prompt is made of.
LEMMA CloneFits ==
  ASSUME DInv, NEW hinted \in BOOLEAN, NEW s, s = Clone(hinted).items
  PROVE  /\ s \in Seq(ItemType) /\ (~repeated => Adjacent(s))
         /\ \A n \in 1..Len(s) : s[n].id \in pictures => IsUser(s[n])
<1>1. /\ buffer \in Seq(ItemType) /\ Len(buffer) \in Nat /\ resets \in Nat
      /\ userTurns = UserCount(buffer) /\ userTurns \in Nat
      /\ ~repeated => Adjacent(buffer)
      /\ \A n \in 1..Len(buffer) : buffer[n].id \in pictures => IsUser(buffer[n])
  BY DEF DInv, HInv, History, TypeOK, TurnCountExact, PicturesFit
<1>2. CASE ~hinted
  <2>1. s = buffer
    BY <1>2 DEF Clone, Now
  <2> QED  BY <1>1, <2>1
<1>3. CASE hinted
  <2> DEFINE b == Append(buffer, Hint)
             h == [items |-> b, turns |-> userTurns + 1]
  <2>1. Hint \in ItemType /\ Hint.kind = "user"
    BY <1>1 DEF Hint, ItemType
  <2>2. /\ b \in Seq(ItemType) /\ Len(b) = Len(buffer) + 1 /\ b[Len(buffer) + 1] = Hint
        /\ \A n \in 1..Len(buffer) : b[n] = buffer[n]
    BY <1>1, <2>1
  <2>3. userTurns + 1 = UserCount(b)
    BY <1>1, <2>1, CountAppend DEF IsUser
  <2>4. s = HardCap(h).items
    BY <1>3 DEF Clone
  <2> HIDE DEF b
  <2>5. Counted(h) /\ h.items = b
    BY <2>2, <2>3 DEF Counted
  <2> HIDE DEF h
  <2>6. Evicted(b, s) /\ s \in Seq(ItemType)
    BY <2>4, <2>5, HardCapLimit DEF Counted
  <2>7. \A n \in 1..Len(b) : n \in 1..Len(buffer) \/ n = Len(buffer) + 1
    BY <1>1, <2>2
  <2>8. ~repeated => Adjacent(b)
    <3> SUFFICES ASSUME ~repeated, NEW n \in 1..Len(b), b[n].kind = "output"
                 PROVE  n - 1 \in 1..Len(b) /\ b[n - 1].kind = "call" /\ b[n - 1].call = b[n].call
      BY DEF Adjacent
    <3>1. n \in 1..Len(buffer) /\ b[n] = buffer[n]
      BY <2>1, <2>2, <2>7
    <3>2. n - 1 \in 1..Len(buffer) /\ buffer[n - 1].kind = "call" /\ buffer[n - 1].call = b[n].call
      BY <1>1, <3>1 DEF Adjacent
    <3> QED  BY <1>1, <2>2, <3>2
  <2>9. \A n \in 1..Len(b) : b[n].id \in pictures => IsUser(b[n])
    BY <1>1, <2>1, <2>2, <2>7 DEF IsUser
  <2>10. PICK d \in 0..Len(b) : After(b, s, d)
    BY <2>6 DEF Evicted
  <2>11. \A n \in 1..Len(s) : n + d \in 1..Len(b) /\ s[n] = b[n + d]
    BY <1>1, <2>2, <2>10 DEF After
  <2> QED  BY <2>2, <2>6, <2>8, <2>9, <2>11, EvictedAdjacent
<1> QED  BY <1>2, <1>3

\* The prompt: no output without its call before it, no picture that is gone.
\* What a prompt must be, whatever the hint did to the copy.
PromptFit(p) ==
  /\ p \in Seq(ItemType) /\ Pictured(p) \subseteq images
  /\ ~repeated => \A n \in DOMAIN p : p[n].kind = "output" =>
       \E m \in 1..(n - 1) : p[m].kind = "call" /\ p[m].call = p[n].call

\* The copy that is sent, hinted and without the messages that lost their image.
LEMMA PromptFits ==
  ASSUME DInv, NEW hinted \in BOOLEAN, NEW p, p = Serialized(Clone(hinted).items)
  PROVE  PromptFit(p)
<1>1. PICK s : s = Clone(hinted).items
  OBVIOUS
<1> DEFINE gone == {i \in ToSet(s) : i.id \in pictures \ images}
<1>2. /\ s \in Seq(ItemType) /\ (~repeated => Adjacent(s)) /\ Len(s) \in Nat
      /\ DOMAIN s = 1..Len(s)
      /\ \A n \in 1..Len(s) : s[n].id \in pictures => IsUser(s[n])
  BY <1>1, CloneFits
<1>3. p = Without(s, gone)
  BY <1>1 DEF Serialized
<1>4. \A n \in 1..Len(s) : s[n] \in gone <=> s[n].id \in pictures \ images
  BY <1>2 DEF ToSet
<1> HIDE DEF gone
<1>5. p \in Seq(ItemType) /\ \E at : Picks(s, Len(s), gone, p, at)
  BY <1>2, <1>3, WithoutPicks
<1>6. PICK at : Picks(s, Len(s), gone, p, at)
  BY <1>5
<1>7. /\ DOMAIN p = 1..Len(p) /\ Len(p) \in Nat /\ at \in [1..Len(p) -> 1..Len(s)]
      /\ \A j, k \in 1..Len(p) : j < k => at[j] < at[k]
      /\ \A k \in 1..Len(p) : p[k] = s[at[k]] /\ p[k] \notin gone
      /\ \A n \in 1..Len(s) : s[n] \notin gone => \E k \in 1..Len(p) : at[k] = n
  BY <1>5, <1>6 DEF Picks
<1>8. Pictured(p) \subseteq images
  <2>1. \A k \in 1..Len(p) : p[k].id \notin pictures \ images
    BY <1>4, <1>7
  <2> QED  BY <1>7, <2>1 DEF Pictured, ToSet
<1>9. ASSUME ~repeated, NEW n \in 1..Len(p), p[n].kind = "output"
      PROVE  \E m \in 1..(n - 1) : p[m].kind = "call" /\ p[m].call = p[n].call
  <2> DEFINE o == at[n]
  <2>1. o \in 1..Len(s) /\ p[n] = s[o]
    BY <1>7
  <2>2. o - 1 \in 1..Len(s) /\ s[o - 1].kind = "call" /\ s[o - 1].call = s[o].call
    BY <1>2, <1>9, <2>1 DEF Adjacent
  <2>3. s[o - 1] \notin gone
    BY <1>2, <1>4, <2>2 DEF IsUser
  <2>4. PICK m \in 1..Len(p) : at[m] = o - 1
    BY <1>7, <2>2, <2>3
  <2>5. ~(n < m) /\ m # n
    <3>1. ~(o < o - 1) /\ o # o - 1
      BY <2>1
    <3> QED  BY <1>7, <2>4, <3>1
  <2>6. m \in 1..(n - 1)
    BY <1>7, <2>5
  <2>7. p[m] = s[o - 1]
    BY <1>7, <2>4
  <2> QED  BY <2>1, <2>2, <2>6, <2>7
<1> QED  BY <1>5, <1>7, <1>8, <1>9 DEF PromptFit

\* No generation, no picture.
LEMMA DInitially == DialogueInit => DInv
<1> SUFFICES ASSUME DialogueInit PROVE DInv
  OBVIOUS
<1>1. /\ Init /\ asked = 0 /\ answered = 0 /\ llm = [pc |-> "idle", prompt |-> << >>]
      /\ pictures = {} /\ images = {} /\ shown = {}
  BY DEF DialogueInit, Resting
<1>2. HInv
  BY <1>1, HInitially
<1>3. << >> \in Seq(ItemType) /\ DOMAIN << >> = {} /\ 0 \in 0..MaxRequests /\ 0 \in 0..0
  BY RequestsAssumption
<1>4. DialogueTypeOK
  BY <1>1, <1>2, <1>3 DEF DialogueTypeOK, HInv
<1>5. PromptPaired /\ PicturesFit /\ ShownOnce
  BY <1>1, <1>3 DEF PromptPaired, PicturesFit, ShownOnce
<1> QED  BY <1>2, <1>4, <1>5 DEF DInv

\* A step that leaves the LLM thread where it is.
LEMMA HistoryStep ==
  ASSUME DInv, [Next]_vars, UNCHANGED <<asked, answered, llm, shown>>,
         \/ UNCHANGED <<pictures, images>>
         \/ AddUser /\ pictures' = pictures \cup {nextId} /\ images' = images \cup {nextId}
  PROVE  DInv'
<1>1. HInv' /\ (repeated => repeated') /\ nextId \in Nat
  BY HNext, Monotone DEF Sound, DInv
<1>2. PicturesFit'
  BY PicturesStep DEF DInv
<1>3. DialogueTypeOK'
  BY <1>1 DEF DInv, HInv, DialogueTypeOK
<1>4. PromptPaired'
  BY <1>1 DEF DInv, PromptPaired
<1>5. ShownOnce'
  BY DEF DInv, ShownOnce
<1> QED  BY <1>1, <1>2, <1>3, <1>4, <1>5 DEF DInv

\* A step of the LLM thread or of the queue that leaves the history alone.
LEMMA HistoryAlone ==
  ASSUME DInv, UNCHANGED vars, pictures' = pictures
  PROVE  HInv' /\ PicturesFit' /\ TypeOK'
BY DEF DInv, vars, HInv, TypeOK, TurnCountExact, Bounded, Snapshots, OneCurrent, PicturesFit

\* The LLM thread takes a request and sends a prompt.
LEMMA TakeRequestStep == DInv /\ TakeRequest => DInv'
<1> SUFFICES ASSUME DInv, TakeRequest PROVE DInv'
  OBVIOUS
<1>1. PICK hinted \in BOOLEAN :
        llm' = [pc |-> "stream", prompt |-> Serialized(Clone(hinted).items)]
  BY DEF TakeRequest
<1>2. PICK p : p = Serialized(Clone(hinted).items)
  OBVIOUS
<1>3. /\ llm' = [pc |-> "stream", prompt |-> p] /\ llm'.prompt = p /\ llm'.pc = "stream"
      /\ answered < asked /\ answered' = answered + 1 /\ shown' = shown \cup Pictured(p)
      /\ UNCHANGED <<vars, asked, pictures, images>> /\ repeated' = repeated
  BY <1>1, <1>2 DEF TakeRequest, vars
<1>4. PromptFit(p)
  BY <1>2, PromptFits
<1>5. HInv' /\ PicturesFit' /\ TypeOK'
  BY <1>3, HistoryAlone
<1>6. answered' \in 0..asked
  BY <1>3, RequestsAssumption DEF DInv, DialogueTypeOK
<1>7. llm' \in [pc : {"idle", "stream", "trim"}, prompt : Seq(ItemType)]
  BY <1>3, <1>4 DEF PromptFit
<1>8. DialogueTypeOK'
  BY <1>3, <1>4, <1>5, <1>6, <1>7 DEF PromptFit, DInv, DialogueTypeOK
<1>9. PromptPaired'
  BY <1>3, <1>4 DEF PromptFit, PromptPaired
<1>10. ShownOnce'
  BY <1>3 DEF ShownOnce
<1> QED  BY <1>5, <1>8, <1>9, <1>10 DEF DInv

\* strip_images.
LEMMA StripImagesStep == DInv /\ StripImages => DInv'
<1> SUFFICES ASSUME DInv, StripImages PROVE DInv'
  OBVIOUS
<1>1. /\ llm' = [pc |-> "trim", prompt |-> << >>] /\ images' = {} /\ shown' = {}
      /\ UNCHANGED <<vars, asked, answered, pictures>>
  BY DEF StripImages, Stripped
<1>2. llm' \in [pc : {"idle", "stream", "trim"}, prompt : Seq(ItemType)]
      /\ llm'.prompt = << >> /\ DOMAIN << >> = {}
  BY <1>1
<1>3. HInv' /\ PicturesFit' /\ TypeOK'
  BY <1>1, HistoryAlone
<1>4. DialogueTypeOK'
  BY <1>1, <1>2, <1>3 DEF DInv, DialogueTypeOK
<1>5. PromptPaired'
  BY <1>2 DEF PromptPaired
<1>6. ShownOnce'
  BY <1>1 DEF ShownOnce
<1> QED  BY <1>3, <1>4, <1>5, <1>6 DEF DInv

\* trim_if_needed, at the end of a generation.
LEMMA TrimStep == DInv /\ Trim => DInv'
<1> SUFFICES ASSUME DInv, Trim PROVE DInv'
  OBVIOUS
<1>1. /\ llm.pc = "trim" /\ llm' = [pc |-> "idle", prompt |-> << >>]
      /\ UNCHANGED <<asked, answered, pictures, images, shown>>
  BY DEF Trim, Resting
<1>2. [Next]_vars
  BY DEF Trim, Next
<1>3. HInv' /\ PicturesFit'
  BY <1>1, <1>2, HNext, PicturesStep DEF Sound, DInv
<1>4. llm' \in [pc : {"idle", "stream", "trim"}, prompt : Seq(ItemType)]
      /\ llm'.prompt = << >> /\ DOMAIN << >> = {} /\ shown' = {}
  BY <1>1 DEF DInv, ShownOnce
<1>5. DialogueTypeOK'
  BY <1>1, <1>3, <1>4 DEF DInv, HInv, DialogueTypeOK
<1>6. PromptPaired' /\ ShownOnce'
  BY <1>4 DEF PromptPaired, ShownOnce
<1> QED  BY <1>3, <1>5, <1>6 DEF DInv

\* Every step of a dialogue is a step of its history, or leaves it alone.
LEMMA OnHistory == DialogueNext => [Next]_vars
BY DEF DialogueNext, AddItem, AddPicture, Ask, Generation, TakeRequest, StripImages, Trim,
       Background, Next

\* Every step keeps the invariant.
LEMMA DNext == DInv /\ [DialogueNext]_dialogueVars => DInv'
<1> SUFFICES ASSUME DInv, [DialogueNext]_dialogueVars PROVE DInv'
  OBVIOUS
<1>1. CASE UNCHANGED dialogueVars
  BY <1>1, HistoryStep DEF dialogueVars, dialogue
<1>2. CASE AddItem \/ Background
  <2>1. [Next]_vars /\ UNCHANGED dialogue
    BY <1>2, OnHistory DEF DialogueNext, AddItem, Background
  <2> QED  BY <2>1, HistoryStep DEF dialogue
<1>3. CASE AddPicture
  <2>1. [Next]_vars
    BY <1>3, OnHistory DEF DialogueNext
  <2> QED  BY <1>3, <2>1, HistoryStep DEF AddPicture
<1>4. CASE Ask
  <2>1. /\ asked < MaxRequests /\ asked' = asked + 1
        /\ UNCHANGED <<vars, answered, llm, pictures, images, shown>> /\ repeated' = repeated
    BY <1>4 DEF Ask, vars
  <2>2. HInv' /\ PicturesFit' /\ TypeOK'
    BY <2>1, HistoryAlone
  <2>3. answered' \in 0..asked' /\ asked' \in 0..MaxRequests
    BY <2>1, RequestsAssumption DEF DInv, DialogueTypeOK
  <2>4. DialogueTypeOK' /\ PromptPaired' /\ ShownOnce'
    BY <2>1, <2>2, <2>3 DEF DInv, DialogueTypeOK, PromptPaired, ShownOnce
  <2> QED  BY <2>2, <2>4 DEF DInv
<1>5. CASE Generation
  BY <1>5, TakeRequestStep, StripImagesStep, TrimStep DEF Generation
<1> QED  BY <1>1, <1>2, <1>3, <1>4, <1>5 DEF DialogueNext

\* The inductive invariant of generations over the history.
THEOREM DialogueInvariance == DialogueSpec => []DInv
BY DInitially, DNext, PTL DEF DialogueSpec

\* No prompt has an output without its call before it, unless the client
\* answered a call twice, though the hint may evict a turn from the copy
\* (responses_api_language_model.py, process).
THEOREM SoundPrompts == DialogueSpec => []PromptSound
<1>1. DInv => PromptSound
  BY DEF DInv, PromptSound
<1> QED  BY <1>1, DialogueInvariance, PTL

\* An image is in the prompt of one generation at most, whatever becomes of it
\* (chat.py, strip_images).
THEOREM ImagesShownOnce == DialogueSpec => ImagesOnce
<1>1. DInv /\ [DialogueNext]_dialogueVars =>
        [llm.pc = "idle" /\ llm'.pc = "stream" => Pictured(llm'.prompt) \cap shown = {}]_dialogueVars
  BY DEF DInv, ShownOnce
<1> QED  BY <1>1, DialogueInvariance, PTL DEF DialogueSpec, ImagesOnce
=============================================================================
