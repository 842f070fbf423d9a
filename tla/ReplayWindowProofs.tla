------------------------- MODULE ReplayWindowProofs -------------------------
(***************************************************************************)
(* Proofs about ReplayWindow: counters are sealed once, the bitmap is      *)
(* exact, the bounded cache is consistent, and the whole implements        *)
(* RecordChannel, for every number of senders and goroutines and every     *)
(* window size, cache size and counter width.                              *)
(***************************************************************************)
EXTENDS ReplayWindow, FiniteSetTheorems, TLAPS

\* A sender that is not in the cache has nothing remembered of it.
ForgottenSendersAreBlank ==
    \A s \in Senders : s \notin senders => Delivered(s) = {}

\* Only sealed records are delivered.
DeliveredWereSealed == \A s \in Senders : Delivered(s) \subseteq Sealed(s)

SendInv == TypeOK /\ CountersAreUnique

CacheInv == CacheIsConsistent /\ IsFiniteSet(senders)

WindowInv == WindowIsExact /\ ForgottenSendersAreBlank /\ DeliveredWereSealed

Inv == SendInv /\ CacheInv /\ WindowInv

-----------------------------------------------------------------------------
(* The list of senders *)

\* Moving an element of a list without duplicates to the front keeps the list a
\* permutation of what it was.
LEMMA MoveToFrontPermutes ==
    ASSUME NEW S, NEW q \in Seq(S), NEW s \in S,
           \E i \in 1..Len(q) : q[i] = s,
           \A i, j \in 1..Len(q) : q[i] = q[j] => i = j
    PROVE  /\ MoveToFront(q, s) \in Seq(S)
           /\ Len(MoveToFront(q, s)) = Len(q)
           /\ \A x \in S : (\E i \in 1..Len(q) : q[i] = x)
                              <=> \E i \in 1..Len(q) : MoveToFront(q, s)[i] = x
           /\ \A i, j \in 1..Len(q) :
                 MoveToFront(q, s)[i] = MoveToFront(q, s)[j] => i = j
<1> DEFINE k == CHOOSE i \in 1..Len(q) : q[i] = s
           m == MoveToFront(q, s)
<1>1. k \in 1..Len(q) /\ q[k] = s
  OBVIOUS
<1>2. m = [i \in 1..Len(q) |-> IF i = 1 THEN s ELSE IF i <= k THEN q[i-1] ELSE q[i]]
  BY DEF MoveToFront
<1>3. /\ \A i \in 1..Len(q) : q[i] \in S
      /\ Len(q) \in Nat
  OBVIOUS
<1> HIDE DEF k, m
<1>4. m \in [1..Len(q) -> S]
  BY <1>1, <1>2, <1>3, SMT
<1>5. m \in Seq(S) /\ Len(m) = Len(q)
  BY <1>3, <1>4, SMT
<1>6. /\ m[1] = s
      /\ \A i \in 2..k : m[i] = q[i-1]
      /\ \A i \in (k+1)..Len(q) : m[i] = q[i]
  BY <1>1, <1>2, <1>3, SMT
<1>10. ASSUME NEW j \in 1..Len(q), m[j] = s
       PROVE  j = 1
  <2>1. ~(j \in 2..k)
    <3> SUFFICES ASSUME j \in 2..k PROVE FALSE
      OBVIOUS
    <3>1. j - 1 \in 1..Len(q) /\ j - 1 # k
      BY <1>1, <1>3, SMT
    <3> QED BY <1>1, <1>6, <1>10, <3>1
  <2>2. ~(j \in (k+1)..Len(q))
    <3> SUFFICES ASSUME j \in (k+1)..Len(q) PROVE FALSE
      OBVIOUS
    <3>1. j # k
      BY <1>1, <1>3, SMT
    <3> QED BY <1>1, <1>6, <1>10, <3>1
  <2> QED BY <1>1, <1>3, <2>1, <2>2, SMT
<1>7. ASSUME NEW i \in 1..Len(q), NEW j \in 1..Len(q), m[i] = m[j]
      PROVE  i = j
  <2>1. CASE i = 1 \/ j = 1
    BY <1>6, <1>7, <1>10, <2>1
  <2>2. CASE i \in 2..k /\ j \in 2..k
    <3>1. i - 1 \in 1..Len(q) /\ j - 1 \in 1..Len(q) /\ (i - 1 = j - 1 => i = j)
      BY <1>1, <1>3, <2>2, SMT
    <3>2. q[i-1] = q[j-1]
      BY <1>6, <1>7, <2>2
    <3> QED BY <3>1, <3>2
  <2>3. CASE i \in (k+1)..Len(q) /\ j \in (k+1)..Len(q)
    BY <1>1, <1>3, <1>6, <1>7, <2>3, SMT
  <2>4. CASE i \in 2..k /\ j \in (k+1)..Len(q)
    BY <1>1, <1>3, <1>6, <1>7, <2>4, SMT
  <2>5. CASE j \in 2..k /\ i \in (k+1)..Len(q)
    BY <1>1, <1>3, <1>6, <1>7, <2>5, SMT
  <2> QED BY <1>1, <1>3, <2>1, <2>2, <2>3, <2>4, <2>5, SMT
<1>8. ASSUME NEW x \in S, NEW i \in 1..Len(q), q[i] = x
      PROVE  \E j \in 1..Len(q) : m[j] = x
  <2>1. CASE i = k
    BY <1>1, <1>3, <1>6, <1>8, <2>1, SMT
  <2>2. CASE i < k
    <3>1. i + 1 \in 2..k /\ i + 1 \in 1..Len(q) /\ (i + 1) - 1 = i
      BY <1>1, <1>3, <2>2, SMT
    <3> QED BY <1>6, <1>8, <3>1
  <2>3. CASE i > k
    BY <1>1, <1>3, <1>6, <1>8, <2>3, SMT
  <2> QED BY <1>1, <1>3, <2>1, <2>2, <2>3, SMT
<1>9. ASSUME NEW x \in S, NEW i \in 1..Len(q), m[i] = x
      PROVE  \E j \in 1..Len(q) : q[j] = x
  <2>1. CASE i = 1
    BY <1>1, <1>6, <1>9, <2>1, SMT
  <2>2. CASE i \in 2..k
    <3>1. i - 1 \in 1..Len(q)
      BY <1>1, <1>3, <2>2, SMT
    <3> QED BY <1>6, <1>9, <2>2, <3>1
  <2>3. CASE i \in (k+1)..Len(q)
    BY <1>6, <1>9, <2>3
  <2> QED BY <1>1, <1>3, <2>1, <2>2, <2>3, SMT
<1> QED BY <1>5, <1>7, <1>8, <1>9 DEF m

\* Moving an element to the front changes the order of no two others.
LEMMA MoveToFrontKeepsOrder ==
    ASSUME NEW S, NEW q \in Seq(S), NEW s \in S,
           \E i \in 1..Len(q) : q[i] = s,
           NEW i \in 1..Len(q), NEW j \in 1..Len(q), i < j, q[i] # s, q[j] # s
    PROVE  /\ MoveToFront(q, s)[1] = s
           /\ \E a, b \in 1..Len(q) :
                 a < b /\ MoveToFront(q, s)[a] = q[i] /\ MoveToFront(q, s)[b] = q[j]
<1> DEFINE k == CHOOSE x \in 1..Len(q) : q[x] = s
           m == MoveToFront(q, s)
           at(x) == IF x < k THEN x + 1 ELSE x
<1>1. k \in 1..Len(q) /\ q[k] = s
  OBVIOUS
<1>2. m = [x \in 1..Len(q) |-> IF x = 1 THEN s ELSE IF x <= k THEN q[x-1] ELSE q[x]]
  BY DEF MoveToFront
<1>3. Len(q) \in Nat
  OBVIOUS
<1> HIDE DEF k, m
<1>4. ASSUME NEW x \in 1..Len(q), q[x] # s
      PROVE  at(x) \in 1..Len(q) /\ m[at(x)] = q[x]
  <2>1. CASE x < k
    <3>1. x + 1 \in 1..Len(q) /\ x + 1 # 1 /\ x + 1 <= k /\ (x + 1) - 1 = x
      BY <1>1, <1>3, <2>1, SMT
    <3>2. m[x + 1] = q[(x + 1) - 1]
      BY <1>2, <3>1
    <3> QED BY <2>1, <3>1, <3>2
  <2>2. CASE ~(x < k)
    <3>1. x # k
      BY <1>1, <1>4
    <3>2. x # 1 /\ ~(x <= k)
      BY <1>1, <1>3, <2>2, <3>1, SMT
    <3> QED BY <1>2, <2>2, <3>2
  <2> QED BY <2>1, <2>2
<1>5. at(i) < at(j)
  BY <1>1, <1>3, SMT
<1>6. m[1] = s
  BY <1>1, <1>2, <1>3, SMT
<1> HIDE DEF at
<1> QED BY <1>4, <1>5, <1>6 DEF m

-----------------------------------------------------------------------------
(* The invariant *)

\* The receiver's part of a step is one of these.
Accepts(s, c) == Insert(s, c) \/ Advance(s, c) \/ Fill(s, c)

LEMMA InitInv == Init => Inv
<1> SUFFICES ASSUME Init PROVE Inv
  OBVIOUS
<1>1. Counters \subseteq Nat /\ \A c \in Counters : c > 0
  BY ReplayAssumption DEF Counters
<1>2. TypeOK
  BY <1>1, ReplayAssumption DEF Init, TypeOK, Idle
<1>3. CountersAreUnique
  BY <1>1 DEF Init, CountersAreUnique
<1>4. CacheInv
  <2>1. Cardinality(senders) = 0 /\ IsFiniteSet(senders)
    BY FS_EmptySet DEF Init
  <2> QED BY <2>1, ReplayAssumption DEF Init, CacheInv, CacheIsConsistent
<1>5. WindowInv
  BY DEF Init, WindowInv, WindowIsExact, ForgottenSendersAreBlank, DeliveredWereSealed, Delivered
<1> QED BY <1>2, <1>3, <1>4, <1>5 DEF Inv, SendInv

\* Sealing: the types and the uniqueness of counters.
LEMMA SealKeepsSendInv ==
    ASSUME Inv, NEW s \in Senders, NEW t \in Threads,
           LoadCounter(s, t) \/ SwapCounter(s, t) \/ SwapFails(s, t)
    PROVE  /\ SendInv'
           /\ UNCHANGED <<cacheVars, opens>>
           /\ \A x \in Senders : Sealed(x) \subseteq Sealed(x)'
<1> USE DEF Inv, SendInv
<1>0. /\ counter[s] \in 0..MaxCounter
      /\ loaded[s] \in [Threads -> {Idle} \cup 0..(MaxCounter - 1)]
      /\ seals[s] \in [Counters -> Nat]
      /\ \A x \in Senders : seals[x] \in [Counters -> Nat]
      /\ \A x \in Senders : counter[x] \in 0..MaxCounter
      /\ MaxCounter \in Nat
  BY ReplayAssumption DEF TypeOK
<1>1. CASE LoadCounter(s, t)
  <2>1. counter[s] \in 0..(MaxCounter - 1)
    BY <1>0, <1>1 DEF LoadCounter
  <2>2. [loaded[s] EXCEPT ![t] = counter[s]] \in [Threads -> {Idle} \cup 0..(MaxCounter - 1)]
    BY <1>0, <2>1
  <2>3. loaded' \in [Senders -> [Threads -> {Idle} \cup 0..(MaxCounter - 1)]]
    BY <1>1, <2>2 DEF LoadCounter, TypeOK
  <2>4. UNCHANGED <<counter, seals, cacheVars, opens>>
    BY <1>1 DEF LoadCounter
  <2> QED BY <2>3, <2>4 DEF TypeOK, CountersAreUnique, cacheVars, Sealed
<1>2. CASE SwapFails(s, t)
  <2>2. [loaded[s] EXCEPT ![t] = Idle] \in [Threads -> {Idle} \cup 0..(MaxCounter - 1)]
    BY <1>0
  <2>3. loaded' \in [Senders -> [Threads -> {Idle} \cup 0..(MaxCounter - 1)]]
    BY <1>2, <2>2 DEF SwapFails, TypeOK
  <2>4. UNCHANGED <<counter, seals, cacheVars, opens>>
    BY <1>2 DEF SwapFails
  <2> QED BY <2>3, <2>4 DEF TypeOK, CountersAreUnique, cacheVars, Sealed
<1>3. CASE SwapCounter(s, t)
  <2> DEFINE n == counter[s] + 1
  <2>1. loaded[s][t] \in 0..(MaxCounter - 1) /\ counter[s] = loaded[s][t]
    BY <1>0, <1>3 DEF SwapCounter
  <2>2. n \in Counters /\ n \in 0..MaxCounter
    BY <1>0, <2>1 DEF Counters
  <2>3. [loaded[s] EXCEPT ![t] = Idle] \in [Threads -> {Idle} \cup 0..(MaxCounter - 1)]
    BY <1>0
  <2>4. loaded' \in [Senders -> [Threads -> {Idle} \cup 0..(MaxCounter - 1)]]
    BY <1>3, <2>3 DEF SwapCounter, TypeOK
  <2>5. seals' = [seals EXCEPT ![s] = [seals[s] EXCEPT ![n] = seals[s][n] + 1]]
    BY <1>3 DEF SwapCounter, TypeOK
  <2>6. [seals[s] EXCEPT ![n] = seals[s][n] + 1] \in [Counters -> Nat]
    BY <1>0, <2>2
  <2>7. seals' \in [Senders -> [Counters -> Nat]]
    BY <2>5, <2>6 DEF TypeOK
  <2>8. counter' = [counter EXCEPT ![s] = n]
    BY <1>3 DEF SwapCounter
  <2>9. counter' \in [Senders -> 0..MaxCounter]
    BY <2>2, <2>8 DEF TypeOK
  <2>10. UNCHANGED <<cacheVars, opens>>
    BY <1>3 DEF SwapCounter
  <2>11. TypeOK'
    BY <2>4, <2>7, <2>9, <2>10 DEF TypeOK, cacheVars
  <2>12. /\ \A x \in Senders : x # s => seals'[x] = seals[x] /\ counter'[x] = counter[x]
         /\ \A c \in Counters : c # n => seals'[s][c] = seals[s][c]
         /\ seals'[s][n] = seals[s][n] + 1
         /\ counter'[s] = n
    BY <1>0, <2>2, <2>5, <2>8 DEF TypeOK
  <2>13. CountersAreUnique'
    <3> SUFFICES ASSUME NEW x \in Senders, NEW c \in Counters
                 PROVE  seals'[x][c] = IF c <= counter'[x] THEN 1 ELSE 0
      BY DEF CountersAreUnique
    <3>1. seals[x][c] = IF c <= counter[x] THEN 1 ELSE 0
      BY DEF CountersAreUnique
    <3>2. CASE x # s
      BY <2>12, <3>1, <3>2
    <3>3. CASE x = s /\ c # n
      <4>1. c <= counter[s] <=> c <= n
        BY <1>0, <3>3 DEF Counters
      <4> QED BY <2>12, <3>1, <3>3, <4>1
    <3>4. CASE x = s /\ c = n
      <4>1. seals[s][n] = 0
        BY <1>0, <2>2, <3>1, <3>4
      <4> QED BY <1>0, <2>12, <3>4, <4>1
    <3> QED BY <3>2, <3>3, <3>4
  <2>14. \A x \in Senders : Sealed(x) \subseteq Sealed(x)'
    <3> SUFFICES ASSUME NEW x \in Senders, NEW c \in Counters, seals[x][c] > 0
                 PROVE  seals'[x][c] > 0
      BY DEF Sealed
    <3>1. CASE x = s /\ c = n
      BY <1>0, <2>2, <2>12, <3>1
    <3> QED BY <2>12, <3>1
  <2> QED BY <2>10, <2>11, <2>13, <2>14
<1> QED BY <1>1, <1>2, <1>3

\* Facts about one record that the receiver's steps share.
LEMMA RecordFacts ==
    ASSUME Inv, NEW s \in Senders, NEW c \in Counters
    PROVE  /\ highest[s] \in 0..MaxCounter
           /\ c \in 1..MaxCounter
           /\ seen[s] \in SUBSET (0..(replayWindowSize - 1))
           /\ MaxCounter \in Nat \ {0} /\ replayWindowSize \in Nat \ {0}
           /\ maxReplaySenders \in Nat \ {0}
           /\ lru \in Seq(Senders) /\ Len(lru) \in Nat
           /\ senders \in SUBSET Senders
           /\ Delivered(s) \in SUBSET Counters
  BY ReplayAssumption DEF Inv, SendInv, TypeOK, Counters, Delivered

\* Moving the sender of a record to the front keeps map and list in agreement.
LEMMA TouchKeepsCacheInv ==
    ASSUME Inv, NEW s \in senders, lru' = MoveToFront(lru, s), UNCHANGED senders
    PROVE  CacheInv' /\ lru' \in Seq(Senders)
<1> USE DEF Inv, SendInv, CacheInv
<1>1. lru \in Seq(Senders) /\ senders \in SUBSET Senders
  BY DEF TypeOK
<1>2. /\ \E i \in 1..Len(lru) : lru[i] = s
      /\ \A i, j \in 1..Len(lru) : lru[i] = lru[j] => i = j
  BY <1>1 DEF CacheIsConsistent
<1>3. /\ lru' \in Seq(Senders)
      /\ Len(lru') = Len(lru)
      /\ \A x \in Senders : (\E i \in 1..Len(lru) : lru[i] = x)
                                <=> \E i \in 1..Len(lru) : lru'[i] = x
      /\ \A i, j \in 1..Len(lru) : lru'[i] = lru'[j] => i = j
  <2> DEFINE q == MoveToFront(lru, s)
  <2>1. s \in Senders
    BY <1>1
  <2>2. /\ q \in Seq(Senders)
        /\ Len(q) = Len(lru)
        /\ \A x \in Senders : (\E i \in 1..Len(lru) : lru[i] = x)
                                  <=> \E i \in 1..Len(lru) : q[i] = x
        /\ \A i, j \in 1..Len(lru) : q[i] = q[j] => i = j
    BY ONLY <1>1, <1>2, <2>1, MoveToFrontPermutes
  <2> HIDE DEF q
  <2>3. lru' = q
    BY DEF q
  <2> QED BY <2>2, <2>3
<1> QED BY <1>3 DEF CacheIsConsistent

\* Inserting a sender: it is new, and the cache had or has made room.
LEMMA InsertKeepsCacheInv ==
    ASSUME Inv, NEW s \in Senders, NEW c \in Counters, Insert(s, c)
    PROVE  CacheInv' /\ lru' \in Seq(Senders)
<1> USE DEF Inv, SendInv, CacheInv
<1> DEFINE n == IF Full THEN Len(lru) - 1 ELSE Len(lru)
           rest == IF Full THEN SubSeq(lru, 1, Len(lru) - 1) ELSE lru
<1>0. /\ lru \in Seq(Senders) /\ Len(lru) \in Nat /\ senders \in SUBSET Senders
      /\ \A i \in 1..Len(lru) : lru[i] \in Senders
      /\ maxReplaySenders \in Nat \ {0}
      /\ s \notin senders
      /\ IsFiniteSet(senders) /\ Cardinality(senders) \in Nat
      /\ Cardinality(senders) <= maxReplaySenders
  <2>1. IsFiniteSet(senders)
    OBVIOUS
  <2>2. Cardinality(senders) \in Nat
    BY <2>1, FS_CardinalityType
  <2>3. lru \in Seq(Senders) /\ senders \in SUBSET Senders
    BY DEF TypeOK
  <2>4. Len(lru) \in Nat /\ \A i \in 1..Len(lru) : lru[i] \in Senders
    BY <2>3
  <2> QED BY <2>1, <2>2, <2>3, <2>4, ReplayAssumption DEF Insert, CacheIsConsistent
<1>1. /\ \A x \in Senders : x \in senders <=> \E i \in 1..Len(lru) : lru[i] = x
      /\ \A i, j \in 1..Len(lru) : lru[i] = lru[j] => i = j
  BY DEF CacheIsConsistent
<1>2. Full => Len(lru) >= 1 /\ lru[Len(lru)] \in senders
  <2> SUFFICES ASSUME Full PROVE Len(lru) >= 1 /\ lru[Len(lru)] \in senders
    OBVIOUS
  <2>1. senders # {}
    BY <1>0, FS_EmptySet DEF Full
  <2>2. Len(lru) >= 1
    BY <1>0, <1>1, <2>1
  <2> QED BY <1>0, <1>1, <2>2
<1>3. /\ n \in Nat /\ n <= Len(lru) /\ rest \in Seq(Senders) /\ Len(rest) = n
      /\ \A i \in 1..n : rest[i] = lru[i]
  BY <1>0, <1>2
<1>4. lru' = <<s>> \o rest
  BY DEF Insert
<1> HIDE DEF rest
<1>5. /\ lru' \in Seq(Senders) /\ Len(lru') = n + 1
      /\ lru'[1] = s
      /\ \A i \in 2..(n+1) : lru'[i] = rest[i-1]
  BY <1>3, <1>4
<1>6. \A i \in 2..(n+1) : i - 1 \in 1..Len(lru) /\ i - 1 \in 1..n /\ lru'[i] = lru[i-1]
  BY <1>0, <1>3, <1>5
<1>7. senders' = (senders \ Evicted) \cup {s}
  BY DEF Insert
<1>8. /\ Full => Evicted = {lru[Len(lru)]}
      /\ ~Full => Evicted = {}
  BY DEF Evicted
<1>9. ASSUME NEW x \in Senders, NEW i \in 1..(n+1), lru'[i] = x
      PROVE  x \in senders'
  <2>1. CASE i = 1
    BY <1>5, <1>7, <1>9, <2>1
  <2>2. CASE i \in 2..(n+1)
    <3>1. i - 1 \in 1..Len(lru) /\ x = lru[i-1]
      BY <1>6, <1>9, <2>2
    <3>2. Full => i - 1 # Len(lru)
      BY <1>0, <2>2
    <3>3. x \notin Evicted
      <4>1. CASE Full
        <5>1. Len(lru) \in 1..Len(lru)
          BY <1>0, <1>2, <4>1
        <5> QED BY <1>1, <1>8, <3>1, <3>2, <4>1, <5>1
      <4> QED BY <1>8, <4>1
    <3> QED BY <1>1, <1>7, <3>1, <3>3
  <2> QED BY <1>3, <2>1, <2>2
<1>10. ASSUME NEW x \in senders'
       PROVE  \E i \in 1..(n+1) : lru'[i] = x
  <2>1. CASE x = s
    BY <1>3, <1>5, <2>1
  <2>2. CASE x \in senders \ Evicted
    <3>1. PICK i \in 1..Len(lru) : lru[i] = x
      BY <1>0, <1>1, <2>2
    <3>2. Full => i # Len(lru)
      BY <1>8, <2>2, <3>1
    <3>3. i + 1 \in 2..(n+1) /\ i + 1 \in 1..(n+1) /\ (i + 1) - 1 = i
      BY <1>0, <3>2
    <3> QED BY <1>6, <3>1, <3>3
  <2> QED BY <1>7, <1>10, <2>1, <2>2
<1>11. ASSUME NEW i \in 1..(n+1), NEW j \in 1..(n+1), lru'[i] = lru'[j]
       PROVE  i = j
  <2>1. \A k \in 2..(n+1) : lru'[k] # s
    BY <1>0, <1>1, <1>6
  <2>2. CASE i \in 2..(n+1) /\ j \in 2..(n+1)
    <3>1. lru[i-1] = lru[j-1] /\ i - 1 \in 1..Len(lru) /\ j - 1 \in 1..Len(lru)
      BY <1>6, <1>11, <2>2
    <3>2. i - 1 = j - 1
      BY <1>1, <3>1
    <3> QED BY <2>2, <3>2
  <2>3. i = 1 \/ i \in 2..(n+1)
    BY <1>3
  <2>4. j = 1 \/ j \in 2..(n+1)
    BY <1>3
  <2> QED BY <1>5, <1>11, <2>1, <2>2, <2>3, <2>4
<1>12. IsFiniteSet(senders') /\ Cardinality(senders') <= maxReplaySenders
  <2> DEFINE left == senders \ Evicted
  <2>1. /\ IsFiniteSet(left) /\ Cardinality(left) \in Nat
        /\ Cardinality(left) + 1 <= maxReplaySenders
    <3>1. CASE Full
      <4>1. left = senders \ {lru[Len(lru)]} /\ lru[Len(lru)] \in senders
        BY <1>2, <1>8, <3>1
      <4>5. PICK e \in senders : left = senders \ {e}
        BY <4>1
      <4>6. /\ IsFiniteSet(senders \ {e})
            /\ Cardinality(senders \ {e}) = Cardinality(senders) - 1
        <5>1. IsFiniteSet(senders)
          BY <1>0
        <5> QED BY ONLY <5>1, FS_RemoveElement, e \in senders
      <4>2. IsFiniteSet(left) /\ Cardinality(left) = Cardinality(senders) - 1
        BY <4>5, <4>6
      <4> HIDE DEF left
      <4>3. Cardinality(left) \in Nat
        BY <4>2, FS_CardinalityType
      <4> QED BY <1>0, <4>2, <4>3
    <3>2. CASE ~Full
      <4>1. left = senders
        BY <1>8, <3>2
      <4>2. ~(Cardinality(senders) >= maxReplaySenders)
        BY <3>2 DEF Full
      <4>3. Cardinality(senders) + 1 <= maxReplaySenders
        BY <1>0, <4>2
      <4> QED BY <1>0, <4>1, <4>3
    <3> QED BY <3>1, <3>2
  <2>2. s \notin left
    BY <1>0
  <2>3. senders' = left \cup {s}
    BY <1>7
  <2> HIDE DEF left
  <2>4. IsFiniteSet(senders') /\ Cardinality(senders') = Cardinality(left) + 1
    BY <2>1, <2>2, <2>3, FS_AddElement
  <2> QED BY <2>1, <2>4
<1>13. senders' \subseteq Senders
  BY <1>0, <1>7
<1> HIDE DEF n
<1> QED
  BY <1>5, <1>9, <1>10, <1>11, <1>12, <1>13 DEF CacheIsConsistent

-----------------------------------------------------------------------------
(* The window *)

\* Bit by bit, what shifting the window does.
LEMMA ShiftedBits ==
    ASSUME NEW bits, NEW shift \in Nat \ {0}, NEW a \in 0..(replayWindowSize - 1)
    PROVE  a \in Shifted(bits, shift) <=> a = 0 \/ (a >= shift /\ a - shift \in bits)
  BY ReplayAssumption DEF Shifted

LEMMA ShiftedType ==
    ASSUME NEW bits, NEW shift \in Nat
    PROVE  Shifted(bits, shift) \in SUBSET (0..(replayWindowSize - 1))
  BY ReplayAssumption DEF Shifted

LEMMA DeliverType ==
    ASSUME Inv, NEW s \in Senders, NEW c \in Counters, Deliver(s, c)
    PROVE  opens' \in [Senders -> [Counters -> Nat]]
<1>1. \A x \in Senders : opens[x] \in [Counters -> Nat]
  BY DEF Inv, SendInv, TypeOK
<1>2. [opens[s] EXCEPT ![c] = opens[s][c] + 1] \in [Counters -> Nat]
  BY <1>1
<1>3. [d \in Counters |-> 0] \in [Counters -> Nat]
  OBVIOUS
<1> QED BY <1>1, <1>2, <1>3 DEF Deliver

\* What Deliver does to the sets of delivered counters.
LEMMA DeliverSets ==
    ASSUME Inv, NEW s \in Senders, NEW c \in Counters, Deliver(s, c)
    PROVE  /\ Delivered(s)' = Delivered(s) \cup {c}
           /\ \A x \in Senders : x # s =>
                 Delivered(x)' = IF x \in Evicted /\ s \notin senders THEN {} ELSE Delivered(x)
<1>0. \A x \in Senders : opens[x] \in [Counters -> Nat]
  BY DEF Inv, SendInv, TypeOK
<1>1. /\ opens'[s] = [opens[s] EXCEPT ![c] = opens[s][c] + 1]
      /\ \A x \in Senders : x # s =>
            opens'[x] = IF x \in Evicted /\ s \notin senders THEN [d \in Counters |-> 0] ELSE opens[x]
  BY DEF Deliver
<1>2. \A d \in Counters : opens'[s][d] > 0 <=> opens[s][d] > 0 \/ d = c
  BY <1>0, <1>1
<1>3. Delivered(s)' = Delivered(s) \cup {c}
  BY <1>2 DEF Delivered
<1>4. ASSUME NEW x \in Senders, x # s
      PROVE  Delivered(x)' = IF x \in Evicted /\ s \notin senders THEN {} ELSE Delivered(x)
  <2>1. CASE x \in Evicted /\ s \notin senders
    <3>1. opens'[x] = [d \in Counters |-> 0]
      BY <1>1, <1>4, <2>1
    <3> QED BY <2>1, <3>1 DEF Delivered
  <2>2. CASE ~(x \in Evicted /\ s \notin senders)
    <3>1. opens'[x] = opens[x]
      BY <1>1, <1>4, <2>2
    <3> QED BY <2>2, <3>1 DEF Delivered
  <2> QED BY <2>1, <2>2
<1> QED BY <1>3, <1>4

\* What a receiver's step leaves of the other senders, and what it needs of its
\* own: with these the window stays exact.
LEMMA WindowStep ==
    ASSUME Inv, NEW s \in Senders, NEW c \in Sealed(s),
           UNCHANGED sendVars, Deliver(s, c),
           s \in senders',
           \A x \in senders' : x = s \/ (x \in senders /\ (s \in senders \/ x \notin Evicted)
                                        /\ highest'[x] = highest[x] /\ seen'[x] = seen[x]),
           \A x \in Senders : x \notin senders' => x \notin senders \/ (x \in Evicted /\ s \notin senders),
           highest'[s] = c \/ (highest'[s] = highest[s] /\ highest[s] \in Delivered(s)),
           c <= highest'[s],
           \A d \in Delivered(s) : d <= highest'[s],
           \A a \in 0..(replayWindowSize - 1) :
               a \in seen'[s] <=> highest'[s] - a = c \/ highest'[s] - a \in Delivered(s)
    PROVE  WindowInv'
<1> USE DEF Inv, SendInv, WindowInv
<1>0. c \in Counters
  BY DEF Sealed
<1>1. /\ Delivered(s)' = Delivered(s) \cup {c}
      /\ \A x \in Senders : x # s =>
            Delivered(x)' = IF x \in Evicted /\ s \notin senders THEN {} ELSE Delivered(x)
  BY <1>0, DeliverSets
<1>2. \A x \in Senders : Sealed(x)' = Sealed(x)
  BY DEF Sealed, sendVars
<1>3. DeliveredWereSealed'
  BY <1>1, <1>2 DEF DeliveredWereSealed
<1>4. ForgottenSendersAreBlank'
  BY <1>1 DEF ForgottenSendersAreBlank
<1>5. ASSUME NEW x \in senders', x # s
      PROVE  /\ highest'[x] = highest[x] /\ seen'[x] = seen[x]
             /\ Delivered(x)' = Delivered(x) /\ x \in senders
  <2>1. x \in Senders
    BY <1>5 DEF TypeOK
  <2> QED BY <1>1, <1>5, <2>1
<1>6. WindowIsExact'
  <2> SUFFICES ASSUME NEW x \in senders'
               PROVE  /\ highest'[x] \in Delivered(x)'
                      /\ \A d \in Delivered(x)' : d <= highest'[x]
                      /\ \A a \in 0..(replayWindowSize - 1) :
                            a \in seen'[x] <=> highest'[x] - a \in Delivered(x)'
    BY DEF WindowIsExact
  <2>1. CASE x # s
    BY <1>5, <2>1 DEF WindowIsExact
  <2>2. CASE x = s
    <3>1. highest'[s] \in Delivered(s)'
      BY <1>1
    <3>2. \A d \in Delivered(s)' : d <= highest'[s]
      BY <1>1
    <3>3. \A a \in 0..(replayWindowSize - 1) :
              a \in seen'[s] <=> highest'[s] - a \in Delivered(s)'
      BY <1>1
    <3> QED BY <2>2, <3>1, <3>2, <3>3
  <2> QED BY <2>1, <2>2
<1> QED BY <1>3, <1>4, <1>6

LEMMA InsertKeepsInv ==
    ASSUME Inv, NEW s \in Senders, NEW c \in Sealed(s),
           Insert(s, c), Deliver(s, c), UNCHANGED sendVars
    PROVE  Inv'
<1> USE DEF Inv, SendInv
<1>0. c \in Counters
  BY DEF Sealed
<1>1. CacheInv' /\ lru' \in Seq(Senders)
  BY <1>0, InsertKeepsCacheInv
<1>2. /\ highest[s] \in 0..MaxCounter
      /\ c \in 1..MaxCounter /\ c \in 0..MaxCounter
      /\ replayWindowSize \in Nat \ {0} /\ 0 \in 0..(replayWindowSize - 1)
      /\ 0 \in 0..MaxCounter
      /\ MaxCounter \in Nat
      /\ senders \in SUBSET Senders
  BY <1>0, RecordFacts
<1>3. /\ senders' = (senders \ Evicted) \cup {s}
      /\ s \notin senders
      /\ highest' = [x \in Senders |-> IF x = s THEN c
                                        ELSE IF x \in Evicted THEN 0 ELSE highest[x]]
      /\ seen' = [x \in Senders |-> IF x = s THEN {0}
                                     ELSE IF x \in Evicted THEN {} ELSE seen[x]]
  BY DEF Insert
<1>4. TypeOK'
  <2>1. senders' \in SUBSET Senders
    BY <1>2, <1>3
  <2>2. highest' \in [Senders -> 0..MaxCounter]
    BY <1>2, <1>3 DEF TypeOK
  <2>3. seen' \in [Senders -> SUBSET (0..(replayWindowSize - 1))]
    BY <1>2, <1>3 DEF TypeOK
  <2>4. opens' \in [Senders -> [Counters -> Nat]]
    BY <1>0, DeliverType
  <2> QED BY <1>1, <2>1, <2>2, <2>3, <2>4 DEF TypeOK, sendVars
<1>5. CountersAreUnique'
  BY DEF CountersAreUnique, sendVars
<1>6. Delivered(s) = {}
  BY <1>3 DEF WindowInv, ForgottenSendersAreBlank
<1>7. highest'[s] = c /\ seen'[s] = {0}
  BY <1>3
<1>8. \A x \in senders' : x = s \/ (x \in senders /\ x \notin Evicted
                                     /\ highest'[x] = highest[x] /\ seen'[x] = seen[x])
  BY <1>2, <1>3
<1>9. \A x \in Senders : x \notin senders' => x \notin senders \/ x \in Evicted
  BY <1>3
<1>10. \A a \in 0..(replayWindowSize - 1) : a \in seen'[s] <=> highest'[s] - a = c
  BY <1>2, <1>7
<1>11. WindowInv'
  BY <1>2, <1>3, <1>6, <1>7, <1>8, <1>9, <1>10, WindowStep
<1> QED BY <1>1, <1>4, <1>5, <1>11

LEMMA AdvanceKeepsInv ==
    ASSUME Inv, NEW s \in Senders, NEW c \in Sealed(s),
           Advance(s, c), Deliver(s, c), UNCHANGED sendVars
    PROVE  Inv'
<1> USE DEF Inv, SendInv
<1> DEFINE shift == c - highest[s]
<1>0. c \in Counters
  BY DEF Sealed
<1>1. /\ s \in senders /\ c > highest[s] /\ UNCHANGED senders
      /\ lru' = MoveToFront(lru, s)
      /\ seen' = [seen EXCEPT ![s] = Shifted(seen[s], shift)]
      /\ highest' = [highest EXCEPT ![s] = c]
  BY DEF Advance
<1>2. CacheInv' /\ lru' \in Seq(Senders)
  BY <1>1, TouchKeepsCacheInv
<1>3. /\ highest[s] \in 0..MaxCounter
      /\ c \in 1..MaxCounter /\ c \in 0..MaxCounter
      /\ replayWindowSize \in Nat \ {0}
      /\ MaxCounter \in Nat
      /\ shift \in Nat \ {0}
  BY <1>0, <1>1, RecordFacts
<1>4. Shifted(seen[s], shift) \in SUBSET (0..(replayWindowSize - 1))
  BY <1>3, ShiftedType
<1>5. TypeOK'
  <2>1. highest' \in [Senders -> 0..MaxCounter]
    BY <1>1, <1>3 DEF TypeOK
  <2>2. seen' \in [Senders -> SUBSET (0..(replayWindowSize - 1))]
    BY <1>1, <1>4 DEF TypeOK
  <2>3. opens' \in [Senders -> [Counters -> Nat]]
    BY <1>0, DeliverType
  <2> QED BY <1>1, <1>2, <2>1, <2>2, <2>3 DEF TypeOK, sendVars
<1>6. CountersAreUnique'
  BY DEF CountersAreUnique, sendVars
<1>7. /\ highest'[s] = c /\ seen'[s] = Shifted(seen[s], shift)
      /\ \A x \in Senders : x # s => highest'[x] = highest[x] /\ seen'[x] = seen[x]
  BY <1>1 DEF TypeOK
<1>8. /\ \A d \in Delivered(s) : d <= highest[s] /\ d \in 1..MaxCounter
      /\ \A a \in 0..(replayWindowSize - 1) :
            a \in seen[s] <=> highest[s] - a \in Delivered(s)
  BY <1>1 DEF WindowInv, WindowIsExact, Delivered, Counters
<1>9. \A a \in 0..(replayWindowSize - 1) :
          a \in seen'[s] <=> highest'[s] - a = c \/ highest'[s] - a \in Delivered(s)
  <2> SUFFICES ASSUME NEW a \in 0..(replayWindowSize - 1)
               PROVE  a \in seen'[s] <=> c - a = c \/ c - a \in Delivered(s)
    BY <1>7
  <2>1. a \in seen'[s] <=> a = 0 \/ (a >= shift /\ a - shift \in seen[s])
    <3> HIDE DEF shift
    <3> QED BY <1>3, <1>7, ShiftedBits
  <2>2. a = 0 <=> c - a = c
    BY <1>3
  <2>3. CASE a >= shift
    <3>1. a - shift \in 0..(replayWindowSize - 1) /\ highest[s] - (a - shift) = c - a
      BY <1>3, <2>3
    <3> QED BY <1>8, <2>1, <2>2, <2>3, <3>1
  <2>4. CASE ~(a >= shift)
    <3>1. c - a > highest[s] /\ c - a \in Int
      BY <1>3, <2>4
    <3>2. c - a \notin Delivered(s)
      BY <1>3, <1>8, <3>1
    <3> QED BY <2>1, <2>2, <2>4, <3>2
  <2> QED BY <2>3, <2>4
<1>10. \A d \in Delivered(s) : d <= highest'[s]
  BY <1>1, <1>3, <1>7, <1>8
<1>11. WindowInv'
  <2>1. senders \in SUBSET Senders
    BY DEF TypeOK
  <2>2. c <= highest'[s]
    BY <1>3, <1>7
  <2>3. \A x \in senders' : x = s \/ (x \in senders /\ highest'[x] = highest[x] /\ seen'[x] = seen[x])
    BY <1>1, <1>7, <2>1
  <2> HIDE DEF shift
  <2> QED BY <1>1, <1>7, <1>9, <1>10, <2>2, <2>3, WindowStep
<1> QED BY <1>2, <1>5, <1>6, <1>11

LEMMA FillKeepsInv ==
    ASSUME Inv, NEW s \in Senders, NEW c \in Sealed(s),
           Fill(s, c), Deliver(s, c), UNCHANGED sendVars
    PROVE  Inv'
<1> USE DEF Inv, SendInv
<1> DEFINE age == highest[s] - c
<1>0. c \in Counters
  BY DEF Sealed
<1>1. /\ s \in senders /\ c <= highest[s] /\ UNCHANGED <<senders, highest>>
      /\ ~(age >= replayWindowSize)
      /\ lru' = MoveToFront(lru, s)
      /\ seen' = [seen EXCEPT ![s] = seen[s] \cup {age}]
  BY DEF Fill, TooOld
<1>2. CacheInv' /\ lru' \in Seq(Senders)
  BY <1>1, TouchKeepsCacheInv
<1>3. /\ highest[s] \in 0..MaxCounter
      /\ c \in 1..MaxCounter
      /\ replayWindowSize \in Nat \ {0}
      /\ age \in 0..(replayWindowSize - 1)
      /\ seen[s] \cup {age} \in SUBSET (0..(replayWindowSize - 1))
  BY <1>0, <1>1, RecordFacts
<1>4. TypeOK'
  <2>1. seen' \in [Senders -> SUBSET (0..(replayWindowSize - 1))]
    BY <1>1, <1>3 DEF TypeOK
  <2>2. opens' \in [Senders -> [Counters -> Nat]]
    BY <1>0, DeliverType
  <2> QED BY <1>1, <1>2, <2>1, <2>2 DEF TypeOK, sendVars
<1>5. CountersAreUnique'
  BY DEF CountersAreUnique, sendVars
<1>6. /\ seen'[s] = seen[s] \cup {age} /\ highest' = highest
      /\ \A x \in Senders : x # s => seen'[x] = seen[x]
  BY <1>1 DEF TypeOK
<1>7. /\ highest[s] \in Delivered(s)
      /\ \A d \in Delivered(s) : d <= highest[s]
      /\ \A a \in 0..(replayWindowSize - 1) :
            a \in seen[s] <=> highest[s] - a \in Delivered(s)
  BY <1>1 DEF WindowInv, WindowIsExact
<1>8. \A a \in 0..(replayWindowSize - 1) : a = age <=> highest[s] - a = c
  BY <1>3
<1> HIDE DEF age
<1>9. \A a \in 0..(replayWindowSize - 1) :
          a \in seen'[s] <=> highest'[s] - a = c \/ highest'[s] - a \in Delivered(s)
  BY <1>6, <1>7, <1>8
<1>10. WindowInv'
  <2>1. senders \in SUBSET Senders
    BY DEF TypeOK
  <2>3. \A x \in senders' : x = s \/ (x \in senders /\ highest'[x] = highest[x] /\ seen'[x] = seen[x])
    BY <1>1, <1>6, <2>1
  <2> QED BY <1>1, <1>6, <1>7, <1>9, <2>3, WindowStep
<1> QED BY <1>2, <1>4, <1>5, <1>10

\* Every step keeps the invariant.
LEMMA StepInv == Inv /\ [Next]_vars => Inv'
<1> SUFFICES ASSUME Inv, [Next]_vars PROVE Inv'
  OBVIOUS
<1>1. CASE UNCHANGED vars
  <2>1. UNCHANGED <<counter, loaded, seals, senders, highest, seen, lru, opens>>
    BY <1>1 DEF vars
  <2>2. \A x \in Senders : Sealed(x)' = Sealed(x) /\ Delivered(x)' = Delivered(x)
    BY <2>1 DEF Sealed, Delivered
  <2> QED
    BY <2>1, <2>2 DEF Inv, SendInv, CacheInv, WindowInv, TypeOK, CountersAreUnique,
       CacheIsConsistent, WindowIsExact, ForgottenSendersAreBlank, DeliveredWereSealed
<1>2. ASSUME NEW s \in Senders, NEW t \in Threads,
             LoadCounter(s, t) \/ SwapCounter(s, t) \/ SwapFails(s, t)
      PROVE  Inv'
  <2>1. /\ SendInv'
        /\ UNCHANGED <<cacheVars, opens>>
        /\ \A x \in Senders : Sealed(x) \subseteq Sealed(x)'
    BY <1>2, SealKeepsSendInv
  <2>2. CacheInv'
    BY <2>1 DEF Inv, CacheInv, CacheIsConsistent, cacheVars
  <2>3. WindowInv'
    <3>1. \A x : Delivered(x)' = Delivered(x)
      BY <2>1 DEF Delivered
    <3> QED BY <2>1, <3>1 DEF Inv, WindowInv, WindowIsExact, ForgottenSendersAreBlank,
       DeliveredWereSealed, cacheVars
  <2> QED BY <2>1, <2>2, <2>3 DEF Inv
<1>3. ASSUME NEW s \in Senders, NEW c \in Counters, OpenInto(s, c)
      PROVE  Inv'
  <2>1. c \in Sealed(s) /\ UNCHANGED sendVars
    BY <1>3 DEF OpenInto
  <2>2. CASE Refuse(s, c) /\ UNCHANGED opens
    BY <1>1, <2>1, <2>2 DEF Refuse, cacheVars, sendVars, vars
  <2>3. CASE Insert(s, c) /\ Deliver(s, c)
    BY <2>1, <2>3, InsertKeepsInv
  <2>4. CASE Advance(s, c) /\ Deliver(s, c)
    BY <2>1, <2>4, AdvanceKeepsInv
  <2>5. CASE Fill(s, c) /\ Deliver(s, c)
    BY <2>1, <2>5, FillKeepsInv
  <2> QED BY <1>3, <2>2, <2>3, <2>4, <2>5 DEF OpenInto
<1>4. ASSUME NEW s \in Senders, NEW c \in 0..MaxCounter, OpenRefused(s, c)
      PROVE  Inv'
  BY <1>1, <1>4 DEF OpenRefused
<1> QED BY <1>1, <1>2, <1>3, <1>4 DEF Next

\* The invariant holds of every behaviour of the record layer.
THEOREM ReplayInvariance == Spec => []Inv
  BY InitInv, StepInv, PTL DEF Spec

\* Every variable of sealState and replayCache stays in its type; in particular
\* the counter never passes its maximum and the bitmap never its width.
THEOREM ReplayTypeCorrect == Spec => []TypeOK
<1>1. Inv => TypeOK
  BY DEF Inv, SendInv
<1> QED BY <1>1, ReplayInvariance, PTL

\* nextCounter hands out every counter once, however its callers interleave.
THEOREM CountersStayUnique == Spec => []CountersAreUnique
<1>1. Inv => CountersAreUnique
  BY DEF Inv, SendInv
<1> QED BY <1>1, ReplayInvariance, PTL

\* replayCache.accept keeps an exact record of the last replayWindowSize counters.
THEOREM WindowStaysExact == Spec => []WindowIsExact
<1>1. Inv => WindowIsExact
  BY DEF Inv, WindowInv
<1> QED BY <1>1, ReplayInvariance, PTL

\* replayCache.accept never takes a record it has not delivered for a duplicate.
THEOREM FreshRecordsAlwaysPass == Spec => []FreshRecordsPass
<1>1. Inv => FreshRecordsPass
  <2> SUFFICES ASSUME Inv, NEW s \in senders, NEW c \in Sealed(s) \ Delivered(s),
                      c <= highest[s], Duplicate(s, c)
               PROVE  FALSE
    BY DEF FreshRecordsPass
  <2>1. s \in Senders /\ c \in Counters
    BY DEF Inv, SendInv, TypeOK, Sealed
  <2>2. highest[s] \in 0..MaxCounter /\ c \in 1..MaxCounter /\ MaxCounter \in Nat
    BY <2>1, RecordFacts
  <2>3. highest[s] - c \in seen[s] /\ seen[s] \subseteq 0..(replayWindowSize - 1)
    BY <2>1, RecordFacts DEF Duplicate
  <2>4. highest[s] - (highest[s] - c) \in Delivered(s)
    BY <2>3 DEF Inv, WindowInv, WindowIsExact
  <2> QED BY <2>2, <2>4
<1> QED BY <1>1, ReplayInvariance, PTL

\* The map and the list of replayCache agree and respect maxReplaySenders.
THEOREM CacheStaysConsistent == Spec => []CacheIsConsistent
<1>1. Inv => CacheIsConsistent
  BY DEF Inv, CacheInv
<1> QED BY <1>1, ReplayInvariance, PTL

\* OpenInto decides exactly: what was delivered is remembered, nothing else is
\* taken for a duplicate.
THEOREM WindowAlwaysDecides == Spec => []WindowDecidesExactly
  BY WindowStaysExact, FreshRecordsAlwaysPass, PTL DEF WindowDecidesExactly

-----------------------------------------------------------------------------
(* Which sender leaves *)

\* What one step owes to the order of the list.
Reorders(s) ==
    /\ lru'[1] = s
    /\ \A x, y \in senders' \ {s} :
          (\E i, j \in 1..Len(lru) : i < j /\ lru[i] = x /\ lru[j] = y)
             => \E i, j \in 1..Len(lru') : i < j /\ lru'[i] = x /\ lru'[j] = y

LEMMA TouchReorders ==
    ASSUME Inv, NEW s \in senders, lru' = MoveToFront(lru, s), UNCHANGED senders
    PROVE  Reorders(s)
<1>1. /\ lru \in Seq(Senders) /\ s \in Senders /\ Len(lru) \in Nat
      /\ \E i \in 1..Len(lru) : lru[i] = s
  BY DEF Inv, SendInv, TypeOK, CacheInv, CacheIsConsistent
<1>2. Len(lru') = Len(lru)
  <2> DEFINE q == MoveToFront(lru, s)
  <2>1. Len(q) = Len(lru)
    <3>1. \A i, j \in 1..Len(lru) : lru[i] = lru[j] => i = j
      BY DEF Inv, CacheInv, CacheIsConsistent
    <3> QED BY ONLY <1>1, <3>1, MoveToFrontPermutes
  <2> QED BY <2>1
<1>3. lru'[1] = s
  <2>1. 1 \in 1..Len(lru)
    BY <1>1
  <2> QED BY <2>1 DEF MoveToFront
<1>4. ASSUME NEW x \in senders' \ {s}, NEW y \in senders' \ {s},
             NEW i \in 1..Len(lru), NEW j \in 1..Len(lru), i < j, lru[i] = x, lru[j] = y
      PROVE  \E a, b \in 1..Len(lru') : a < b /\ lru'[a] = x /\ lru'[b] = y
  <2>1. lru[i] # s /\ lru[j] # s
    BY <1>4
  <2>2. \E a, b \in 1..Len(lru) :
           a < b /\ MoveToFront(lru, s)[a] = lru[i] /\ MoveToFront(lru, s)[b] = lru[j]
    <3>1. i \in 1..Len(lru) /\ j \in 1..Len(lru) /\ i < j
      BY <1>4
    <3> QED BY ONLY <1>1, <2>1, <3>1, MoveToFrontKeepsOrder
  <2> QED BY <1>2, <1>4, <2>2
<1> QED BY <1>3, <1>4 DEF Reorders

LEMMA InsertReorders ==
    ASSUME Inv, NEW s \in Senders, NEW c \in Counters, Insert(s, c)
    PROVE  Reorders(s)
<1> DEFINE n == IF Full THEN Len(lru) - 1 ELSE Len(lru)
           rest == IF Full THEN SubSeq(lru, 1, Len(lru) - 1) ELSE lru
<1>1. /\ lru \in Seq(Senders) /\ Len(lru) \in Nat /\ senders \in SUBSET Senders
      /\ maxReplaySenders \in Nat \ {0}
      /\ \A x \in Senders : x \in senders <=> \E i \in 1..Len(lru) : lru[i] = x
      /\ IsFiniteSet(senders)
  BY ReplayAssumption DEF Inv, SendInv, TypeOK, CacheInv, CacheIsConsistent
<1>2. Full => Len(lru) >= 1
  <2> SUFFICES ASSUME Full PROVE Len(lru) >= 1
    OBVIOUS
  <2>1. senders # {}
    <3> SUFFICES ASSUME senders = {} PROVE FALSE
      OBVIOUS
    <3>1. Cardinality(senders) = 0
      BY FS_EmptySet
    <3> QED BY <1>1, <3>1 DEF Full
  <2> QED BY <1>1, <2>1
<1>3. /\ n \in Nat /\ n <= Len(lru) /\ rest \in Seq(Senders) /\ Len(rest) = n
      /\ \A i \in 1..n : rest[i] = lru[i]
  BY <1>1, <1>2
<1>4. lru' = <<s>> \o rest
  BY DEF Insert
<1>5. /\ ~Full => n = Len(lru)
      /\ Full => n = Len(lru) - 1 /\ lru[Len(lru)] \notin senders' \ {s}
  BY DEF Insert, Evicted
<1> HIDE DEF n, rest
<1>6. /\ Len(lru') = n + 1
      /\ lru'[1] = s
      /\ \A i \in 1..n : i + 1 \in 1..(n + 1) /\ lru'[i + 1] = rest[i]
  BY <1>3, <1>4
<1>7. ASSUME NEW x \in senders' \ {s}, NEW y \in senders' \ {s},
             NEW i \in 1..Len(lru), NEW j \in 1..Len(lru), i < j, lru[i] = x, lru[j] = y
      PROVE  \E a, b \in 1..Len(lru') : a < b /\ lru'[a] = x /\ lru'[b] = y
  <2>1. Full => j # Len(lru)
    BY <1>5, <1>7
  <2>2. i \in 1..n /\ j \in 1..n /\ i + 1 < j + 1
    BY <1>1, <1>3, <1>5, <1>7, <2>1
  <2>3. /\ i + 1 \in 1..Len(lru') /\ lru'[i + 1] = x
        /\ j + 1 \in 1..Len(lru') /\ lru'[j + 1] = y
    BY <1>3, <1>6, <1>7, <2>2
  <2> QED BY <2>2, <2>3
<1> QED BY <1>6, <1>7 DEF Reorders

\* A step that delivers a record of a sender reorders the list for that sender.
LEMMA StepReorders ==
    ASSUME Inv, [Next]_vars, NEW x \in Senders, opens'[x] # opens[x], x \in senders'
    PROVE  Reorders(x)
<1>0. opens \in [Senders -> [Counters -> Nat]]
  BY DEF Inv, SendInv, TypeOK
<1>1. ~UNCHANGED vars
  BY DEF vars
<1>2. ASSUME NEW s \in Senders, NEW t \in Threads,
             LoadCounter(s, t) \/ SwapCounter(s, t) \/ SwapFails(s, t)
      PROVE  FALSE
  BY <1>2 DEF LoadCounter, SwapCounter, SwapFails
<1>3. ASSUME NEW s \in Senders, NEW c \in Counters, OpenInto(s, c)
      PROVE  Reorders(x)
  <2>1. /\ Insert(s, c) \/ Advance(s, c) \/ Fill(s, c)
        /\ Deliver(s, c)
    BY <1>3 DEF OpenInto
  <2>2. x = s
    <3> SUFFICES ASSUME x # s PROVE FALSE
      OBVIOUS
    <3>1. x \in Evicted /\ s \notin senders
      BY <2>1 DEF Deliver
    <3>2. Insert(s, c)
      BY <2>1, <3>1 DEF Advance, Fill
    <3> QED BY <3>1, <3>2 DEF Insert
  <2>3. CASE Insert(s, c)
    BY <2>2, <2>3, InsertReorders
  <2>4. CASE Advance(s, c) \/ Fill(s, c)
    <3>1. s \in senders /\ lru' = MoveToFront(lru, s) /\ UNCHANGED senders
      BY <2>4 DEF Advance, Fill
    <3> QED BY <2>2, <3>1, TouchReorders
  <2> QED BY <2>1, <2>3, <2>4
<1>4. ASSUME NEW s \in Senders, NEW c \in 0..MaxCounter, OpenRefused(s, c)
      PROVE  FALSE
  BY <1>1, <1>4 DEF OpenRefused
<1> QED BY <1>1, <1>2, <1>3, <1>4 DEF Next

\* replayCache forgets the sender that has been silent the longest: an accepted
\* record takes its sender to the front of the list, nothing else changes the
\* order, and map and list lose the same sender.
THEOREM OldestIsEvicted == Spec => CacheEvictsTheOldest
<1>1. ASSUME Inv, [Next]_vars
      PROVE  [\A s \in Senders : opens'[s] # opens[s] /\ s \in senders' =>
                 /\ lru'[1] = s
                 /\ \A x, y \in senders' \ {s} :
                       (\E i, j \in 1..Len(lru) : i < j /\ lru[i] = x /\ lru[j] = y)
                          => \E i, j \in 1..Len(lru') : i < j /\ lru'[i] = x /\ lru'[j] = y]_vars
  BY <1>1, StepReorders DEF Reorders
<1>2. Spec => LruOrder
  BY <1>1, ReplayInvariance, PTL DEF Spec, LruOrder
<1> QED BY <1>2, CacheStaysConsistent, PTL DEF CacheEvictsTheOldest

-----------------------------------------------------------------------------
(* Refinement *)

\* A record that the cache accepts was not delivered since its sender is known.
LEMMA AcceptedWasNotDelivered ==
    ASSUME Inv, NEW s \in Senders, NEW c \in Counters, Accepts(s, c)
    PROVE  c \notin Delivered(s)
<1>0. /\ highest[s] \in 0..MaxCounter /\ c \in 1..MaxCounter /\ MaxCounter \in Nat
      /\ replayWindowSize \in Nat
  BY RecordFacts
<1>1. CASE Insert(s, c)
  BY <1>1 DEF Insert, Inv, WindowInv, ForgottenSendersAreBlank
<1>2. CASE Advance(s, c)
  <2>1. s \in senders /\ c > highest[s]
    BY <1>2 DEF Advance
  <2> QED BY <1>0, <2>1 DEF Inv, WindowInv, WindowIsExact
<1>3. CASE Fill(s, c)
  <2>1. /\ s \in senders /\ c <= highest[s] /\ ~(highest[s] - c >= replayWindowSize)
        /\ highest[s] - c \notin seen[s]
    BY <1>3 DEF Fill, TooOld, Duplicate
  <2>2. /\ highest[s] - c \in 0..(replayWindowSize - 1)
        /\ highest[s] - (highest[s] - c) = c
    BY <1>0, <2>1
  <2> QED BY <2>1, <2>2 DEF Inv, WindowInv, WindowIsExact
<1> QED BY <1>1, <1>2, <1>3 DEF Accepts

\* The record layer implements the abstract channel: a counter is sealed once,
\* and a remembered sender's record is opened at most once.
THEOREM ReplayRefinesChannel == Spec => ImplementsChannel
<1>1. Init => Channel!Init
  BY DEF Init, Channel!Init, Channel!Never
<1>2. ASSUME Inv, [Next]_vars
      PROVE  [Channel!Next]_(Channel!vars)
  <2>0. /\ seals \in [Senders -> [Counters -> Nat]]
        /\ opens \in [Senders -> [Counters -> Nat]]
    BY <1>2 DEF Inv, SendInv, TypeOK
  <2>1. CASE UNCHANGED vars
    BY <2>1 DEF vars, Channel!vars
  <2>2. ASSUME NEW s \in Senders, NEW t \in Threads, LoadCounter(s, t) \/ SwapFails(s, t)
        PROVE  UNCHANGED Channel!vars
    BY <2>2 DEF LoadCounter, SwapFails, Channel!vars
  <2>3. ASSUME NEW s \in Senders, NEW t \in Threads, SwapCounter(s, t)
        PROVE  Channel!Seal(s, counter[s] + 1) /\ counter[s] + 1 \in Counters
    <3> DEFINE n == counter[s] + 1
    <3>0. /\ counter[s] \in 0..MaxCounter /\ MaxCounter \in Nat
          /\ loaded[s] \in [Threads -> {Idle} \cup 0..(MaxCounter - 1)]
      BY <1>2, ReplayAssumption DEF Inv, SendInv, TypeOK
    <3>1. counter[s] \in 0..(MaxCounter - 1)
      BY <2>3, <3>0 DEF SwapCounter
    <3>2. n \in Counters
      BY <3>0, <3>1 DEF Counters
    <3>3. seals[s][n] = 0
      BY <1>2, <3>0, <3>2 DEF Inv, SendInv, CountersAreUnique
    <3>4. seals' = [seals EXCEPT ![s] = [seals[s] EXCEPT ![n] = seals[s][n] + 1]] /\ UNCHANGED opens
      BY <2>0, <2>3 DEF SwapCounter
    <3>5. seals[s][n] + 1 = 1
      BY <3>3
    <3> HIDE DEF n
    <3>6. Channel!Seal(s, n)
      BY <3>3, <3>4, <3>5 DEF Channel!Seal
    <3> QED BY <3>2, <3>6 DEF n
  <2>4. ASSUME NEW s \in Senders, NEW c \in Counters, OpenInto(s, c)
        PROVE  Channel!Open(s, c) \/ UNCHANGED Channel!vars
    <3>1. c \in Sealed(s) /\ UNCHANGED sendVars
      BY <2>4 DEF OpenInto
    <3>2. UNCHANGED seals /\ seals[s][c] = 1
      BY <1>2, <3>1 DEF Sealed, sendVars, Inv, SendInv, CountersAreUnique
    <3>3. CASE Refuse(s, c) /\ UNCHANGED opens
      BY <3>2, <3>3 DEF Channel!vars
    <3>4. CASE Accepts(s, c) /\ Deliver(s, c)
      <4>1. c \notin Delivered(s)
        BY <1>2, <3>4, AcceptedWasNotDelivered
      <4>2. opens[s][c] = 0
        BY <2>0, <4>1 DEF Delivered
      <4> DEFINE F == IF s \in senders THEN {} ELSE {x \in Senders \ {s} : x \in Evicted}
      <4>3. F \in SUBSET (Senders \ {s})
        OBVIOUS
      <4>4. [opens[s] EXCEPT ![c] = opens[s][c] + 1] = [opens[s] EXCEPT ![c] = 1]
        BY <4>2
      <4>5. opens' = [Channel!Forgotten(F) EXCEPT ![s] = [opens[s] EXCEPT ![c] = 1]]
        BY <3>4, <4>4 DEF Deliver, Channel!Forgotten, Channel!Never
      <4> HIDE DEF F
      <4> QED BY <3>2, <4>2, <4>3, <4>5 DEF Channel!Open
    <3> QED BY <2>4, <3>3, <3>4 DEF OpenInto, Accepts
  <2>5. ASSUME NEW s \in Senders, NEW c \in 0..MaxCounter, OpenRefused(s, c)
        PROVE  [Channel!Next]_(Channel!vars)
    BY <2>1, <2>5 DEF OpenRefused
  <2> QED BY <1>2, <2>1, <2>2, <2>3, <2>4, <2>5 DEF Next, Channel!Next
<1> QED BY <1>1, <1>2, ReplayInvariance, PTL DEF Spec, ImplementsChannel, Channel!Spec
=============================================================================
