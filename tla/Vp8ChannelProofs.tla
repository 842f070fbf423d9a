-------------------------- MODULE Vp8ChannelProofs --------------------------
(***************************************************************************)
(* Proofs about Vp8Channel: the server's peer table is sound, a client's   *)
(* two planes agree on its epoch whenever no restart is under way, every   *)
(* KCP session that runs has an owner, and the bytes a session delivers    *)
(* come from one sender, in its order, for every set of clients and of     *)
(* track readers, every number of epochs, sessions, messages and faults,   *)
(* every capacity of the table and every batch size. The invariants are    *)
(* defined in Vp8ChannelInvariants.                                        *)
(***************************************************************************)
EXTENDS Vp8ChannelInvariants, FiniteSetTheorems, SequenceTheorems, WellFoundedInduction, TLAPS

\* A set of numbers that is not empty has a least one.
LEMMA LeastNumber ==
  ASSUME NEW S, S \subseteq Nat, S # {} PROVE \E n \in S : \A m \in S : n <= m
<1> DEFINE R == OpToRel(<, Nat)
<1>1. IsWellFoundedOn(R, Nat) BY NatLessThanWellFounded
<1>2. \A x, y \in Nat : x < y => <<x, y>> \in R BY DEF OpToRel
<1> HIDE DEF R
<1>3. \E x \in S : \A y \in S : <<y, x>> \notin R BY ONLY <1>1, S \subseteq Nat, S # {}, WFMin
<1>4. PICK x \in S : \A y \in S : <<y, x>> \notin R BY <1>3
<1>5. \A y \in S : x \in Nat /\ y \in Nat /\ ~(y < x) BY <1>2, <1>4
<1>6. \A y \in S : x <= y BY ONLY <1>5, SMT
<1> QED BY <1>6

\* The recursive definition of Received has a solution, and its last value is
\* what Received computes.
LEMMA ReceivedIsDefined ==
  ASSUME NEW got, NEW pkts, Len(pkts) \in Nat
  PROVE  \E f : /\ f = [k \in 0 .. Len(pkts) |-> IF k = 0 THEN got ELSE Accept(f[k - 1], pkts[k])]
                /\ Received(got, pkts) = f[Len(pkts)]
<1> DEFINE n == Len(pkts)
           Solves(f, m) == f = [k \in 0 .. m |-> IF k = 0 THEN got ELSE Accept(f[k - 1], pkts[k])]
           Bad == {m \in 0 .. n : ~ \E f : Solves(f, m)}
<1>n. n \in Nat OBVIOUS
<1> HIDE DEF n
<1>1. Solves([k \in 0 .. 0 |-> got], 0) OBVIOUS
<1>2. ASSUME NEW m \in 0 .. n, m # 0, NEW f, Solves(f, m - 1) PROVE \E g : Solves(g, m)
  <2> DEFINE g == [k \in 0 .. m |-> IF k = m THEN Accept(f[m - 1], pkts[m]) ELSE f[k]]
  <2>1. m \in Nat /\ m - 1 \in Nat /\ \A k \in 0 .. m : k # m => k \in 0 .. (m - 1) BY <1>2, <1>n
  <2>2. \A k \in 0 .. m : k # 0 => k - 1 \in 0 .. m /\ k - 1 # m /\ k - 1 \in 0 .. (m - 1) BY <2>1
  <2>3. \A k \in 0 .. (m - 1) : f[k] = IF k = 0 THEN got ELSE Accept(f[k - 1], pkts[k]) BY <1>2
  <2>4. \A k \in 0 .. m : g[k] = IF k = 0 THEN got ELSE Accept(g[k - 1], pkts[k]) BY <1>2, <2>1, <2>2, <2>3
  <2>5. Solves(g, m) BY <2>4
  <2> QED BY <2>5
<1>3. Bad = {}
  <2> SUFFICES ASSUME Bad # {} PROVE FALSE OBVIOUS
  <2>1. Bad \subseteq Nat BY <1>n
  <2>2. PICK m \in Bad : \A k \in Bad : m <= k BY ONLY <2>1, Bad # {}, LeastNumber
  <2>3. m # 0 BY <1>1, <2>2
  <2>4. m \in 0 .. n /\ m - 1 \in 0 .. n /\ ~(m <= m - 1) BY <2>2, <2>3, <1>n
  <2>5. m - 1 \notin Bad BY <2>2, <2>4
  <2> QED BY <1>2, <2>2, <2>3, <2>4, <2>5
<1>4. n \in 0 .. n BY <1>n
<1>5. \E f : Solves(f, n) BY <1>3, <1>4
<1> DEFINE h == CHOOSE f : Solves(f, n)
<1>6. Solves(h, n) BY <1>5
<1>7. Received(got, pkts) = h[n] BY DEF Received, n
<1> QED BY <1>6, <1>7 DEF n

\* A session keeps what it has, and takes packets of the frame in the order of
\* their numbers.
LEMMA ReceivedExtends ==
  ASSUME NEW P, NEW got \in Seq(P), NEW pkts \in Seq(P)
  PROVE  /\ Received(got, pkts) \in Seq(P) /\ Len(got) <= Len(Received(got, pkts))
         /\ \A k \in 1 .. Len(got) : Received(got, pkts)[k] = got[k]
         /\ \A k \in 1 .. Len(Received(got, pkts)) : k > Len(got) =>
               /\ Received(got, pkts)[k][2] = k
               /\ \E j \in 1 .. Len(pkts) : Received(got, pkts)[k] = pkts[j]
<1> DEFINE n == Len(pkts)
           Fine(s) == /\ s \in Seq(P) /\ Len(got) <= Len(s)
                      /\ \A k \in 1 .. Len(got) : s[k] = got[k]
                      /\ \A k \in 1 .. Len(s) : k > Len(got) =>
                            s[k][2] = k /\ \E j \in 1 .. n : s[k] = pkts[j]
<1>n. n \in Nat /\ \A j \in 1 .. n : pkts[j] \in P OBVIOUS
<1>0. \E f : /\ f = [k \in 0 .. Len(pkts) |-> IF k = 0 THEN got ELSE Accept(f[k - 1], pkts[k])]
            /\ Received(got, pkts) = f[Len(pkts)]
  BY ONLY <1>n, ReceivedIsDefined
<1>1. PICK f : /\ f = [k \in 0 .. n |-> IF k = 0 THEN got ELSE Accept(f[k - 1], pkts[k])]
               /\ Received(got, pkts) = f[n]
  BY ONLY <1>0
<1> HIDE DEF n
<1>2. \A k \in 0 .. n : f[k] = IF k = 0 THEN got ELSE Accept(f[k - 1], pkts[k]) BY <1>1
<1>3. Fine(got) OBVIOUS
<1>4. ASSUME NEW s, Fine(s), NEW j \in 1 .. n PROVE Fine(Accept(s, pkts[j]))
  <2>1. CASE pkts[j][2] # Len(s) + 1 BY <1>4, <2>1 DEF Accept
  <2>2. CASE pkts[j][2] = Len(s) + 1
    <3> DEFINE t == Append(s, pkts[j])
    <3>1. Accept(s, pkts[j]) = t BY <2>2 DEF Accept
    <3>2. /\ t \in Seq(P) /\ Len(t) = Len(s) + 1 /\ t[Len(s) + 1] = pkts[j]
          /\ \A k \in 1 .. Len(s) : t[k] = s[k]
      BY <1>4, <1>n
    <3>3. Len(s) \in Nat /\ Len(got) \in Nat /\ Len(got) <= Len(s) BY <1>4
    <3> HIDE DEF t
    <3>4. \A k \in 1 .. Len(t) : k \in 1 .. Len(s) \/ k = Len(s) + 1 BY <3>2, <3>3
    <3>5. \A k \in 1 .. Len(got) : k \in 1 .. Len(s) BY <3>3
    <3>6. \A k \in 1 .. Len(got) : t[k] = got[k] BY <1>4, <3>2, <3>5
    <3>7. \A k \in 1 .. Len(t) : k > Len(got) => t[k][2] = k /\ \E l \in 1 .. n : t[k] = pkts[l]
      <4> SUFFICES ASSUME NEW k \in 1 .. Len(t), k > Len(got)
                   PROVE  t[k][2] = k /\ \E l \in 1 .. n : t[k] = pkts[l]
        OBVIOUS
      <4>1. CASE k = Len(s) + 1 BY <2>2, <3>2, <4>1
      <4>2. CASE k \in 1 .. Len(s) BY <1>4, <3>2, <4>2
      <4> QED BY <3>4, <4>1, <4>2
    <3>8. Len(got) <= Len(t) BY <3>2, <3>3
    <3>9. Fine(t) BY <3>2, <3>6, <3>7, <3>8
    <3> QED BY <3>1, <3>9
  <2> QED BY <2>1, <2>2
<1> HIDE DEF Fine
<1> DEFINE Bad == {k \in 0 .. n : ~Fine(f[k])}
<1>5. Bad = {}
  <2> SUFFICES ASSUME Bad # {} PROVE FALSE OBVIOUS
  <2>1. Bad \subseteq Nat BY <1>n
  <2>2. PICK m \in Bad : \A k \in Bad : m <= k BY ONLY <2>1, Bad # {}, LeastNumber
  <2>3. m # 0 BY <1>2, <1>3, <2>2
  <2>4. m \in 1 .. n /\ m - 1 \in 0 .. n /\ ~(m <= m - 1) BY <2>2, <2>3, <1>n
  <2>5. Fine(f[m - 1]) BY <2>2, <2>4
  <2>6. f[m] = Accept(f[m - 1], pkts[m]) BY <1>2, <2>2, <2>3
  <2> QED BY <1>4, <2>2, <2>4, <2>5, <2>6
<1>6. Fine(f[n]) BY <1>5, <1>n
<1>7. Fine(Received(got, pkts)) BY <1>1, <1>6
<1> QED BY ONLY <1>7 DEF Fine, n

------------------------------------------------------------------------------

LEMMA CountNames ==
  ASSUME NEW n, NEW k \in Nat PROVE Cardinality({<<n, j>> : j \in 1 .. k}) = k
<1> DEFINE T == {<<n, j>> : j \in 1 .. k}
           f == [j \in 1 .. k |-> <<n, j>>]
<1>1. f \in Bijection(1 .. k, T) BY DEF Bijection, Injection, Surjection, IsInjective
<1>2. ExistsBijection(1 .. k, T) BY <1>1 DEF ExistsBijection
<1>3. IsFiniteSet(1 .. k) /\ Cardinality(1 .. k) = k BY FS_Interval
<1> QED BY <1>2, <1>3, FS_Bijection

LEMMA FreshIsNew ==
  ASSUME NamesInv, NEW n \in Nodes
  PROVE  \E k \in Nat : /\ Fresh(n) = <<n, k + 1>>
                        /\ {i \in DOMAIN rt : i[1] = n} = {<<n, j>> : j \in 1 .. k}
                        /\ Fresh(n) \notin DOMAIN rt
<1>1. PICK k \in Nat : {i \in DOMAIN rt : i[1] = n} = {<<n, j>> : j \in 1 .. k} BY DEF NamesInv
<1>2. Fresh(n) = <<n, k + 1>> BY <1>1, CountNames DEF Fresh
<1>3. <<n, k + 1>> \notin {<<n, j>> : j \in 1 .. k} OBVIOUS
<1>4. <<n, k + 1>> \notin DOMAIN rt BY <1>1, <1>3
<1> QED BY <1>1, <1>2, <1>4

LEMMA NamesStay ==
  ASSUME NamesInv, \/ DOMAIN rt' = DOMAIN rt
                   \/ \E n \in Nodes : DOMAIN rt' = DOMAIN rt \cup {Fresh(n)}
  PROVE  NamesInv'
<1>1. CASE DOMAIN rt' = DOMAIN rt BY <1>1 DEF NamesInv
<1>2. ASSUME NEW n \in Nodes, DOMAIN rt' = DOMAIN rt \cup {Fresh(n)} PROVE NamesInv'
  <2>1. PICK k \in Nat : /\ Fresh(n) = <<n, k + 1>>
                         /\ {i \in DOMAIN rt : i[1] = n} = {<<n, j>> : j \in 1 .. k}
    BY FreshIsNew
  <2> SUFFICES ASSUME NEW m \in Nodes
               PROVE  \E l \in Nat : {i \in DOMAIN rt' : i[1] = m} = {<<m, j>> : j \in 1 .. l}
    BY DEF NamesInv
  <2>2. CASE m = n
    <3>1. \A j \in 1 .. (k + 1) : j \in 1 .. k \/ j = k + 1 OBVIOUS
    <3>2. \A j \in 1 .. k : j \in 1 .. (k + 1) OBVIOUS
    <3>3. k + 1 \in 1 .. (k + 1) /\ k + 1 \in Nat OBVIOUS
    <3>4. {i \in DOMAIN rt' : i[1] = n} = {<<n, j>> : j \in 1 .. k} \cup {<<n, k + 1>>} BY <1>2, <2>1
    <3>5. {i \in DOMAIN rt' : i[1] = n} = {<<n, j>> : j \in 1 .. (k + 1)} BY <3>1, <3>2, <3>3, <3>4
    <3> QED BY <2>2, <3>3, <3>5
  <2>3. CASE m # n BY <1>2, <2>1, <2>3 DEF NamesInv
  <2> QED BY <2>2, <2>3
<1> QED BY <1>1, <1>2

------------------------------------------------------------------------------
(* What the operators do to the runtimes.                                   *)

LEMMA RuntimeFields ==
  ASSUME NEW E, NEW rts, RuntimesOK(rts, E), NEW i \in DOMAIN rts
  PROVE  /\ i \in Ids
         /\ rts[i].plane \in Planes /\ rts[i].src \in E \ {0} /\ rts[i].src \in E /\ rts[i].dst \in E /\ rts[i].msgs \in Seq(E)
         /\ rts[i].acked \in Nat /\ rts[i].got \in Seq(SentBy(rts)) /\ rts[i].open \in BOOLEAN
         /\ Len(rts[i].msgs) \in Nat
         /\ rts[i] \in RuntimeType(E, SentBy(rts))
BY DEF RuntimesOK, RuntimeType

LEMMA SentGrows ==
  ASSUME NEW E, NEW rts, RuntimesOK(rts, E), NEW new, Grows(rts, new),
         \A i \in DOMAIN rts : Len(new[i].msgs) \in Nat
  PROVE  SentBy(rts) \subseteq SentBy(new)
<1> SUFFICES ASSUME NEW x \in SentBy(rts) PROVE x \in SentBy(new) OBVIOUS
<1>1. /\ x \in (DOMAIN rts) \X Nat /\ x[1] \in DOMAIN rts /\ x[2] \in 1 .. Len(rts[x[1]].msgs) /\ x[2] \in Nat
  BY DEF SentBy
<1>2. Len(rts[x[1]].msgs) \in Nat /\ Len(new[x[1]].msgs) \in Nat /\ Len(rts[x[1]].msgs) <= Len(new[x[1]].msgs)
  BY <1>1, RuntimeFields DEF Grows
<1>3. x[2] \in 1 .. Len(new[x[1]].msgs) BY <1>1, <1>2
<1>4. x \in (DOMAIN new) \X Nat BY <1>1 DEF Grows
<1> QED BY <1>3, <1>4 DEF SentBy

LEMMA SeqGrows ==
  ASSUME NEW P, NEW Q, P \subseteq Q PROVE Seq(P) \subseteq Seq(Q)
BY SeqMonotonic

\* A family of runtimes that grows keeps its types when each of them does.
LEMMA StillRuntimes ==
  ASSUME NEW E, NEW rts, RuntimesOK(rts, E), NEW new, Grows(rts, new),
         new = [i \in DOMAIN new |-> new[i]], DOMAIN new \subseteq Ids,
         \A i \in DOMAIN new : new[i] \in RuntimeType(E, SentBy(rts))
  PROVE  RuntimesOK(new, E) /\ SentBy(rts) \subseteq SentBy(new)
<1>1. \A i \in DOMAIN new : Len(new[i].msgs) \in Nat BY DEF RuntimeType
<1>2. SentBy(rts) \subseteq SentBy(new) BY <1>1, SentGrows DEF Grows
<1>3. Seq(SentBy(rts)) \subseteq Seq(SentBy(new)) BY <1>2, SeqGrows
<1>4. \A r \in RuntimeType(E, SentBy(rts)) : r \in RuntimeType(E, SentBy(new)) BY <1>3 DEF RuntimeType
<1> QED BY <1>2, <1>4 DEF RuntimesOK

LEMMA ShutOK ==
  ASSUME NEW E, NEW rts, RuntimesOK(rts, E), NEW ids
  PROVE  LET new == Shut(rts, ids)
         IN  /\ RuntimesOK(new, E) /\ Grows(rts, new) /\ SentBy(rts) \subseteq SentBy(new)
             /\ DOMAIN new = DOMAIN rts
             /\ \A i \in DOMAIN rts :
                  /\ new[i].src = rts[i].src /\ new[i].dst = rts[i].dst /\ new[i].plane = rts[i].plane
                  /\ new[i].msgs = rts[i].msgs /\ new[i].got = rts[i].got
                  /\ new[i].open <=> rts[i].open /\ i \notin ids
<1> DEFINE new == Shut(rts, ids)
<1>1. DOMAIN new = DOMAIN rts /\ new = [i \in DOMAIN new |-> new[i]] BY DEF Shut
<1>2. \A i \in DOMAIN rts : new[i] = IF i \in ids THEN [rts[i] EXCEPT !.open = FALSE] ELSE rts[i] BY DEF Shut
<1> HIDE DEF new
<1>3. ASSUME NEW i \in DOMAIN rts
      PROVE  /\ new[i] \in RuntimeType(E, SentBy(rts))
             /\ new[i].src = rts[i].src /\ new[i].dst = rts[i].dst /\ new[i].plane = rts[i].plane
             /\ new[i].msgs = rts[i].msgs /\ new[i].got = rts[i].got
             /\ new[i].open <=> rts[i].open /\ i \notin ids
             /\ Len(rts[i].msgs) <= Len(new[i].msgs)
  <2>1. rts[i] \in RuntimeType(E, SentBy(rts)) /\ Len(rts[i].msgs) \in Nat BY RuntimeFields
  <2>2. CASE i \in ids
    <3>1. new[i] = [rts[i] EXCEPT !.open = FALSE] BY <1>2, <2>2
    <3>2. /\ new[i] \in RuntimeType(E, SentBy(rts))
          /\ new[i].src = rts[i].src /\ new[i].dst = rts[i].dst /\ new[i].plane = rts[i].plane
          /\ new[i].msgs = rts[i].msgs /\ new[i].got = rts[i].got
          /\ new[i].open = FALSE
      BY <2>1, <3>1 DEF RuntimeType
    <3>3. Len(rts[i].msgs) <= Len(new[i].msgs) BY <2>1, <3>2
    <3> QED BY <2>2, <3>2, <3>3
  <2>3. CASE i \notin ids
    <3>1. new[i] = rts[i] BY <1>2, <2>3
    <3>2. Len(rts[i].msgs) <= Len(new[i].msgs) BY <2>1, <3>1
    <3> QED BY <2>1, <2>3, <3>1, <3>2, Zenon
  <2> QED BY <2>2, <2>3
<1>4. Grows(rts, new) BY <1>1, <1>3 DEF Grows
<1>5. DOMAIN new \subseteq Ids BY <1>1, RuntimeFields
<1>6. RuntimesOK(new, E) /\ SentBy(rts) \subseteq SentBy(new) BY <1>1, <1>3, <1>4, <1>5, StillRuntimes
<1> QED BY <1>1, <1>3, <1>4, <1>6 DEF new

LEMMA StartedOK ==
  ASSUME NEW E, 0 \in E, NEW rts, RuntimesOK(rts, E), NEW d \in Ids, d \notin DOMAIN rts,
         NEW p \in Planes, NEW src \in E \ {0}, NEW dst \in E
  PROVE  LET new == Started(rts, d, Runtime(p, src, dst))
         IN  /\ RuntimesOK(new, E) /\ Grows(rts, new) /\ SentBy(rts) \subseteq SentBy(new)
             /\ DOMAIN new = DOMAIN rts \cup {d}
             /\ \A i \in DOMAIN rts : new[i] = rts[i]
             /\ new[d] = Runtime(p, src, dst)
             /\ new[d].src = src /\ new[d].dst = dst /\ new[d].plane = p /\ new[d].open
             /\ new[d].msgs = <<>> /\ new[d].got = <<>>
<1> DEFINE new == Started(rts, d, Runtime(p, src, dst))
<1>1. /\ DOMAIN new = DOMAIN rts \cup {d} /\ new = [i \in DOMAIN new |-> new[i]]
      /\ \A i \in DOMAIN rts : new[i] = rts[i]
      /\ new[d] = Runtime(p, src, dst)
  BY DEF Started
<1> HIDE DEF new
<1>2. /\ new[d].src = src /\ new[d].dst = dst /\ new[d].plane = p /\ new[d].open = TRUE
      /\ new[d].msgs = <<>> /\ new[d].got = <<>>
  BY <1>1 DEF Runtime
<1>3. \A i \in DOMAIN rts : /\ new[i] \in RuntimeType(E, SentBy(rts))
                            /\ Len(rts[i].msgs) <= Len(new[i].msgs)
  BY <1>1, RuntimeFields
<1>4. new[d] \in RuntimeType(E, SentBy(rts)) BY <1>1 DEF Runtime, RuntimeType
<1>5. Grows(rts, new) BY <1>1, <1>3 DEF Grows
<1>6. DOMAIN new \subseteq Ids BY <1>1, RuntimeFields
<1>7. RuntimesOK(new, E) /\ SentBy(rts) \subseteq SentBy(new) BY <1>1, <1>3, <1>4, <1>5, <1>6, StillRuntimes
<1> QED BY <1>1, <1>2, <1>5, <1>7 DEF new

LEMMA SendViaOK ==
  ASSUME NEW E, NEW rts, RuntimesOK(rts, E), NEW d \in DOMAIN rts, NEW x \in E
  PROVE  LET new == SendVia(rts, d, x)
         IN  /\ RuntimesOK(new, E) /\ Grows(rts, new) /\ SentBy(rts) \subseteq SentBy(new)
             /\ DOMAIN new = DOMAIN rts
             /\ new[d].msgs = Append(rts[d].msgs, x)
             /\ \A i \in DOMAIN rts :
                  /\ new[i].src = rts[i].src /\ new[i].dst = rts[i].dst /\ new[i].plane = rts[i].plane
                  /\ new[i].got = rts[i].got /\ new[i].open = rts[i].open
                  /\ i # d => new[i] = rts[i]
             /\ <<d, Len(rts[d].msgs) + 1>> \in SentBy(new)
<1> DEFINE new == SendVia(rts, d, x)
<1>1. /\ DOMAIN new = DOMAIN rts /\ new = [i \in DOMAIN new |-> new[i]]
      /\ \A i \in DOMAIN rts : i # d => new[i] = rts[i]
      /\ new[d] = [rts[d] EXCEPT !.msgs = Append(rts[d].msgs, x)]
  BY DEF SendVia, RuntimesOK
<1> HIDE DEF new
<1>2. rts[d] \in RuntimeType(E, SentBy(rts)) /\ rts[d].msgs \in Seq(E) /\ Len(rts[d].msgs) \in Nat
  BY RuntimeFields
<1>3. /\ Append(rts[d].msgs, x) \in Seq(E)
      /\ Len(Append(rts[d].msgs, x)) = Len(rts[d].msgs) + 1
  BY <1>2
<1>4. /\ new[d] \in RuntimeType(E, SentBy(rts))
      /\ new[d].msgs = Append(rts[d].msgs, x)
      /\ new[d].src = rts[d].src /\ new[d].dst = rts[d].dst /\ new[d].plane = rts[d].plane
      /\ new[d].got = rts[d].got /\ new[d].open = rts[d].open
  BY <1>1, <1>2, <1>3 DEF RuntimeType
<1>5. \A i \in DOMAIN rts : /\ new[i] \in RuntimeType(E, SentBy(rts))
                            /\ Len(rts[i].msgs) \in Nat /\ Len(rts[i].msgs) <= Len(new[i].msgs)
                            /\ new[i].plane = rts[i].plane /\ new[i].open = rts[i].open
  <2> SUFFICES ASSUME NEW i \in DOMAIN rts
               PROVE  /\ new[i] \in RuntimeType(E, SentBy(rts))
                      /\ Len(rts[i].msgs) \in Nat /\ Len(rts[i].msgs) <= Len(new[i].msgs)
                      /\ new[i].plane = rts[i].plane /\ new[i].open = rts[i].open
    OBVIOUS
  <2>1. rts[i] \in RuntimeType(E, SentBy(rts)) /\ Len(rts[i].msgs) \in Nat BY RuntimeFields
  <2>2. CASE i = d BY <1>2, <1>3, <1>4, <2>2
  <2>3. CASE i # d BY <1>1, <2>1, <2>3
  <2> QED BY <2>2, <2>3
<1>6. Grows(rts, new) BY <1>1, <1>5 DEF Grows
<1>7. DOMAIN new \subseteq Ids BY <1>1, RuntimeFields
<1>8. RuntimesOK(new, E) /\ SentBy(rts) \subseteq SentBy(new) BY <1>1, <1>5, <1>6, <1>7, StillRuntimes
<1>9. <<d, Len(rts[d].msgs) + 1>> \in SentBy(new)
  <2> DEFINE y == <<d, Len(rts[d].msgs) + 1>>
  <2>1. y[1] = d /\ y[2] = Len(rts[d].msgs) + 1 /\ y \in (DOMAIN new) \X Nat BY <1>1, <1>2
  <2>2. y[2] \in 1 .. Len(new[d].msgs) BY <1>2, <1>3, <1>4, <2>1
  <2> HIDE DEF y
  <2>3. y \in SentBy(new) BY <2>1, <2>2 DEF SentBy
  <2> QED BY <2>3 DEF y
<1>10. \A i \in DOMAIN rts :
          /\ new[i].src = rts[i].src /\ new[i].dst = rts[i].dst /\ new[i].plane = rts[i].plane
          /\ new[i].got = rts[i].got /\ new[i].open = rts[i].open
          /\ i # d => new[i] = rts[i]
  BY <1>1, <1>4
<1> QED BY <1>1, <1>4, <1>6, <1>8, <1>9, <1>10 DEF new

LEMMA InputOK ==
  ASSUME NEW E, NEW rts, RuntimesOK(rts, E), NEW d \in DOMAIN rts, NEW pkts \in Seq(SentBy(rts))
  PROVE  LET new == Fed(rts, d, pkts)
         IN  /\ RuntimesOK(new, E) /\ Grows(rts, new) /\ SentBy(rts) \subseteq SentBy(new)
             /\ DOMAIN new = DOMAIN rts
             /\ new[d].got = IF rts[d].open THEN Received(rts[d].got, pkts) ELSE rts[d].got
             /\ new[d].got \in Seq(SentBy(rts)) /\ Len(rts[d].got) <= Len(new[d].got)
             /\ \A i \in DOMAIN rts :
                  /\ new[i].src = rts[i].src /\ new[i].dst = rts[i].dst /\ new[i].plane = rts[i].plane
                  /\ new[i].msgs = rts[i].msgs /\ new[i].open = rts[i].open
                  /\ i # d => new[i] = rts[i]
<1> DEFINE new == Fed(rts, d, pkts)
           got == IF rts[d].open THEN Received(rts[d].got, pkts) ELSE rts[d].got
<1>1. /\ DOMAIN new = DOMAIN rts /\ new = [i \in DOMAIN new |-> new[i]]
      /\ \A i \in DOMAIN rts : i # d => new[i] = rts[i]
      /\ new[d] = Input(rts[d], pkts)
  BY DEF RuntimesOK, Fed
<1> HIDE DEF new
<1>2. rts[d] \in RuntimeType(E, SentBy(rts)) /\ rts[d].got \in Seq(SentBy(rts)) /\ Len(rts[d].msgs) \in Nat
  BY RuntimeFields
<1>3. /\ Received(rts[d].got, pkts) \in Seq(SentBy(rts))
      /\ Len(rts[d].got) <= Len(Received(rts[d].got, pkts))
  BY ONLY <1>2, pkts \in Seq(SentBy(rts)), ReceivedExtends
<1>4. got \in Seq(SentBy(rts)) /\ Len(rts[d].got) <= Len(got) BY <1>2, <1>3
<1>5. new[d] = [rts[d] EXCEPT !.got = got] BY <1>1, <1>2 DEF Input, RuntimeType
<1> HIDE DEF got
<1>6. /\ new[d] \in RuntimeType(E, SentBy(rts)) /\ new[d].got = got
      /\ new[d].src = rts[d].src /\ new[d].dst = rts[d].dst /\ new[d].plane = rts[d].plane
      /\ new[d].msgs = rts[d].msgs /\ new[d].open = rts[d].open
  BY <1>2, <1>4, <1>5 DEF RuntimeType
<1>7. \A i \in DOMAIN rts : /\ new[i] \in RuntimeType(E, SentBy(rts))
                            /\ Len(rts[i].msgs) \in Nat /\ Len(rts[i].msgs) <= Len(new[i].msgs)
                            /\ new[i].src = rts[i].src /\ new[i].dst = rts[i].dst
                            /\ new[i].plane = rts[i].plane
                            /\ new[i].msgs = rts[i].msgs /\ new[i].open = rts[i].open
                            /\ i # d => new[i] = rts[i]
  BY <1>1, <1>6, RuntimeFields
<1>8. Grows(rts, new) BY <1>1, <1>7 DEF Grows
<1>9. DOMAIN new \subseteq Ids BY <1>1, RuntimeFields
<1>10. RuntimesOK(new, E) /\ SentBy(rts) \subseteq SentBy(new) BY <1>1, <1>7, <1>8, <1>9, StillRuntimes
<1> QED BY <1>1, <1>4, <1>6, <1>7, <1>8, <1>10 DEF new, got

------------------------------------------------------------------------------

LEMMA SceneFacts ==
  ASSUME NEW s \in Scenes
  PROVE  /\ IsFiniteSet(s.clients) /\ Server \notin s.clients /\ s.clients \subseteq Clients
         /\ s.epochs \in Nat /\ Cardinality(s.clients) \in Nat /\ s.epochs > Cardinality(s.clients)
<1>1. IsFiniteSet(s.clients) /\ "server" \notin s.clients /\ s.epochs > Cardinality(s.clients) /\ s.epochs \in Nat
  BY BoundsAssumption
<1>2. Cardinality(s.clients) \in Nat BY <1>1, FS_CardinalityType
<1>3. s.clients \subseteq Clients BY DEF Clients
<1> QED BY <1>1, <1>2, <1>3 DEF Server

LEMMA ServerIsNoClient == Server \notin Clients
BY SceneFacts DEF Clients

LEMMA InitInv == Init => Inv
<1> SUFFICES ASSUME Init PROVE Inv OBVIOUS
<1>1. scene \in Scenes BY DEF Init
<1> DEFINE n == Cardinality(scene.clients)
<1>2. /\ IsFiniteSet(scene.clients) /\ Server \notin scene.clients /\ scene.clients \subseteq Clients
      /\ scene.epochs \in Nat /\ n \in Nat /\ scene.epochs > n
  BY <1>1, SceneFacts
<1>3. PICK order \in Bijection(scene.clients, 1 .. n) :
        /\ epoch = [m \in Nodes |-> IF m = Server THEN 1 ELSE IF Here(m) THEN order[m] + 1 ELSE 0]
        /\ drawn = n + 1
        /\ rt = [i \in scene.clients \X {1, 2} |->
                    Runtime(IF i[2] = 1 THEN "data" ELSE "control", order[i[1]] + 1, 0)]
  BY DEF Init
<1>4. \A c \in scene.clients : order[c] \in 1 .. n BY <1>3 DEF Bijection, Injection
<1> HIDE DEF n
<1>5. /\ plane = [c \in Clients |-> [p \in Planes |-> IF Here(c) THEN <<c, IF p = "data" THEN 1 ELSE 2>> ELSE None]]
      /\ closed = [c \in Clients |-> ~Here(c)]
      /\ confirmed = [c \in Clients |-> FALSE] /\ peerEpoch = [c \in Clients |-> 0]
      /\ out = [c \in Clients |-> <<>>] /\ room = {}
      /\ sess = <<>> /\ peers = <<>> /\ tableClosed = FALSE /\ reader = Reading
      /\ go = [c \in Clients |-> [g \in Goroutines |->
                    [pc |-> IF g = "session" /\ Here(c) THEN "hello" ELSE "idle", hdr |-> 0]]]
      /\ mu = [c \in Clients |-> IF Here(c) THEN "session" ELSE "free"]
      /\ loop = [c \in Clients |-> FALSE]
      /\ upper = [p \in Planes |-> [e \in Epochs |-> <<>>]]
  BY DEF Init
<1>6. 0 \in E0 /\ 1 \in E0 \ {0} /\ \A c \in scene.clients : order[c] + 1 \in E0 \ {0} BY <1>2, <1>4 DEF E0
<1>7. /\ DOMAIN rt = scene.clients \X {1, 2} /\ rt = [i \in DOMAIN rt |-> rt[i]]
      /\ \A i \in DOMAIN rt : rt[i] = Runtime(IF i[2] = 1 THEN "data" ELSE "control", order[i[1]] + 1, 0)
  BY <1>3
<1>8. ASSUME NEW i \in DOMAIN rt
      PROVE  /\ i \in Ids /\ rt[i] \in RuntimeType(E0, SentBy(rt))
             /\ rt[i].plane = IF i[2] = 1 THEN "data" ELSE "control"
             /\ rt[i].src = order[i[1]] + 1 /\ rt[i].open = TRUE
  <2>1. i[1] \in scene.clients /\ i[2] \in {1, 2} /\ i = <<i[1], i[2]>> BY <1>7
  <2>2. i[1] \in Nodes /\ i[2] \in Nat \ {0} BY <1>2, <2>1 DEF Nodes
  <2>3. i \in Ids BY <2>1, <2>2 DEF Ids
  <2>4. rt[i] = Runtime(IF i[2] = 1 THEN "data" ELSE "control", order[i[1]] + 1, 0) BY <1>7
  <2>5. order[i[1]] + 1 \in E0 \ {0} BY <1>6, <2>1
  <2> QED BY <1>6, <2>3, <2>4, <2>5 DEF Runtime, RuntimeType, Planes
<1>9. RuntimesOK(rt, E0) BY <1>7, <1>8 DEF RuntimesOK
<1>10. RoomTypes
  <2>1. drawn \in Epochs BY <1>2, <1>3 DEF Epochs
  <2>2. epoch \in EpochMap
    <3>1. \A m \in Nodes : (IF m = Server THEN 1 ELSE IF Here(m) THEN order[m] + 1 ELSE 0) \in E0 BY <1>6 DEF Here
    <3>2. epoch \in [Nodes -> E0] BY <1>3, <3>1
    <3>3. \A m \in scene.clients \cup {Server} : m \in Nodes /\ epoch[m] # 0 BY <1>2, <1>3, <1>6 DEF Here, Nodes
    <3> QED BY <3>2, <3>3 DEF EpochMap
  <2> QED BY <1>1, <1>5, <1>9, <2>1, <2>2 DEF RoomTypes
<1>11. NamesInv
  <2> SUFFICES ASSUME NEW m \in Nodes
               PROVE  \E k \in Nat : {i \in DOMAIN rt : i[1] = m} = {<<m, j>> : j \in 1 .. k}
    BY DEF NamesInv
  <2>1. CASE m \in scene.clients
    <3>1. {i \in DOMAIN rt : i[1] = m} = {<<m, j>> : j \in 1 .. 2} BY <1>7, <2>1
    <3> QED BY <3>1
  <2>2. CASE m \notin scene.clients BY <1>7, <2>2
  <2> QED BY <2>1, <2>2
<1>12. ClientTypes
  <2>1. plane \in [Clients -> [Planes -> Ids \cup {None}]] BY <1>2, <1>5 DEF Ids, Nodes, Here
  <2>2. go \in [Clients -> [Goroutines -> [pc : PCs, hdr : Nat]]] BY <1>5 DEF PCs
  <2>3. out \in [Clients -> Seq(Stamped(E0, SentBy(rt)))] BY <1>5
  <2>4. /\ confirmed \in [Clients -> BOOLEAN] /\ closed \in [Clients -> BOOLEAN]
        /\ loop \in [Clients -> BOOLEAN] /\ peerEpoch \in [Clients -> E0]
        /\ mu \in [Clients -> Goroutines \cup {"free"}]
    BY <1>5, <1>6 DEF Goroutines, Here
  <2> QED BY <2>1, <2>2, <2>3, <2>4 DEF ClientTypes
<1>13. ServerTypes
  <2>1. reader \in [Readers -> ReaderType(E0, SentBy(rt))]
    <3>1. IdleReader \in ReaderType(E0, SentBy(rt)) BY <1>6 DEF IdleReader, ReaderType, Planes
    <3>2. [IdleReader EXCEPT !.pc = "ended"] \in ReaderType(E0, SentBy(rt)) BY <3>1 DEF ReaderType
    <3> QED BY <1>5, <3>1, <3>2 DEF Reading
  <2>2. upper \in [Planes -> [Epochs -> Seq(SentBy(rt))]] BY <1>5
  <2>3. sess \in Seq(SessionType(E0)) /\ peers \in Seq(DOMAIN sess) BY <1>5, EmptySeq
  <2>4. tableClosed \in BOOLEAN BY <1>5
  <2> QED BY <2>1, <2>2, <2>3, <2>4 DEF ServerTypes
<1>14. SessionInv /\ TableInv BY <1>5, BoundsAssumption DEF SessionInv, TableInv
<1>15. ReaderInv BY <1>5 DEF ReaderInv, Reading, IdleReader
<1>16. ASSUME NEW c \in scene.clients, NEW p \in Planes
       PROVE  /\ plane[c][p] \in DOMAIN rt /\ plane[c][p][1] = c /\ rt[plane[c][p]].plane = p
              /\ rt[plane[c][p]].open /\ rt[plane[c][p]].src = epoch[c]
  <2>1. plane[c][p] = <<c, IF p = "data" THEN 1 ELSE 2>> /\ p \in {"data", "control"}
    BY <1>2, <1>5 DEF Here, Planes
  <2>2. plane[c][p] \in DOMAIN rt /\ plane[c][p][1] = c /\ plane[c][p][2] = IF p = "data" THEN 1 ELSE 2
    BY <1>7, <2>1
  <2>3. epoch[c] = order[c] + 1 BY <1>2, <1>3 DEF Nodes, Here
  <2>4. rt[plane[c][p]].plane = p /\ rt[plane[c][p]].src = epoch[c]
    <3> DEFINE i == plane[c][p]
    <3>1. i \in DOMAIN rt /\ i[1] = c /\ i[2] = IF p = "data" THEN 1 ELSE 2 BY <2>2
    <3> HIDE DEF i
    <3>2. rt[i].plane = (IF i[2] = 1 THEN "data" ELSE "control") /\ rt[i].src = order[i[1]] + 1 BY <1>8, <3>1
    <3>3. rt[i].plane = p /\ rt[i].src = epoch[c] BY <2>1, <2>3, <3>1, <3>2
    <3> QED BY <3>3 DEF i
  <2>5. rt[plane[c][p]].open = TRUE BY <1>8, <2>2
  <2> QED BY <2>2, <2>4, <2>5
<1>17. ClientInv
  <2> SUFFICES ASSUME NEW c \in Clients PROVE PlaneInv(c) /\ MuInv(c) /\ AgreeInv(c) BY DEF ClientInv
  <2>0. "data" \in Planes /\ "control" \in Planes /\ "session" \in Goroutines /\ "provider" \in Goroutines
    BY DEF Planes, Goroutines
  <2>1. /\ \A g \in Goroutines : go[c][g].pc = (IF g = "session" /\ Here(c) THEN "hello" ELSE "idle")
        /\ mu[c] = (IF Here(c) THEN "session" ELSE "free")
        /\ closed[c] = ~Here(c) /\ loop[c] = FALSE
    BY <1>5
  <2>2. PlaneInv(c)
    <3>1. CASE c \in scene.clients BY <1>16, <3>1 DEF PlaneInv
    <3>2. CASE c \notin scene.clients BY <1>5, <2>1, <3>2 DEF Here, PlaneInv
    <3> QED BY <3>1, <3>2
  <2>3. MuInv(c) BY <2>0, <2>1 DEF MuInv
  <2>4. AgreeInv(c)
    <3>1. CASE c \in scene.clients BY <1>16, <2>0, <2>1, <3>1 DEF Here, AgreeInv
    <3>2. CASE c \notin scene.clients BY <2>1, <3>2 DEF Here, AgreeInv
    <3> QED BY <3>1, <3>2
  <2> QED BY <2>2, <2>3, <2>4
<1>18. NoStrandedRuntime
  <2> SUFFICES ASSUME NEW i \in DOMAIN rt PROVE Owned(i) BY DEF NoStrandedRuntime
  <2>1. i[1] \in scene.clients /\ i[2] \in {1, 2} /\ i = <<i[1], i[2]>> BY <1>7
  <2>2. PICK p \in Planes : i[2] = IF p = "data" THEN 1 ELSE 2 BY <2>1 DEF Planes
  <2>3. plane[i[1]][p] = i /\ closed[i[1]] = FALSE /\ i[1] \in Clients BY <1>2, <1>5, <2>1, <2>2 DEF Here
  <2> QED BY <2>3 DEF Owned
<1> QED BY <1>10, <1>11, <1>12, <1>13, <1>14, <1>15, <1>17, <1>18 DEF Inv

------------------------------------------------------------------------------
(* What a step leaves alone.                                                *)

LEMMA TypesGrow ==
  ASSUME NEW E, NEW P, NEW Q, P \subseteq Q
  PROVE  /\ Seq(P) \subseteq Seq(Q) /\ FrameType(E, P) \subseteq FrameType(E, Q)
         /\ Stamped(E, P) \subseteq Stamped(E, Q) /\ Seq(Stamped(E, P)) \subseteq Seq(Stamped(E, Q))
         /\ ReaderType(E, P) \subseteq ReaderType(E, Q)
<1>1. Seq(P) \subseteq Seq(Q) BY SeqGrows
<1>2. Stamped(E, P) \subseteq Stamped(E, Q) BY DEF Stamped
<1>3. Seq(Stamped(E, P)) \subseteq Seq(Stamped(E, Q)) BY <1>2, SeqGrows
<1>4. FrameType(E, P) \subseteq FrameType(E, Q) BY <1>1 DEF FrameType
<1>5. ReaderType(E, P) \subseteq ReaderType(E, Q) BY <1>1 DEF ReaderType
<1> QED BY <1>1, <1>2, <1>3, <1>4, <1>5

LEMMA RoomStep ==
  ASSUME RoomTypes, scene' = scene, drawn' \in Epochs, epoch' \in EpochMap,
         RuntimesOK(rt', E0), room' \subseteq FrameType(E0, SentBy(rt'))
  PROVE  RoomTypes'
<1>1. E0' = E0 /\ Epochs' = Epochs /\ EpochMap' = EpochMap BY DEF E0, Epochs, EpochMap
<1> QED BY <1>1 DEF RoomTypes

LEMMA HeldEpochs ==
  ASSUME RoomTypes
  PROVE  /\ epoch \in [Nodes -> E0] /\ \A n \in Nodes : epoch[n] \in E0
         /\ \A n \in scene.clients \cup {Server} : n \in Nodes /\ epoch[n] \in E0 \ {0}
<1>1. scene.clients \cup {Server} \subseteq Nodes BY SceneFacts DEF RoomTypes, Nodes
<1> QED BY <1>1 DEF RoomTypes, EpochMap

\* A node draws the next epoch.
LEMMA NewEpoch ==
  ASSUME RoomTypes, NEW n \in Nodes, drawn < scene.epochs, drawn' = drawn + 1,
         epoch' = [epoch EXCEPT ![n] = drawn + 1]
  PROVE  /\ drawn' \in Epochs /\ epoch' \in EpochMap /\ epoch'[n] = drawn + 1
         /\ \A m \in Nodes : m # n => epoch'[m] = epoch[m]
<1>1. scene.epochs \in Nat /\ drawn \in 1 .. scene.epochs BY SceneFacts DEF RoomTypes, Epochs
<1>2. drawn + 1 \in 1 .. scene.epochs /\ drawn + 1 \in E0 /\ drawn + 1 # 0 BY <1>1 DEF E0
<1>3. epoch \in [Nodes -> E0] /\ \A m \in scene.clients \cup {Server} : m \in Nodes /\ epoch[m] # 0 BY HeldEpochs
<1>4. /\ epoch' \in [Nodes -> E0] /\ epoch'[n] = drawn + 1
      /\ \A m \in Nodes : m # n => epoch'[m] = epoch[m]
  BY <1>2, <1>3
<1>5. \A m \in scene.clients \cup {Server} : epoch'[m] # 0 BY <1>2, <1>3, <1>4
<1> QED BY <1>2, <1>4, <1>5 DEF EpochMap, Epochs

LEMMA ServerStays ==
  ASSUME ServerTypes, SessionInv, TableInv, ReaderInv,
         UNCHANGED serverVars, Grows(rt, rt'), SentBy(rt) \subseteq SentBy(rt')
  PROVE  ServerTypes' /\ SessionInv' /\ TableInv' /\ ReaderInv'
<1>1. E0' = E0 /\ Epochs' = Epochs /\ UNCHANGED <<sess, peers, tableClosed, reader, upper>>
  BY DEF E0, Epochs, serverVars
<1>2. ServerTypes'
  <2>1. reader' \in [Readers -> ReaderType(E0, SentBy(rt'))] BY <1>1, TypesGrow DEF ServerTypes
  <2>2. upper' \in [Planes -> [Epochs -> Seq(SentBy(rt'))]] BY <1>1, TypesGrow DEF ServerTypes
  <2> QED BY <1>1, <2>1, <2>2 DEF ServerTypes
<1>3. SessionInv' BY <1>1 DEF SessionInv, Grows
<1>4. TableInv' BY <1>1 DEF TableInv
<1>5. ReaderInv' BY <1>1 DEF ReaderInv, InTable
<1> QED BY <1>2, <1>3, <1>4, <1>5

LEMMA ClientStays ==
  ASSUME NEW c \in Clients, PlaneInv(c), MuInv(c), AgreeInv(c),
         scene' = scene, Untouched(c),
         closed'[c] = closed[c], loop'[c] = loop[c], confirmed'[c] = confirmed[c],
         peerEpoch'[c] = peerEpoch[c], plane'[c] = plane[c], go'[c] = go[c], mu'[c] = mu[c],
         epoch'[c] = epoch[c]
  PROVE  PlaneInv(c)' /\ MuInv(c)' /\ AgreeInv(c)'
<1>0. "data" \in Planes /\ "control" \in Planes BY DEF Planes
<1>1. c \in scene.clients => \A p \in Planes :
        LET i == plane[c][p]
        IN  /\ i \in DOMAIN rt /\ i[1] = c /\ i \in DOMAIN rt'
            /\ rt'[i].src = rt[i].src /\ rt'[i].dst = rt[i].dst
            /\ rt'[i].plane = rt[i].plane /\ rt'[i].open = rt[i].open
  BY DEF PlaneInv, Untouched
<1>2. PlaneInv(c)' BY <1>1 DEF PlaneInv
<1>3. MuInv(c)' BY DEF MuInv, E0
<1>4. AgreeInv(c)'
  <2>1. CASE c \in scene.clients
    <3>1. \A p \in Planes : rt'[plane[c][p]].src = rt[plane[c][p]].src BY <1>1, <2>1
    <3>2. rt'[plane[c]["data"]].dst = rt[plane[c]["data"]].dst BY <1>0, <1>1, <2>1
    <3>3. Alone(c)' <=> Alone(c) BY DEF Alone
    <3> QED BY <1>0, <3>1, <3>2, <3>3 DEF AgreeInv
  <2>2. CASE c \notin scene.clients BY <2>2 DEF PlaneInv, AgreeInv
  <2> QED BY <2>1, <2>2
<1> QED BY <1>2, <1>3, <1>4

LEMMA ClientsStay ==
  ASSUME ClientTypes, ClientInv, UNCHANGED clientVars, SentBy(rt) \subseteq SentBy(rt'),
         \A c \in Clients : Untouched(c) /\ epoch'[c] = epoch[c]
  PROVE  ClientTypes' /\ ClientInv'
<1>1. /\ E0' = E0 /\ scene' = scene /\ UNCHANGED <<confirmed, peerEpoch, closed, plane, out, go, mu, loop>>
  BY DEF E0, clientVars
<1>2. out' \in [Clients -> Seq(Stamped(E0, SentBy(rt')))] BY <1>1, TypesGrow DEF ClientTypes
<1>3. ClientTypes' BY <1>1, <1>2 DEF ClientTypes
<1>4. ASSUME NEW c \in Clients PROVE PlaneInv(c)' /\ MuInv(c)' /\ AgreeInv(c)' BY <1>1, ClientStays DEF ClientInv
<1> QED BY <1>3, <1>4 DEF ClientInv

\* Nobody's runtime opens, and nobody loses one.
LEMMA OwnersStay ==
  ASSUME NoStrandedRuntime, UNCHANGED <<plane, closed, sess>>,
         \A k \in DOMAIN peers : \E j \in DOMAIN peers' : peers'[j] = peers[k],
         \A i \in DOMAIN rt' : rt'[i].open => i \in DOMAIN rt /\ rt[i].open
  PROVE  NoStrandedRuntime'
<1> SUFFICES ASSUME NEW i \in DOMAIN rt', rt'[i].open PROVE Owned(i)' \/ Overtaken(i)' BY DEF NoStrandedRuntime
<1>1. i \in DOMAIN rt /\ rt[i].open OBVIOUS
<1>2. Owned(i) \/ Overtaken(i) BY <1>1 DEF NoStrandedRuntime
<1>3. CASE Owned(i) BY <1>3 DEF Owned, RuntimesOf
<1>4. CASE Overtaken(i) BY <1>4 DEF Overtaken
<1> QED BY <1>2, <1>3, <1>4

LEMMA SameRuntimes ==
  ASSUME RoomTypes, NamesInv, rt' = rt
  PROVE  /\ RuntimesOK(rt', E0) /\ Grows(rt, rt') /\ SentBy(rt) \subseteq SentBy(rt') /\ NamesInv'
         /\ \A n : Untouched(n)
         /\ \A i \in DOMAIN rt' : rt'[i].open => i \in DOMAIN rt /\ rt[i].open
<1>1. \A i \in DOMAIN rt : Len(rt[i].msgs) \in Nat BY RuntimeFields DEF RoomTypes
<1>2. Grows(rt, rt') BY <1>1 DEF Grows
<1>3. NamesInv' BY NamesStay
<1> QED BY <1>2, <1>3 DEF RoomTypes, Untouched

------------------------------------------------------------------------------
(* The steps of a client.                                                   *)

LEMMA OneClientMoves ==
  ASSUME ClientInv, scene' = scene, NEW c \in Clients, Elsewhere(c),
         \A d \in Clients : d # c => Untouched(d),
         PlaneInv(c)', MuInv(c)', AgreeInv(c)'
  PROVE  ClientInv'
<1>1. ASSUME NEW d \in Clients, d # c PROVE PlaneInv(d)' /\ MuInv(d)' /\ AgreeInv(d)'
  BY <1>1, ClientStays DEF ClientInv, Elsewhere
<1> QED BY <1>1 DEF ClientInv

\* A client that moves is in the scene, and its planes hold its runtimes.
LEMMA ActiveClient ==
  ASSUME ClientInv, NEW c \in Clients,
         ~closed[c] \/ mu[c] # "free" \/ loop[c] \/ \E g \in Goroutines : go[c][g].pc # "idle"
  PROVE  /\ c \in scene.clients /\ c \in Nodes /\ c # Server
         /\ \A p \in Planes : /\ plane[c][p] \in DOMAIN rt /\ plane[c][p][1] = c
                              /\ rt[plane[c][p]].plane = p
                              /\ ~closed[c] => rt[plane[c][p]].open
         /\ plane[c]["data"] \in DOMAIN rt /\ plane[c]["control"] \in DOMAIN rt
         /\ PlaneInv(c) /\ MuInv(c) /\ AgreeInv(c)
<1>1. PlaneInv(c) /\ MuInv(c) /\ AgreeInv(c) BY DEF ClientInv
<1>2. c \in scene.clients BY <1>1 DEF PlaneInv
<1> QED BY <1>1, <1>2, ServerIsNoClient DEF PlaneInv, Nodes, Planes

\* A step of c that starts, stops and addresses no runtime.
LEMMA QuietStep ==
  ASSUME Inv, NEW c \in Clients, c \in scene.clients,
         UNCHANGED serverVars, UNCHANGED <<rt, plane, closed, out>>,
         drawn' \in Epochs, epoch' \in EpochMap, room' \subseteq room,
         confirmed' \in [Clients -> BOOLEAN], loop' \in [Clients -> BOOLEAN],
         peerEpoch' \in [Clients -> E0],
         go' \in [Clients -> [Goroutines -> [pc : PCs, hdr : Nat]]],
         mu' \in [Clients -> Goroutines \cup {"free"}],
         Elsewhere(c), MuInv(c)', AgreeInv(c)'
  PROVE  Inv'
<1>1. /\ RuntimesOK(rt', E0) /\ Grows(rt, rt') /\ SentBy(rt) \subseteq SentBy(rt') /\ NamesInv'
      /\ \A n : Untouched(n)
      /\ \A i \in DOMAIN rt' : rt'[i].open => i \in DOMAIN rt /\ rt[i].open
  BY SameRuntimes DEF Inv
<1>2. scene' = scene /\ UNCHANGED <<peers, sess>> /\ E0' = E0 BY DEF serverVars, E0
<1> USE <1>1 DEF Inv
<1>3. RoomTypes' BY <1>2, RoomStep DEF RoomTypes
<1>4. ServerTypes' /\ SessionInv' /\ TableInv' /\ ReaderInv' BY ServerStays
<1>5. ClientTypes' BY <1>2 DEF ClientTypes
<1>6. PlaneInv(c)' BY <1>2 DEF ClientInv, PlaneInv
<1>7. ClientInv' BY <1>2, <1>6, OneClientMoves
<1>8. NoStrandedRuntime' BY <1>2, OwnersStay
<1> QED BY <1>1, <1>3, <1>4, <1>5, <1>7, <1>8 DEF Inv

LEMMA RotateStep ==
  ASSUME Inv, NEW c \in Clients, NEW g \in Goroutines, RotateEpochHeader(c, g) PROVE Inv'
<1>0. "provider" \in Goroutines /\ "session" \in Goroutines /\ g \in {"provider", "session"} BY DEF Goroutines
<1>1. ClientTypes /\ ClientInv /\ RoomTypes /\ MuInv(c) /\ AgreeInv(c) BY DEF Inv, ClientInv
<1>2. /\ At(c, g, "restart") /\ drawn < scene.epochs
      /\ confirmed' = [confirmed EXCEPT ![c] = FALSE]
      /\ peerEpoch' = [peerEpoch EXCEPT ![c] = 0]
      /\ drawn' = drawn + 1
      /\ epoch' = [epoch EXCEPT ![c] = drawn + 1]
      /\ go' = [go EXCEPT ![c][g] = [pc |-> "rotated", hdr |-> drawn + 1]]
      /\ room' = {f \in room : f.dst # epoch[c]}
      /\ UNCHANGED <<loop, closed, rt, plane, out, mu>> /\ UNCHANGED serverVars
  BY DEF RotateEpochHeader
<1>3. c \in scene.clients /\ c \in Nodes BY <1>0, <1>1, <1>2, ActiveClient DEF At
<1>4. scene.epochs \in Nat /\ drawn \in Nat /\ drawn + 1 \in E0 /\ drawn + 1 \in Epochs /\ 0 \in E0 /\ drawn + 1 \in Nat
  BY <1>1, <1>2, SceneFacts DEF RoomTypes, Epochs, E0
<1>5. /\ drawn' \in Epochs /\ epoch' \in EpochMap /\ room' \subseteq room
      /\ peerEpoch' \in [Clients -> E0] /\ epoch'[c] = drawn + 1
      /\ \A m \in Nodes : m # c => epoch'[m] = epoch[m]
  BY <1>1, <1>2, <1>3, <1>4, NewEpoch DEF ClientTypes
<1>6. /\ confirmed' \in [Clients -> BOOLEAN] /\ loop' \in [Clients -> BOOLEAN]
      /\ mu' \in [Clients -> Goroutines \cup {"free"}]
  BY <1>1, <1>2 DEF ClientTypes
<1>7. /\ go' \in [Clients -> [Goroutines -> [pc : PCs, hdr : Nat]]]
      /\ go'[c][g] = [pc |-> "rotated", hdr |-> drawn + 1]
      /\ \A h \in Goroutines : h # g => go'[c][h] = go[c][h]
      /\ \A d \in Clients : d # c => go'[d] = go[d]
  BY <1>0, <1>1, <1>2, <1>4 DEF ClientTypes, PCs
<1>8. Elsewhere(c) BY <1>1, <1>2, <1>7 DEF Elsewhere, ClientTypes, RoomTypes, Nodes
<1>9. MuInv(c)' BY <1>0, <1>1, <1>2, <1>4, <1>7 DEF E0, serverVars, MuInv, At
<1>10. AgreeInv(c)' BY <1>0, <1>1, <1>2, <1>5, <1>7 DEF MuInv, Alone, At, AgreeInv
<1> QED BY <1>2, <1>3, <1>5, <1>6, <1>7, <1>8, <1>9, <1>10, QuietStep

LEMMA GoesTo ==
  ASSUME ClientTypes, NEW c \in Clients, NEW g \in Goroutines, NEW pc \in PCs, To(c, g, pc)
  PROVE  /\ go' \in [Clients -> [Goroutines -> [pc : PCs, hdr : Nat]]]
         /\ go'[c][g].pc = pc /\ go'[c][g].hdr = go[c][g].hdr
         /\ \A h \in Goroutines : h # g => go'[c][h] = go[c][h]
         /\ \A d \in Clients : d # c => go'[d] = go[d]
<1> DEFINE R == [pc : PCs, hdr : Nat]
           r == [go[c][g] EXCEPT !.pc = pc]
           f == [go[c] EXCEPT ![g] = r]
<1>1. go[c] \in [Goroutines -> R] /\ go[c][g] \in R /\ go \in [Clients -> [Goroutines -> R]] BY DEF ClientTypes
<1>2. go' = [go EXCEPT ![c] = f] BY DEF To
<1>3. r \in R /\ r.pc = pc /\ r.hdr = go[c][g].hdr BY <1>1
<1> HIDE DEF r, R
<1>4. f \in [Goroutines -> R] /\ f[g] = r /\ \A h \in Goroutines : h # g => f[h] = go[c][h] BY <1>1, <1>3
<1> HIDE DEF f
<1>5. go' \in [Clients -> [Goroutines -> R]] /\ go'[c] = f /\ \A d \in Clients : d # c => go'[d] = go[d]
  BY <1>1, <1>2, <1>4
<1> QED BY <1>3, <1>4, <1>5 DEF R

LEMMA ControlHeaderStep ==
  ASSUME Inv, NEW c \in Clients, NEW g \in Goroutines, ControlEpochHeader(c, g) PROVE Inv'
<1>0. "provider" \in Goroutines /\ "session" \in Goroutines /\ g \in {"provider", "session"} BY DEF Goroutines
<1>1. ClientTypes /\ ClientInv /\ RoomTypes /\ MuInv(c) /\ AgreeInv(c) BY DEF Inv, ClientInv
<1>2. /\ At(c, g, "data")
      /\ go' = [go EXCEPT ![c][g] = [pc |-> "header", hdr |-> epoch[c]]]
      /\ UNCHANGED <<loop, epoch, drawn, confirmed, peerEpoch, closed, rt, plane, out, room, mu>>
      /\ UNCHANGED serverVars
  BY DEF ControlEpochHeader
<1>3. c \in scene.clients /\ c \in Nodes BY <1>0, <1>1, <1>2, ActiveClient DEF At
<1>4. epoch[c] \in E0 \ {0} /\ epoch[c] \in Nat BY <1>1, <1>3, HeldEpochs DEF E0
<1>5. /\ drawn' \in Epochs /\ epoch' \in EpochMap /\ room' \subseteq room
      /\ peerEpoch' \in [Clients -> E0]
  BY <1>1, <1>2 DEF RoomTypes, ClientTypes
<1>6. /\ confirmed' \in [Clients -> BOOLEAN] /\ loop' \in [Clients -> BOOLEAN]
      /\ mu' \in [Clients -> Goroutines \cup {"free"}]
  BY <1>1, <1>2 DEF ClientTypes
<1>7. /\ go' \in [Clients -> [Goroutines -> [pc : PCs, hdr : Nat]]]
      /\ go'[c][g] = [pc |-> "header", hdr |-> epoch[c]]
      /\ \A h \in Goroutines : h # g => go'[c][h] = go[c][h]
      /\ \A d \in Clients : d # c => go'[d] = go[d]
  BY <1>0, <1>1, <1>2, <1>4 DEF ClientTypes, PCs
<1>8. Elsewhere(c) BY <1>2, <1>7 DEF Elsewhere
<1>9. MuInv(c)' BY <1>0, <1>1, <1>2, <1>4, <1>7 DEF E0, serverVars, MuInv, At
<1>10. AgreeInv(c)'
  <2>1. (Alone(c)' => Alone(c)) /\ (Alone(c)' => mu[c] = g /\ ~loop[c])
    BY <1>0, <1>1, <1>2, <1>7 DEF MuInv, Alone, At
  <2>2. CASE ~closed[c] /\ Alone(c) /\ mu[c] = g BY <1>0, <1>1, <1>2, <1>7, <2>1, <2>2 DEF AgreeInv, At
  <2> QED BY <1>2, <2>1, <2>2 DEF AgreeInv
<1> QED BY <1>2, <1>3, <1>5, <1>6, <1>7, <1>8, <1>9, <1>10, QuietStep

LEMMA ProviderReconnectedStep ==
  ASSUME Inv, NEW c \in Clients, ProviderReconnected(c) PROVE Inv'
<1>0. "provider" \in Goroutines /\ "session" \in Goroutines /\ "restart" \in PCs BY DEF Goroutines, PCs
<1>1. ClientTypes /\ ClientInv /\ RoomTypes /\ MuInv(c) /\ AgreeInv(c) BY DEF Inv, ClientInv
<1>2. /\ At(c, "provider", "idle") /\ ~closed[c] /\ To(c, "provider", "restart")
      /\ UNCHANGED <<loop, epoch, drawn, confirmed, peerEpoch, closed, rt, plane, out, room, mu>>
      /\ UNCHANGED serverVars
  BY DEF ProviderReconnected
<1>3. c \in scene.clients BY <1>1, <1>2, ActiveClient
<1>5. /\ drawn' \in Epochs /\ epoch' \in EpochMap /\ room' \subseteq room
      /\ peerEpoch' \in [Clients -> E0]
  BY <1>1, <1>2 DEF RoomTypes, ClientTypes
<1>6. /\ confirmed' \in [Clients -> BOOLEAN] /\ loop' \in [Clients -> BOOLEAN]
      /\ mu' \in [Clients -> Goroutines \cup {"free"}]
  BY <1>1, <1>2 DEF ClientTypes
<1>7. /\ go' \in [Clients -> [Goroutines -> [pc : PCs, hdr : Nat]]]
      /\ go'[c]["provider"].pc = "restart" /\ go'[c]["session"] = go[c]["session"]
      /\ \A h \in Goroutines : h # "provider" => go'[c][h] = go[c][h]
      /\ \A d \in Clients : d # c => go'[d] = go[d]
  BY <1>0, <1>1, <1>2, GoesTo
<1>8. Elsewhere(c) BY <1>2, <1>7 DEF Elsewhere
<1>9. MuInv(c)' BY <1>0, <1>1, <1>2, <1>7 DEF E0, serverVars, MuInv, At
<1>10. AgreeInv(c)' BY <1>0, <1>1, <1>2, <1>7 DEF MuInv, Alone, At, AgreeInv
<1> QED BY <1>2, <1>3, <1>5, <1>6, <1>7, <1>8, <1>9, <1>10, QuietStep

\* reconnectMu is taken, by the provider after its restart or by the session.
LEMMA LockStep ==
  ASSUME Inv, NEW c \in Clients, NEW g \in Goroutines, LockReconnect(c, g),
         \/ g = "provider" /\ At(c, g, "restarted")
         \/ g = "session" /\ At(c, g, "idle") /\ loop[c],
         UNCHANGED <<epoch, drawn, confirmed, peerEpoch, closed, rt, plane, out, room>>,
         UNCHANGED serverVars
  PROVE  Inv'
<1>0. "provider" \in Goroutines /\ "session" \in Goroutines /\ "restart" \in PCs /\ g \in {"provider", "session"}
  BY DEF Goroutines, PCs
<1>1. ClientTypes /\ ClientInv /\ RoomTypes /\ MuInv(c) /\ AgreeInv(c) BY DEF Inv, ClientInv
<1>2. /\ mu[c] = "free" /\ mu' = [mu EXCEPT ![c] = g] /\ loop' = [loop EXCEPT ![c] = FALSE]
      /\ To(c, g, "restart")
  BY DEF LockReconnect
<1>3. c \in scene.clients BY <1>0, <1>1, ActiveClient DEF At
<1>5. /\ drawn' \in Epochs /\ epoch' \in EpochMap /\ room' \subseteq room
      /\ peerEpoch' \in [Clients -> E0]
  BY <1>1 DEF RoomTypes, ClientTypes
<1>6. /\ confirmed' \in [Clients -> BOOLEAN] /\ loop' \in [Clients -> BOOLEAN]
      /\ mu' \in [Clients -> Goroutines \cup {"free"}] /\ mu'[c] = g /\ loop'[c] = FALSE
      /\ \A d \in Clients : d # c => mu'[d] = mu[d] /\ loop'[d] = loop[d]
  BY <1>1, <1>2 DEF ClientTypes
<1>7. /\ go' \in [Clients -> [Goroutines -> [pc : PCs, hdr : Nat]]]
      /\ go'[c][g].pc = "restart"
      /\ \A h \in Goroutines : h # g => go'[c][h] = go[c][h]
      /\ \A d \in Clients : d # c => go'[d] = go[d]
  BY <1>0, <1>1, <1>2, GoesTo
<1>8. Elsewhere(c) BY <1>6, <1>7 DEF Elsewhere
<1>9. MuInv(c)' BY <1>0, <1>1, <1>2, <1>6, <1>7 DEF E0, serverVars, MuInv, At
<1>10. AgreeInv(c)' BY <1>0, <1>6, <1>7 DEF AgreeInv
<1> QED BY <1>3, <1>5, <1>6, <1>7, <1>8, <1>9, <1>10, QuietStep

\* reconnectMu is released or kept at the end of a reset, or released after a
\* handshake that failed.
LEMMA UnlockStep ==
  ASSUME Inv, NEW c \in Clients, NEW g \in Goroutines, mu[c] = g,
         go[c][g].pc \in {"restarted", "hello", "welcome"},
         \/ mu' = [mu EXCEPT ![c] = "free"] /\ To(c, g, "idle")
         \/ g = "provider" /\ mu' = mu /\ To(c, g, "hello"),
         UNCHANGED <<loop, epoch, drawn, confirmed, peerEpoch, closed, rt, plane, out, room>>,
         UNCHANGED serverVars
  PROVE  Inv'
<1>0. /\ "provider" \in Goroutines /\ "session" \in Goroutines /\ "idle" \in PCs /\ "hello" \in PCs
      /\ g \in {"provider", "session"}
  BY DEF Goroutines, PCs
<1>1. ClientTypes /\ ClientInv /\ RoomTypes /\ MuInv(c) /\ AgreeInv(c) BY DEF Inv, ClientInv
<1>3. c \in scene.clients BY <1>0, <1>1, ActiveClient
<1>5. /\ drawn' \in Epochs /\ epoch' \in EpochMap /\ room' \subseteq room
      /\ peerEpoch' \in [Clients -> E0]
  BY <1>1 DEF RoomTypes, ClientTypes
<1>6. /\ confirmed' \in [Clients -> BOOLEAN] /\ loop' \in [Clients -> BOOLEAN]
      /\ mu' \in [Clients -> Goroutines \cup {"free"}]
      /\ \A d \in Clients : d # c => mu'[d] = mu[d]
  BY <1>1 DEF ClientTypes
<1>7. /\ go' \in [Clients -> [Goroutines -> [pc : PCs, hdr : Nat]]]
      /\ \/ mu'[c] = "free" /\ go'[c][g].pc = "idle"
         \/ g = "provider" /\ mu'[c] = mu[c] /\ go'[c][g].pc = "hello"
      /\ \A h \in Goroutines : h # g => go'[c][h] = go[c][h]
      /\ \A d \in Clients : d # c => go'[d] = go[d]
  <2>1. CASE mu' = [mu EXCEPT ![c] = "free"] /\ To(c, g, "idle") BY <1>0, <1>1, <2>1, GoesTo DEF ClientTypes
  <2>2. CASE g = "provider" /\ mu' = mu /\ To(c, g, "hello") BY <1>0, <1>1, <2>2, GoesTo
  <2> QED BY <2>1, <2>2
<1>8. Elsewhere(c) BY <1>6, <1>7 DEF Elsewhere
<1>9. MuInv(c)' BY <1>0, <1>1, <1>7 DEF E0, serverVars, MuInv
<1>10. AgreeInv(c)'
  <2> SUFFICES ASSUME ~closed[c], Alone(c)' PROVE AgreeInv(c)' BY DEF AgreeInv
  <2>1. Alone(c) /\ ~loop[c] BY <1>0, <1>1, <1>7 DEF MuInv, Alone
  <2>2. rt[plane[c]["data"]].src = epoch[c] /\ rt[plane[c]["control"]].src = epoch[c] BY <1>1, <2>1 DEF AgreeInv
  <2>3. \A p \in Planes : rt[plane[c][p]].src = epoch[c] BY <2>2 DEF Planes
  <2>4. CASE mu'[c] = "free" BY <2>1, <2>3, <2>4 DEF AgreeInv, Goroutines
  <2>5. CASE g = "provider" /\ mu'[c] = mu[c] /\ go'[c][g].pc = "hello" BY <2>1, <2>2, <2>5 DEF AgreeInv
  <2> QED BY <1>7, <2>4, <2>5
<1> QED BY <1>3, <1>5, <1>6, <1>7, <1>8, <1>9, <1>10, QuietStep

\* A step that only queues packets or writes frames.
LEMMA WriteStep ==
  ASSUME Inv, UNCHANGED <<rt, epoch, drawn, confirmed, peerEpoch, closed, plane, go, mu, loop>>,
         UNCHANGED serverVars,
         out' \in [Clients -> Seq(Stamped(E0, SentBy(rt)))],
         room' \subseteq FrameType(E0, SentBy(rt))
  PROVE  Inv'
<1>1. /\ RuntimesOK(rt', E0) /\ Grows(rt, rt') /\ SentBy(rt) \subseteq SentBy(rt') /\ NamesInv'
      /\ \A n : Untouched(n)
      /\ \A i \in DOMAIN rt' : rt'[i].open => i \in DOMAIN rt /\ rt[i].open
  BY SameRuntimes DEF Inv
<1>2. scene' = scene /\ UNCHANGED <<peers, sess>> /\ E0' = E0 BY DEF serverVars, E0
<1>3. RoomTypes' BY <1>1, <1>2, RoomStep DEF Inv, RoomTypes
<1>4. ServerTypes' /\ SessionInv' /\ TableInv' /\ ReaderInv' BY <1>1, ServerStays DEF Inv
<1>5. ClientTypes' BY <1>2 DEF Inv, ClientTypes
<1>6. ClientInv'
  <2>1. ASSUME NEW c \in Clients PROVE PlaneInv(c)' /\ MuInv(c)' /\ AgreeInv(c)'
    BY <1>1, <1>2, ClientStays DEF Inv, ClientInv
  <2> QED BY <2>1 DEF ClientInv
<1>7. NoStrandedRuntime' BY <1>1, <1>2, OwnersStay DEF Inv
<1> QED BY <1>1, <1>3, <1>4, <1>5, <1>6, <1>7 DEF Inv

\* A packet of a runtime that exists.
LEMMA SentPacket ==
  ASSUME NEW rts, NEW i \in DOMAIN rts, NEW sn \in 1 .. Len(rts[i].msgs), Len(rts[i].msgs) \in Nat
  PROVE  <<i, sn>> \in SentBy(rts)
<1> DEFINE x == <<i, sn>>
<1>1. x[1] = i /\ x[2] = sn /\ x \in (DOMAIN rts) \X Nat OBVIOUS
<1> HIDE DEF x
<1>2. x \in SentBy(rts) BY <1>1 DEF SentBy
<1> QED BY <1>2 DEF x

LEMMA QueueStep ==
  ASSUME Inv, NEW c \in Clients, NEW i \in DOMAIN rt, NEW sn \in 1 .. Len(rt[i].msgs), WriteTo(c, i, sn)
  PROVE  out' \in [Clients -> Seq(Stamped(E0, SentBy(rt)))]
<1>1. out \in [Clients -> Seq(Stamped(E0, SentBy(rt)))] /\ RuntimesOK(rt, E0) BY DEF Inv, ClientTypes, RoomTypes
<1>2. rt[i].src \in E0 /\ rt[i].dst \in E0 /\ Len(rt[i].msgs) \in Nat BY <1>1, RuntimeFields
<1>3. <<i, sn>> \in SentBy(rt) BY <1>2, SentPacket
<1>4. Queued(c, i, sn) \in Stamped(E0, SentBy(rt)) BY <1>2, <1>3 DEF Queued, Stamped
<1>5. out' = [out EXCEPT ![c] = Append(out[c], Queued(c, i, sn))] BY DEF WriteTo
<1>6. Append(out[c], Queued(c, i, sn)) \in Seq(Stamped(E0, SentBy(rt))) BY <1>1, <1>4
<1> QED BY <1>1, <1>5, <1>6

LEMMA FlushStep ==
  ASSUME Inv, NEW c \in Clients, Flush(c) PROVE Inv'
<1>1. PICK sn \in 1 .. Len(rt[plane[c]["data"]].msgs) : WriteTo(c, plane[c]["data"], sn) BY DEF Flush
<1>2. plane[c]["data"] \in DOMAIN rt BY ActiveClient DEF Flush, Inv
<1>3. out' \in [Clients -> Seq(Stamped(E0, SentBy(rt)))] BY <1>1, <1>2, QueueStep
<1> QED BY <1>3, WriteStep DEF Flush, Inv, RoomTypes

LEMMA LateWriteStep ==
  ASSUME Inv, NEW c \in Clients, LateWriteTo(c) PROVE Inv'
<1>1. PICK i \in DOMAIN rt : \E sn \in 1 .. Len(rt[i].msgs) : WriteTo(c, i, sn) BY DEF LateWriteTo
<1>2. out' \in [Clients -> Seq(Stamped(E0, SentBy(rt)))] BY <1>1, QueueStep
<1> QED BY <1>2, WriteStep DEF LateWriteTo, Inv, RoomTypes

LEMMA DrainDataStep ==
  ASSUME Inv, NEW c \in Clients, DrainData(c) PROVE Inv'
<1> DEFINE q == out[c]
           n == Min({Len(out[c]), batchSize})
           batch == SubSeq(out[c], 1, n)
           rest == SubSeq(out[c], n + 1, Len(out[c]))
           S == Stamped(E0, SentBy(rt))
<1>1. /\ out \in [Clients -> Seq(S)] /\ q \in Seq(S) /\ q # <<>> /\ room \subseteq FrameType(E0, SentBy(rt))
      /\ Len(q) \in Nat /\ Len(q) # 0
  BY DEF Inv, ClientTypes, RoomTypes, DrainData
<1>2. /\ room' = room \cup {BatchSampleFrom(batch)}
      /\ out' = [out EXCEPT ![c] = rest]
  BY DEF DrainData
<1>3. n \in 1 .. Len(q)
  <2>1. \E x \in {Len(q), batchSize} : \A y \in {Len(q), batchSize} : x <= y BY <1>1, BoundsAssumption
  <2>2. n \in {Len(q), batchSize} /\ n <= Len(q) BY <2>1 DEF Min
  <2> QED BY <1>1, <2>2, BoundsAssumption
<1> HIDE DEF n
<1>4. /\ batch \in Seq(S) /\ Len(batch) = n /\ rest \in Seq(S) BY <1>1, <1>3
<1> HIDE DEF batch, rest
<1>5. batch[1] \in S /\ DOMAIN batch = 1 .. n /\ \A k \in 1 .. n : batch[k] \in S BY <1>3, <1>4
<1>6. BatchSampleFrom(batch) \in FrameType(E0, SentBy(rt))
  BY <1>3, <1>5 DEF Stamped, BatchSampleFrom, FrameType, Planes
<1>7. out' \in [Clients -> Seq(S)] /\ room' \subseteq FrameType(E0, SentBy(rt)) BY <1>1, <1>2, <1>4, <1>6
<1> QED BY <1>7, WriteStep DEF DrainData

LEMMA KeepaliveStep ==
  ASSUME Inv, NEW c \in Clients, ForceKeepalive(c) PROVE Inv'
<1> DEFINE f == [plane |-> "data", src |-> epoch[c], dst |-> 0, pkts |-> <<>>]
<1>1. /\ room' = room \cup {f} /\ UNCHANGED <<epoch, drawn, rt>> /\ UNCHANGED clientVars /\ UNCHANGED serverVars
  BY DEF ForceKeepalive
<1>2. epoch[c] \in E0 /\ 0 \in E0 BY SceneFacts, HeldEpochs DEF Inv, RoomTypes, E0, Nodes
<1>3. f \in FrameType(E0, SentBy(rt)) BY <1>2 DEF FrameType, Planes
<1> HIDE DEF f
<1> QED BY <1>1, <1>3, WriteStep DEF Inv, RoomTypes, ClientTypes, clientVars

LEMMA DrainControlStep ==
  ASSUME Inv, NEW c \in Clients, DrainControl(c) PROVE Inv'
<1> DEFINE i == plane[c]["control"]
<1>1. i \in DOMAIN rt BY ActiveClient DEF DrainControl, Inv
<1>2. PICK sn \in 1 .. Len(rt[i].msgs) : room' = room \cup {FrameOf(rt[i], <<<<i, sn>>>>)} BY DEF DrainControl
<1>3. UNCHANGED <<epoch, drawn, rt>> /\ UNCHANGED clientVars /\ UNCHANGED serverVars BY DEF DrainControl
<1> HIDE DEF i
<1>4. rt[i].src \in E0 /\ rt[i].dst \in E0 /\ Len(rt[i].msgs) \in Nat /\ rt[i].plane \in Planes
  BY <1>1, RuntimeFields DEF Inv, RoomTypes
<1>5. <<i, sn>> \in SentBy(rt) BY <1>1, <1>4, SentPacket
<1>6. FrameOf(rt[i], <<<<i, sn>>>>) \in FrameType(E0, SentBy(rt)) BY <1>4, <1>5 DEF FrameOf, FrameType
<1> QED BY <1>2, <1>3, <1>6, WriteStep DEF Inv, RoomTypes, ClientTypes, clientVars

LEMMA PeerRestartStep ==
  ASSUME Inv, NEW c \in Clients, MaybePeerRestart(c) PROVE Inv'
BY WriteStep DEF MaybePeerRestart, Inv, RoomTypes, ClientTypes

LEMMA RestartPlaneFacts ==
  ASSUME Inv, NEW c \in Clients, NEW p \in Planes, NEW src \in E0 \ {0}, ~closed[c], RestartPlane(c, p, src)
  PROVE  /\ RuntimesOK(rt', E0) /\ Grows(rt, rt') /\ SentBy(rt) \subseteq SentBy(rt') /\ NamesInv'
         /\ Replaced(c, p, src)
<1> DEFINE old == plane[c][p]
           mid == Shut(rt, {old})
           new == Fresh(c)
<1>1. /\ rt' = Started(mid, new, Runtime(p, src, 0))
      /\ plane' = [plane EXCEPT ![c][p] = new]
  BY DEF RestartPlane
<1>2. RuntimesOK(rt, E0) /\ NamesInv /\ c \in Nodes /\ plane \in [Clients -> [Planes -> Ids \cup {None}]] /\ 0 \in E0
  BY SceneFacts DEF Inv, RoomTypes, ClientTypes, Nodes, E0
<1>3. /\ RuntimesOK(mid, E0) /\ Grows(rt, mid) /\ SentBy(rt) \subseteq SentBy(mid) /\ DOMAIN mid = DOMAIN rt
      /\ \A i \in DOMAIN rt :
            /\ mid[i].src = rt[i].src /\ mid[i].dst = rt[i].dst /\ mid[i].plane = rt[i].plane
            /\ mid[i].msgs = rt[i].msgs /\ mid[i].got = rt[i].got
            /\ mid[i].open <=> rt[i].open /\ i \notin {old}
  BY <1>2, ShutOK
<1>4. new \in Ids /\ new[1] = c /\ new \notin DOMAIN rt BY <1>2, FreshIsNew DEF Ids
<1> HIDE DEF mid, new
<1>5. /\ RuntimesOK(rt', E0) /\ Grows(mid, rt') /\ SentBy(mid) \subseteq SentBy(rt')
      /\ DOMAIN rt' = DOMAIN mid \cup {new}
      /\ \A i \in DOMAIN mid : rt'[i] = mid[i]
      /\ rt'[new].src = src /\ rt'[new].dst = 0 /\ rt'[new].plane = p /\ rt'[new].open
      /\ rt'[new].msgs = <<>> /\ rt'[new].got = <<>> /\ rt'[new] = Runtime(p, src, 0)
  <2> DEFINE st == Started(mid, new, Runtime(p, src, 0))
  <2>1. /\ RuntimesOK(mid, E0) /\ 0 \in E0 /\ new \in Ids /\ new \notin DOMAIN mid
        /\ p \in Planes /\ src \in E0 \ {0}
    BY <1>2, <1>3, <1>4
  <2>2. /\ RuntimesOK(st, E0) /\ Grows(mid, st) /\ SentBy(mid) \subseteq SentBy(st)
        /\ DOMAIN st = DOMAIN mid \cup {new}
        /\ \A i \in DOMAIN mid : st[i] = mid[i]
        /\ st[new] = Runtime(p, src, 0)
        /\ st[new].src = src /\ st[new].dst = 0 /\ st[new].plane = p /\ st[new].open
        /\ st[new].msgs = <<>> /\ st[new].got = <<>>
    BY ONLY <2>1, StartedOK
  <2> QED BY <1>1, <2>2
<1>6. rt'[new].open = TRUE BY <1>5 DEF Runtime
<1>7. Grows(rt, rt') BY <1>3, <1>5 DEF Grows
<1>8. NamesInv' BY <1>2, <1>3, <1>5, NamesStay DEF new
<1>9. /\ plane' \in [Clients -> [Planes -> Ids \cup {None}]] /\ plane'[c][p] = new
      /\ \A q \in Planes : q # p => plane'[c][q] = plane[c][q]
      /\ \A d \in Clients : d # c => plane'[d] = plane[d]
  BY <1>1, <1>2, <1>4
<1>10. Replaced(c, p, src) BY <1>3, <1>4, <1>5, <1>6, <1>9 DEF Replaced
<1> QED BY <1>3, <1>5, <1>7, <1>8, <1>10

\* What a replaced runtime leaves intact.
LEMMA ReplacedStep ==
  ASSUME Inv, NEW c \in Clients, NEW p \in Planes, NEW src \in E0 \ {0}, ~closed[c],
         RuntimesOK(rt', E0), Grows(rt, rt'), SentBy(rt) \subseteq SentBy(rt'), NamesInv',
         Replaced(c, p, src), UNCHANGED serverVars,
         UNCHANGED <<epoch, drawn, room, closed, mu, loop, confirmed, peerEpoch>>,
         out' \in [Clients -> Seq(Stamped(E0, SentBy(rt)))],
         go' \in [Clients -> [Goroutines -> [pc : PCs, hdr : Nat]]],
         \A d \in Clients : d # c => go'[d] = go[d],
         MuInv(c)', AgreeInv(c)'
  PROVE  Inv'
<1>1. scene' = scene /\ UNCHANGED <<peers, sess>> /\ E0' = E0 BY DEF serverVars, E0
<1>2. RoomTypes' BY <1>1, TypesGrow, RoomStep DEF Inv, RoomTypes
<1>3. ServerTypes' /\ SessionInv' /\ TableInv' /\ ReaderInv' BY ServerStays DEF Inv
<1>4. ClientTypes' BY <1>1, TypesGrow DEF Inv, ClientTypes, Replaced
<1>5. /\ c \in scene.clients /\ c \in Nodes /\ c # Server
      /\ \A q \in Planes : /\ plane[c][q] \in DOMAIN rt /\ plane[c][q][1] = c
                           /\ rt[plane[c][q]].plane = q
                           /\ ~closed[c] => rt[plane[c][q]].open
  BY ActiveClient DEF Inv
<1>6. \A q \in Planes : q # p => plane[c][q] # plane[c][p]
  <2>1. \A q \in Planes : rt[plane[c][q]].plane = q BY <1>5
  <2> QED BY ONLY <2>1, p \in Planes
<1>7. PlaneInv(c)'
  <2> SUFFICES ASSUME NEW q \in Planes
               PROVE  /\ plane'[c][q] \in DOMAIN rt' /\ plane'[c][q][1] = c /\ rt'[plane'[c][q]].plane = q
                      /\ rt'[plane'[c][q]].open
    BY <1>1, <1>5 DEF PlaneInv
  <2>1. CASE q = p BY <2>1 DEF Replaced
  <2>2. CASE q # p
    <3>1. plane'[c][q] = plane[c][q] /\ plane[c][q] \in DOMAIN rt /\ plane[c][q] # plane[c][p]
      BY <1>5, <1>6, <2>2 DEF Replaced
    <3>2. rt'[plane[c][q]].plane = rt[plane[c][q]].plane /\ (rt'[plane[c][q]].open <=> rt[plane[c][q]].open)
      BY <3>1 DEF Replaced
    <3>3. plane[c][q] \in DOMAIN rt' BY <3>1 DEF Replaced
    <3> QED BY <1>5, <3>1, <3>2, <3>3
  <2> QED BY <2>1, <2>2
<1>8. \A d \in Clients : d # c => Untouched(d)
  <2> SUFFICES ASSUME NEW d \in Clients, d # c, NEW i \in DOMAIN rt, i[1] = d
               PROVE  /\ i \in DOMAIN rt'
                      /\ rt'[i].src = rt[i].src /\ rt'[i].dst = rt[i].dst
                      /\ rt'[i].plane = rt[i].plane /\ rt'[i].open = rt[i].open
    BY DEF Untouched
  <2>1. i # plane[c][p] BY <1>5
  <2>2. rt[i].open \in BOOLEAN /\ rt'[i].open \in BOOLEAN BY RuntimeFields DEF Inv, RoomTypes, Replaced
  <2>3. rt'[i].open <=> rt[i].open BY <2>1 DEF Replaced
  <2>4. rt'[i].open = rt[i].open BY <2>2, <2>3
  <2> QED BY <2>4 DEF Replaced
<1>9. Elsewhere(c) BY DEF Elsewhere, Replaced
<1>10. ClientInv' BY <1>1, <1>7, <1>8, <1>9, OneClientMoves DEF Inv
<1>11. NoStrandedRuntime'
  <2> SUFFICES ASSUME NEW i \in DOMAIN rt', rt'[i].open PROVE Owned(i)' \/ Overtaken(i)' BY DEF NoStrandedRuntime
  <2>1. CASE i = plane'[c][p] BY <2>1 DEF Owned
  <2>2. CASE i # plane'[c][p]
    <3>1. i \in DOMAIN rt /\ rt[i].open /\ i # plane[c][p] BY <2>2 DEF Replaced
    <3>2. Owned(i) \/ Overtaken(i) BY <3>1 DEF Inv, NoStrandedRuntime
    <3>3. ASSUME NEW d \in Clients, ~closed[d], NEW q \in Planes, plane[d][q] = i
          PROVE  ~closed'[d] /\ plane'[d][q] = i
      <4>1. CASE d = c BY <3>1, <3>3, <4>1 DEF Replaced
      <4>2. CASE d # c BY <3>3, <4>2 DEF Replaced
      <4> QED BY <4>1, <4>2
    <3>4. CASE Owned(i) BY <1>1, <3>3, <3>4 DEF Owned, RuntimesOf
    <3>5. CASE Overtaken(i) BY <1>1, <3>5 DEF Overtaken
    <3> QED BY <3>2, <3>4, <3>5
  <2> QED BY <2>1, <2>2
<1> QED BY <1>2, <1>3, <1>4, <1>10, <1>11 DEF Inv

LEMMA RestartDataStep ==
  ASSUME Inv, NEW c \in Clients, NEW g \in Goroutines, RestartData(c, g) PROVE Inv'
<1>0. /\ "provider" \in Goroutines /\ "session" \in Goroutines /\ g \in {"provider", "session"}
      /\ "data" \in PCs /\ "data" \in Planes /\ "control" \in Planes
  BY DEF Goroutines, PCs, Planes
<1>1. ClientTypes /\ ClientInv /\ RoomTypes /\ NamesInv /\ MuInv(c) /\ AgreeInv(c) BY DEF Inv, ClientInv
<1>2. /\ At(c, g, "rotated") /\ RestartPlane(c, "data", go[c][g].hdr)
      /\ out' = (IF closed[c] THEN out ELSE [out EXCEPT ![c] = <<>>])
      /\ To(c, g, "data")
      /\ UNCHANGED <<loop, epoch, drawn, confirmed, peerEpoch, closed, room, mu>> /\ UNCHANGED serverVars
  BY DEF RestartData
<1>3. c \in scene.clients /\ go[c][g].hdr \in E0 \ {0} BY <1>0, <1>1, <1>2, ActiveClient DEF At, MuInv
<1>4. /\ go' \in [Clients -> [Goroutines -> [pc : PCs, hdr : Nat]]]
      /\ go'[c][g].pc = "data" /\ go'[c][g].hdr = go[c][g].hdr
      /\ \A h \in Goroutines : h # g => go'[c][h] = go[c][h]
      /\ \A d \in Clients : d # c => go'[d] = go[d]
  BY <1>0, <1>1, <1>2, GoesTo
<1>5. MuInv(c)' BY <1>0, <1>1, <1>2, <1>4 DEF E0, serverVars, MuInv, At
<1>6. (Alone(c)' => Alone(c)) /\ (Alone(c)' => mu[c] = g /\ ~loop[c])
  BY <1>0, <1>1, <1>2, <1>4 DEF MuInv, Alone, At
<1>7. out' \in [Clients -> Seq(Stamped(E0, SentBy(rt)))] BY <1>1, <1>2 DEF ClientTypes
<1>8. CASE closed[c]
  <2>1. UNCHANGED <<rt, plane>> /\ out' = out BY <1>2, <1>8 DEF RestartPlane
  <2>2. AgreeInv(c)' BY <1>2, <1>8 DEF AgreeInv
  <2>3. Elsewhere(c) BY <1>2, <1>4, <2>1 DEF Elsewhere
  <2> QED BY <1>1, <1>2, <1>3, <1>4, <1>5, <2>1, <2>2, <2>3, QuietStep DEF RoomTypes, ClientTypes
<1>9. CASE ~closed[c]
  <2>1. /\ RuntimesOK(rt', E0) /\ Grows(rt, rt') /\ SentBy(rt) \subseteq SentBy(rt') /\ NamesInv'
        /\ Replaced(c, "data", go[c][g].hdr)
    BY <1>0, <1>2, <1>3, <1>9, RestartPlaneFacts
  <2>2. rt'[plane'[c]["data"]].src = go[c][g].hdr BY <2>1 DEF Replaced
  <2>3. AgreeInv(c)'
    <3>1. CASE Alone(c)'
      <4>1. go[c][g].hdr = epoch[c] BY <1>1, <1>2, <1>6, <1>9, <3>1 DEF AgreeInv, At
      <4> QED BY <1>0, <1>2, <1>4, <1>6, <2>2, <3>1, <4>1 DEF AgreeInv
    <3>2. CASE ~Alone(c)' BY <3>2 DEF AgreeInv
    <3> QED BY <3>1, <3>2
  <2> QED BY <1>0, <1>2, <1>3, <1>4, <1>5, <1>7, <1>9, <2>1, <2>3, ReplacedStep
<1> QED BY <1>8, <1>9

LEMMA RestartControlStep ==
  ASSUME Inv, NEW c \in Clients, NEW g \in Goroutines, RestartControl(c, g) PROVE Inv'
<1>0. /\ "provider" \in Goroutines /\ "session" \in Goroutines /\ g \in {"provider", "session"}
      /\ "restarted" \in PCs /\ "data" \in Planes /\ "control" \in Planes
  BY DEF Goroutines, PCs, Planes
<1>1. ClientTypes /\ ClientInv /\ RoomTypes /\ NamesInv /\ MuInv(c) /\ AgreeInv(c) BY DEF Inv, ClientInv
<1>2. /\ At(c, g, "header") /\ RestartPlane(c, "control", go[c][g].hdr)
      /\ To(c, g, "restarted")
      /\ UNCHANGED <<loop, epoch, drawn, confirmed, peerEpoch, closed, out, room, mu>> /\ UNCHANGED serverVars
  BY DEF RestartControl
<1>3. /\ c \in scene.clients /\ go[c][g].hdr \in E0 \ {0}
      /\ plane[c]["data"] \in DOMAIN rt /\ plane[c]["data"] # plane[c]["control"]
  BY <1>0, <1>1, <1>2, ActiveClient DEF At, MuInv
<1>4. /\ go' \in [Clients -> [Goroutines -> [pc : PCs, hdr : Nat]]]
      /\ go'[c][g].pc = "restarted" /\ go'[c][g].hdr = go[c][g].hdr
      /\ \A h \in Goroutines : h # g => go'[c][h] = go[c][h]
      /\ \A d \in Clients : d # c => go'[d] = go[d]
  BY <1>0, <1>1, <1>2, GoesTo
<1>5. MuInv(c)' BY <1>0, <1>1, <1>2, <1>4 DEF E0, serverVars, MuInv, At
<1>6. (Alone(c)' => Alone(c)) /\ (Alone(c)' => mu[c] = g /\ ~loop[c])
  BY <1>0, <1>1, <1>2, <1>4 DEF MuInv, Alone, At
<1>7. out' \in [Clients -> Seq(Stamped(E0, SentBy(rt)))] BY <1>1, <1>2 DEF ClientTypes
<1>8. CASE closed[c]
  <2>1. UNCHANGED <<rt, plane>> BY <1>2, <1>8 DEF RestartPlane
  <2>2. AgreeInv(c)' BY <1>2, <1>8 DEF AgreeInv
  <2>3. Elsewhere(c) BY <1>2, <1>4, <2>1 DEF Elsewhere
  <2> QED BY <1>1, <1>2, <1>3, <1>4, <1>5, <2>1, <2>2, <2>3, QuietStep DEF RoomTypes, ClientTypes
<1>9. CASE ~closed[c]
  <2>1. /\ RuntimesOK(rt', E0) /\ Grows(rt, rt') /\ SentBy(rt) \subseteq SentBy(rt') /\ NamesInv'
        /\ Replaced(c, "control", go[c][g].hdr)
    BY <1>0, <1>2, <1>3, <1>9, RestartPlaneFacts
  <2>2. /\ rt'[plane'[c]["control"]].src = go[c][g].hdr
        /\ plane'[c]["data"] = plane[c]["data"]
        /\ rt'[plane[c]["data"]].src = rt[plane[c]["data"]].src
    BY <1>0, <1>3, <2>1 DEF Replaced
  <2>3. AgreeInv(c)'
    <3>1. CASE Alone(c)'
      <4>1. go[c][g].hdr = epoch[c] /\ rt[plane[c]["data"]].src = epoch[c]
        BY <1>1, <1>2, <1>6, <1>9, <3>1 DEF AgreeInv, At
      <4> QED BY <1>0, <1>2, <1>4, <1>6, <2>2, <3>1, <4>1 DEF AgreeInv
    <3>2. CASE ~Alone(c)' BY <3>2 DEF AgreeInv
    <3> QED BY <3>1, <3>2
  <2> QED BY <1>0, <1>2, <1>3, <1>4, <1>5, <1>7, <1>9, <2>1, <2>3, ReplacedStep
<1> QED BY <1>8, <1>9

\* A step that changes runtimes without starting, closing or re-addressing one.
LEMMA TrafficStep ==
  ASSUME Inv, RuntimesOK(rt', E0), Grows(rt, rt'), SentBy(rt) \subseteq SentBy(rt'),
         DOMAIN rt' = DOMAIN rt,
         \A i \in DOMAIN rt : /\ rt'[i].src = rt[i].src /\ rt'[i].dst = rt[i].dst
                              /\ rt'[i].plane = rt[i].plane /\ rt'[i].open = rt[i].open,
         scene' = scene, UNCHANGED <<epoch, drawn>>,
         room' \subseteq FrameType(E0, SentBy(rt'))
  PROVE  /\ RoomTypes' /\ NamesInv' /\ \A n : Untouched(n)
         /\ \A i \in DOMAIN rt' : rt'[i].open => i \in DOMAIN rt /\ rt[i].open
<1>1. RoomTypes' BY RoomStep DEF Inv, RoomTypes
<1>2. NamesInv' BY NamesStay DEF Inv
<1> QED BY <1>1, <1>2 DEF Untouched

LEMMA SendHelloStep ==
  ASSUME Inv, NEW c \in Clients, SendHello(c) PROVE Inv'
<1> DEFINE g == mu[c]
           i == plane[c]["control"]
<1>0. g \in Goroutines /\ g \in {"provider", "session"} BY DEF Inv, ClientTypes, SendHello, Goroutines
<1>1. ClientTypes /\ ClientInv /\ RoomTypes /\ NamesInv /\ MuInv(c) /\ AgreeInv(c) BY DEF Inv, ClientInv
<1>2. /\ g # "free" /\ At(c, g, "hello") /\ rt' = SendVia(rt, i, 0)
      /\ go' = [go EXCEPT ![c][g] = [pc |-> "welcome", hdr |-> Len(rt[i].got)]]
      /\ UNCHANGED <<loop, epoch, drawn, confirmed, peerEpoch, closed, plane, out, room, mu>>
      /\ UNCHANGED serverVars
  BY DEF SendHello
<1>3. c \in scene.clients /\ i \in DOMAIN rt BY <1>1, <1>2, ActiveClient
<1>4. scene' = scene /\ E0' = E0 /\ UNCHANGED <<peers, sess>> /\ 0 \in E0 /\ Len(rt[i].got) \in Nat
  BY <1>1, <1>2, <1>3, RuntimeFields, SceneFacts DEF RoomTypes, E0, serverVars
<1> HIDE DEF i
<1>5. /\ RuntimesOK(rt', E0) /\ Grows(rt, rt') /\ SentBy(rt) \subseteq SentBy(rt') /\ DOMAIN rt' = DOMAIN rt
      /\ \A j \in DOMAIN rt : /\ rt'[j].src = rt[j].src /\ rt'[j].dst = rt[j].dst
                              /\ rt'[j].plane = rt[j].plane /\ rt'[j].open = rt[j].open
  <2> DEFINE new == SendVia(rt, i, 0)
  <2>1. RuntimesOK(rt, E0) /\ i \in DOMAIN rt /\ 0 \in E0 BY <1>1, <1>3, <1>4 DEF RoomTypes
  <2>2. /\ RuntimesOK(new, E0) /\ Grows(rt, new) /\ SentBy(rt) \subseteq SentBy(new) /\ DOMAIN new = DOMAIN rt
        /\ new[i].msgs = Append(rt[i].msgs, 0)
        /\ \A j \in DOMAIN rt :
              /\ new[j].src = rt[j].src /\ new[j].dst = rt[j].dst /\ new[j].plane = rt[j].plane
              /\ new[j].got = rt[j].got /\ new[j].open = rt[j].open
              /\ j # i => new[j] = rt[j]
        /\ <<i, Len(rt[i].msgs) + 1>> \in SentBy(new)
    BY ONLY <2>1, SendViaOK
  <2> QED BY <1>2, <2>2
<1>6. room' \subseteq FrameType(E0, SentBy(rt')) BY <1>1, <1>2, <1>5, TypesGrow DEF RoomTypes
<1>7. /\ RoomTypes' /\ NamesInv' /\ \A n : Untouched(n)
      /\ \A j \in DOMAIN rt' : rt'[j].open => j \in DOMAIN rt /\ rt[j].open
  BY <1>2, <1>4, <1>5, <1>6, TrafficStep
<1>8. ServerTypes' /\ SessionInv' /\ TableInv' /\ ReaderInv' BY <1>2, <1>5, ServerStays DEF Inv
<1>9. /\ go' \in [Clients -> [Goroutines -> [pc : PCs, hdr : Nat]]]
      /\ go'[c][g] = [pc |-> "welcome", hdr |-> Len(rt[i].got)]
      /\ \A h \in Goroutines : h # g => go'[c][h] = go[c][h]
      /\ \A d \in Clients : d # c => go'[d] = go[d]
  BY <1>0, <1>1, <1>2, <1>4 DEF ClientTypes, PCs
<1>10. ClientTypes' BY <1>1, <1>2, <1>4, <1>5, <1>9, TypesGrow DEF ClientTypes
<1>11. ClientInv'
  <2>1. PlaneInv(c)' BY <1>1, <1>2, <1>3, <1>4, <1>5 DEF ClientInv, PlaneInv
  <2>2. MuInv(c)' BY <1>0, <1>1, <1>2, <1>4, <1>9 DEF MuInv, At, Goroutines
  <2>3. AgreeInv(c)'
    <3>1. Alone(c)' => Alone(c) BY <1>0, <1>1, <1>2, <1>9 DEF MuInv, Alone, At, Goroutines
    <3>2. \A p \in Planes : plane[c][p] \in DOMAIN rt BY <1>1, <1>2, ActiveClient
    <3>3. \A p \in Planes : rt'[plane[c][p]].src = rt[plane[c][p]].src /\ rt'[plane[c][p]].dst = rt[plane[c][p]].dst
      BY <1>5, <3>2
    <3>4. "data" \in Planes /\ "control" \in Planes BY DEF Planes
    <3> QED BY <1>0, <1>1, <1>2, <1>9, <3>1, <3>3, <3>4 DEF AgreeInv, At
  <2>4. Elsewhere(c) BY <1>2, <1>9 DEF Elsewhere
  <2> QED BY <1>1, <1>4, <1>7, <2>1, <2>2, <2>3, <2>4, OneClientMoves
<1>12. NoStrandedRuntime' BY <1>2, <1>4, <1>7, OwnersStay DEF Inv
<1> QED BY <1>7, <1>8, <1>10, <1>11, <1>12 DEF Inv

LEMMA ConfirmPeerStep ==
  ASSUME Inv, NEW c \in Clients, ConfirmPeer(c) PROVE Inv'
<1> DEFINE g == mu[c]
           i == plane[c]["control"]
           d0 == plane[c]["data"]
           welcome == rt[i].got[Len(rt[i].got)]
           server == rt[welcome[1]].msgs[welcome[2]]
<1>0. /\ g \in Goroutines /\ g \in {"provider", "session"} /\ "idle" \in PCs
      /\ "data" \in Planes /\ "control" \in Planes
  BY DEF Inv, ClientTypes, ConfirmPeer, Goroutines, PCs, Planes
<1>1. ClientTypes /\ ClientInv /\ RoomTypes /\ NamesInv /\ MuInv(c) /\ AgreeInv(c) BY DEF Inv, ClientInv
<1>2. /\ g # "free" /\ At(c, g, "welcome") /\ Len(rt[i].got) > go[c][g].hdr
      /\ rt' = [rt EXCEPT ![d0].src = epoch[c], ![d0].dst = server]
      /\ peerEpoch' = [peerEpoch EXCEPT ![c] = server]
      /\ confirmed' = [confirmed EXCEPT ![c] = TRUE]
      /\ loop' = [loop EXCEPT ![c] = TRUE]
      /\ mu' = [mu EXCEPT ![c] = "free"]
      /\ To(c, g, "idle") /\ UNCHANGED <<epoch, drawn, closed, plane, out, room>> /\ UNCHANGED serverVars
  BY DEF ConfirmPeer
<1>3. /\ c \in scene.clients /\ c \in Nodes /\ i \in DOMAIN rt /\ d0 \in DOMAIN rt /\ d0[1] = c /\ d0 # i
      /\ \A p \in Planes : plane[c][p] \in DOMAIN rt
  <2>1. /\ c \in scene.clients /\ c \in Nodes
        /\ \A p \in Planes : plane[c][p] \in DOMAIN rt /\ plane[c][p][1] = c /\ rt[plane[c][p]].plane = p
    <3>1. ClientInv /\ mu[c] # "free" BY <1>1, <1>2
    <3> QED BY ONLY <3>1, c \in Clients, ActiveClient
  <2>2. /\ i \in DOMAIN rt /\ d0 \in DOMAIN rt /\ d0[1] = c
        /\ rt[i].plane = "control" /\ rt[d0].plane = "data"
    BY <1>0, <2>1
  <2> QED BY <2>1, <2>2
<1>4. scene' = scene /\ E0' = E0 /\ UNCHANGED <<peers, sess>> /\ epoch[c] \in E0 \ {0}
  BY <1>1, <1>2, <1>3, HeldEpochs DEF E0, serverVars
<1>5. server \in E0
  <2>1. rt[i].got \in Seq(SentBy(rt)) /\ go[c][g].hdr \in Nat
    BY <1>0, <1>1, <1>3, RuntimeFields DEF RoomTypes, ClientTypes
  <2>2. Len(rt[i].got) \in 1 .. Len(rt[i].got)
    <3>1. Len(rt[i].got) > go[c][g].hdr BY <1>2
    <3>2. Len(rt[i].got) \in Nat BY <2>1
    <3> HIDE DEF i, g
    <3> QED BY ONLY <2>1, <3>1, <3>2, SMT
  <2>3. welcome \in SentBy(rt) BY <2>1, <2>2
  <2> HIDE DEF welcome
  <2>4. welcome[1] \in DOMAIN rt /\ welcome[2] \in 1 .. Len(rt[welcome[1]].msgs) BY <2>3 DEF SentBy
  <2>5. rt[welcome[1]].msgs \in Seq(E0) BY <1>1, <2>4, RuntimeFields DEF RoomTypes
  <2> QED BY <2>4, <2>5
<1> HIDE DEF server, d0
<1>6. /\ DOMAIN rt' = DOMAIN rt /\ rt' = [j \in DOMAIN rt' |-> rt'[j]]
      /\ \A j \in DOMAIN rt : j # d0 => rt'[j] = rt[j]
      /\ rt'[d0] = [rt[d0] EXCEPT !.src = epoch[c], !.dst = server]
  BY <1>1, <1>2, <1>3 DEF RoomTypes, RuntimesOK
<1>7. rt[d0] \in RuntimeType(E0, SentBy(rt)) BY <1>1, <1>3, RuntimeFields DEF RoomTypes
<1>8. /\ rt'[d0] \in RuntimeType(E0, SentBy(rt))
      /\ rt'[d0].src = epoch[c] /\ rt'[d0].dst = server /\ rt'[d0].plane = rt[d0].plane
      /\ rt'[d0].msgs = rt[d0].msgs /\ rt'[d0].open = rt[d0].open
  BY <1>4, <1>5, <1>6, <1>7 DEF RuntimeType
<1>9. \A j \in DOMAIN rt : /\ rt'[j] \in RuntimeType(E0, SentBy(rt)) /\ j \in Ids
                           /\ rt'[j].plane = rt[j].plane /\ rt'[j].open = rt[j].open
                           /\ Len(rt[j].msgs) <= Len(rt'[j].msgs)
  <2> SUFFICES ASSUME NEW j \in DOMAIN rt
               PROVE  /\ rt'[j] \in RuntimeType(E0, SentBy(rt)) /\ j \in Ids
                      /\ rt'[j].plane = rt[j].plane /\ rt'[j].open = rt[j].open
                      /\ Len(rt[j].msgs) <= Len(rt'[j].msgs)
    OBVIOUS
  <2>1. rt[j] \in RuntimeType(E0, SentBy(rt)) /\ Len(rt[j].msgs) \in Nat /\ j \in Ids
    BY <1>1, RuntimeFields DEF RoomTypes
  <2>2. CASE j = d0 BY <1>8, <2>1, <2>2
  <2>3. CASE j # d0 BY <1>6, <2>1, <2>3
  <2> QED BY <2>2, <2>3
<1>10. Grows(rt, rt') BY <1>6, <1>9 DEF Grows
<1>11. RuntimesOK(rt', E0) /\ SentBy(rt) \subseteq SentBy(rt')
  BY <1>1, <1>6, <1>9, <1>10, StillRuntimes DEF RoomTypes
<1>12. room' \subseteq FrameType(E0, SentBy(rt')) BY <1>1, <1>2, <1>11, TypesGrow DEF RoomTypes
<1>13. RoomTypes' BY <1>1, <1>2, <1>4, <1>11, <1>12, RoomStep DEF RoomTypes
<1>14. NamesInv' BY <1>1, <1>6, NamesStay
<1>15. ServerTypes' /\ SessionInv' /\ TableInv' /\ ReaderInv' BY <1>2, <1>10, <1>11, ServerStays DEF Inv
<1>16. /\ go' \in [Clients -> [Goroutines -> [pc : PCs, hdr : Nat]]]
       /\ go'[c][g].pc = "idle"
       /\ \A h \in Goroutines : h # g => go'[c][h] = go[c][h]
       /\ \A d \in Clients : d # c => go'[d] = go[d]
  BY <1>0, <1>1, <1>2, GoesTo
<1>17. /\ peerEpoch' \in [Clients -> E0] /\ peerEpoch'[c] = server
       /\ confirmed' \in [Clients -> BOOLEAN] /\ confirmed'[c] = TRUE
       /\ loop' \in [Clients -> BOOLEAN]
       /\ mu' \in [Clients -> Goroutines \cup {"free"}] /\ mu'[c] = "free"
       /\ \A d \in Clients : d # c => /\ peerEpoch'[d] = peerEpoch[d] /\ confirmed'[d] = confirmed[d]
                                      /\ loop'[d] = loop[d] /\ mu'[d] = mu[d]
  BY <1>1, <1>2, <1>5 DEF ClientTypes
<1>18. ClientTypes' BY <1>1, <1>2, <1>4, <1>11, <1>16, <1>17, TypesGrow DEF ClientTypes
<1>19. ClientInv'
  <2>1. PlaneInv(c)' BY <1>1, <1>2, <1>3, <1>4, <1>6, <1>9 DEF ClientInv, PlaneInv
  <2>2. MuInv(c)' BY <1>0, <1>1, <1>2, <1>4, <1>16, <1>17 DEF MuInv, At, Goroutines
  <2>3. AgreeInv(c)'
    <3> SUFFICES ASSUME ~closed[c], Alone(c)' PROVE AgreeInv(c)' BY <1>2 DEF AgreeInv
    <3>1. Alone(c) BY <1>0, <1>1, <1>2, <1>16, <1>17 DEF MuInv, Alone, At, Goroutines
    <3>2. rt[i].src = epoch[c] BY <1>0, <1>1, <1>2, <3>1 DEF AgreeInv, At
    <3>3. rt'[i].src = epoch[c] /\ rt'[d0].src = epoch[c] /\ rt'[d0].dst = peerEpoch'[c]
      BY <1>3, <1>6, <1>8, <1>17, <3>2
    <3>4. \A p \in Planes : rt'[plane[c][p]].src = epoch[c] BY <3>3 DEF Planes, d0
    <3>5. rt'[plane[c]["data"]].dst = peerEpoch'[c] BY <3>3 DEF d0
    <3> QED BY <1>2, <1>17, <3>4, <3>5, ZenonT(30) DEF AgreeInv, Goroutines
  <2>4. Elsewhere(c) BY <1>2, <1>16, <1>17 DEF Elsewhere
  <2>5. \A d \in Clients : d # c => Untouched(d) BY <1>3, <1>6 DEF Untouched
  <2> QED BY <1>1, <1>4, <2>1, <2>2, <2>3, <2>4, <2>5, OneClientMoves
<1>20. NoStrandedRuntime' BY <1>2, <1>4, <1>6, <1>9, OwnersStay DEF Inv
<1> QED BY <1>13, <1>14, <1>15, <1>18, <1>19, <1>20 DEF Inv

LEMMA SendStep ==
  ASSUME Inv, NEW c \in Clients, Send(c) PROVE Inv'
<1> DEFINE i == plane[c]["data"]
           new == SendVia(rt, i, 0)
<1>1. RoomTypes /\ ClientInv /\ ClientTypes BY DEF Inv
<1>2. ~closed[c] /\ rt' = new /\ UNCHANGED <<epoch, drawn, room>> /\ UNCHANGED clientVars /\ UNCHANGED serverVars
  BY DEF Send
<1>3. i \in DOMAIN rt BY <1>1, <1>2, ActiveClient
<1>4. scene' = scene /\ UNCHANGED <<peers, sess, plane, closed>> /\ 0 \in E0 /\ RuntimesOK(rt, E0)
  BY <1>1, <1>2, SceneFacts DEF RoomTypes, E0, serverVars, clientVars
<1> HIDE DEF i
<1>5. /\ RuntimesOK(new, E0) /\ Grows(rt, new) /\ SentBy(rt) \subseteq SentBy(new) /\ DOMAIN new = DOMAIN rt
      /\ new[i].msgs = Append(rt[i].msgs, 0)
      /\ \A j \in DOMAIN rt :
            /\ new[j].src = rt[j].src /\ new[j].dst = rt[j].dst /\ new[j].plane = rt[j].plane
            /\ new[j].got = rt[j].got /\ new[j].open = rt[j].open
            /\ j # i => new[j] = rt[j]
      /\ <<i, Len(rt[i].msgs) + 1>> \in SentBy(new)
  BY ONLY <1>3, <1>4, SendViaOK
<1> HIDE DEF new
<1>6. room' \subseteq FrameType(E0, SentBy(rt')) BY <1>1, <1>2, <1>5, TypesGrow DEF RoomTypes
<1>7. /\ RoomTypes' /\ NamesInv' /\ \A n : Untouched(n)
      /\ \A j \in DOMAIN rt' : rt'[j].open => j \in DOMAIN rt /\ rt[j].open
  BY <1>2, <1>4, <1>5, <1>6, TrafficStep
<1>8. ServerTypes' /\ SessionInv' /\ TableInv' /\ ReaderInv' BY <1>2, <1>5, ServerStays DEF Inv
<1>9. ClientTypes' /\ ClientInv' BY <1>1, <1>2, <1>5, <1>7, ClientsStay
<1>10. NoStrandedRuntime' BY <1>2, <1>4, <1>7, OwnersStay DEF Inv
<1> QED BY <1>7, <1>8, <1>9, <1>10 DEF Inv

LEMMA HandleClientFrameStep ==
  ASSUME Inv, NEW c \in Clients, HandleClientFrame(c) PROVE Inv'
<1>1. RoomTypes /\ ClientInv /\ ClientTypes BY DEF Inv
<1>2. PICK f \in room : /\ ~closed[c]
                        /\ rt' = [rt EXCEPT ![plane[c][f.plane]] = Input(rt[plane[c][f.plane]], f.pkts)]
                        /\ UNCHANGED <<epoch, drawn, room>> /\ UNCHANGED clientVars /\ UNCHANGED serverVars
  BY DEF HandleClientFrame
<1> DEFINE i == plane[c][f.plane]
           new == Fed(rt, i, f.pkts)
<1>3. f.plane \in Planes /\ f.pkts \in Seq(SentBy(rt)) BY <1>1 DEF RoomTypes, FrameType
<1>4. i \in DOMAIN rt BY <1>1, <1>2, <1>3, ActiveClient
<1>5. scene' = scene /\ UNCHANGED <<peers, sess, plane, closed>> /\ RuntimesOK(rt, E0) /\ rt' = new
  BY <1>1, <1>2 DEF RoomTypes, serverVars, clientVars, Fed
<1> HIDE DEF i
<1>6. /\ RuntimesOK(new, E0) /\ Grows(rt, new) /\ SentBy(rt) \subseteq SentBy(new) /\ DOMAIN new = DOMAIN rt
      /\ new[i].got = IF rt[i].open THEN Received(rt[i].got, f.pkts) ELSE rt[i].got
      /\ new[i].got \in Seq(SentBy(rt)) /\ Len(rt[i].got) <= Len(new[i].got)
      /\ \A j \in DOMAIN rt :
            /\ new[j].src = rt[j].src /\ new[j].dst = rt[j].dst /\ new[j].plane = rt[j].plane
            /\ new[j].msgs = rt[j].msgs /\ new[j].open = rt[j].open
            /\ j # i => new[j] = rt[j]
  <2>1. RuntimesOK(rt, E0) /\ i \in DOMAIN rt /\ f.pkts \in Seq(SentBy(rt)) BY <1>3, <1>4, <1>5
  <2> QED BY ONLY <2>1, InputOK
<1> HIDE DEF new
<1>7. room' \subseteq FrameType(E0, SentBy(rt')) BY <1>1, <1>2, <1>5, <1>6, TypesGrow DEF RoomTypes
<1>8. /\ RoomTypes' /\ NamesInv' /\ \A n : Untouched(n)
      /\ \A j \in DOMAIN rt' : rt'[j].open => j \in DOMAIN rt /\ rt[j].open
  BY <1>2, <1>5, <1>6, <1>7, TrafficStep, ZenonT(30)
<1>9. ServerTypes' /\ SessionInv' /\ TableInv' /\ ReaderInv' BY <1>2, <1>5, <1>6, ServerStays DEF Inv
<1>10. ClientTypes' /\ ClientInv' BY <1>1, <1>2, <1>5, <1>6, <1>8, ClientsStay
<1>11. NoStrandedRuntime' BY <1>2, <1>5, <1>8, OwnersStay DEF Inv
<1> QED BY <1>8, <1>9, <1>10, <1>11 DEF Inv

LEMMA CloseStep ==
  ASSUME Inv, NEW c \in Clients, Close(c) PROVE Inv'
<1> DEFINE ids == {plane[c]["data"], plane[c]["control"]}
           new == Shut(rt, ids)
<1>0. "data" \in Planes /\ "control" \in Planes /\ ids = {plane[c][p] : p \in Planes} BY DEF Planes
<1>1. RoomTypes /\ ClientInv /\ ClientTypes /\ NamesInv /\ MuInv(c) BY DEF Inv, ClientInv
<1>2. /\ ~closed[c] /\ closed' = [closed EXCEPT ![c] = TRUE] /\ rt' = new
      /\ UNCHANGED <<loop, epoch, drawn, confirmed, peerEpoch, plane, out, room, go, mu>> /\ UNCHANGED serverVars
  BY DEF Close
<1>3. c \in scene.clients /\ c # Server /\ \A p \in Planes :
        plane[c][p] \in DOMAIN rt /\ plane[c][p][1] = c /\ rt[plane[c][p]].plane = p
  BY <1>1, <1>2, ActiveClient
<1>4. scene' = scene /\ E0' = E0 /\ UNCHANGED <<peers, sess>> /\ RuntimesOK(rt, E0)
  BY <1>1, <1>2 DEF RoomTypes, E0, serverVars
<1> HIDE DEF ids
<1>5. /\ RuntimesOK(new, E0) /\ Grows(rt, new) /\ SentBy(rt) \subseteq SentBy(new) /\ DOMAIN new = DOMAIN rt
      /\ \A j \in DOMAIN rt : /\ new[j].src = rt[j].src /\ new[j].dst = rt[j].dst
                              /\ new[j].plane = rt[j].plane
                              /\ new[j].open <=> rt[j].open /\ j \notin ids
  BY ONLY <1>4, ShutOK
<1> HIDE DEF new
<1>6. room' \subseteq FrameType(E0, SentBy(rt')) BY <1>1, <1>2, <1>5, TypesGrow DEF RoomTypes
<1>7. RoomTypes' /\ NamesInv' BY <1>1, <1>2, <1>4, <1>5, <1>6, RoomStep, NamesStay DEF RoomTypes
<1>8. ServerTypes' /\ SessionInv' /\ TableInv' /\ ReaderInv' BY <1>2, <1>5, ServerStays DEF Inv
<1>9. /\ closed' \in [Clients -> BOOLEAN] /\ closed'[c] = TRUE
      /\ \A d \in Clients : d # c => closed'[d] = closed[d]
  BY <1>1, <1>2 DEF ClientTypes
<1>10. ClientTypes' BY <1>1, <1>2, <1>4, <1>5, <1>9, TypesGrow DEF ClientTypes
<1>11. ClientInv'
  <2>1. PlaneInv(c)' BY <1>2, <1>3, <1>4, <1>5, <1>9 DEF PlaneInv
  <2>2. MuInv(c)' BY <1>1, <1>2, <1>4 DEF MuInv
  <2>3. AgreeInv(c)' BY <1>9 DEF AgreeInv
  <2>4. Elsewhere(c) BY <1>2, <1>9 DEF Elsewhere
  <2>5. \A d \in Clients : d # c => Untouched(d)
    <3> SUFFICES ASSUME NEW d \in Clients, d # c, NEW j \in DOMAIN rt, j[1] = d PROVE rt'[j].open = rt[j].open
      BY <1>2, <1>5 DEF Untouched
    <3>1. j \notin ids BY <1>0, <1>3
    <3>2. rt'[j].open \in BOOLEAN /\ rt[j].open \in BOOLEAN BY <1>2, <1>4, <1>5, RuntimeFields
    <3>3. rt'[j].open <=> rt[j].open BY <1>2, <1>5, <3>1
    <3> QED BY <3>2, <3>3
  <2> QED BY <1>1, <1>4, <2>1, <2>2, <2>3, <2>4, <2>5, OneClientMoves
<1>12. NoStrandedRuntime'
  <2> SUFFICES ASSUME NEW i \in DOMAIN rt', rt'[i].open PROVE Owned(i)' \/ Overtaken(i)' BY DEF NoStrandedRuntime
  <2>1. i \in DOMAIN rt /\ rt[i].open /\ i \notin ids BY <1>2, <1>5
  <2>2. Owned(i) \/ Overtaken(i) BY <2>1 DEF Inv, NoStrandedRuntime
  <2>3. ASSUME NEW d \in Clients, ~closed[d], NEW q \in Planes, plane[d][q] = i
        PROVE  ~closed'[d] /\ plane'[d][q] = i
    BY <1>0, <1>2, <1>9, <2>1, <2>3
  <2>4. CASE Owned(i) BY <1>4, <2>3, <2>4 DEF Owned, RuntimesOf
  <2>5. CASE Overtaken(i) BY <1>4, <2>5 DEF Overtaken
  <2> QED BY <2>2, <2>4, <2>5
<1> QED BY <1>7, <1>8, <1>10, <1>11, <1>12 DEF Inv

------------------------------------------------------------------------------
(* The peer table.                                                          *)

LEMMA RemoveAtFacts ==
  ASSUME NEW S, NEW q \in Seq(S), NEW k \in 1 .. Len(q)
  PROVE  /\ RemoveAt(q, k) \in Seq(S) /\ Len(RemoveAt(q, k)) = Len(q) - 1
         /\ \A j \in 1 .. (Len(q) - 1) : RemoveAt(q, k)[j] = IF j < k THEN q[j] ELSE q[j + 1]
<1> DEFINE a == SubSeq(q, 1, k - 1)
           b == SubSeq(q, k + 1, Len(q))
           n == Len(q)
           r == a \o b
<1>1. RemoveAt(q, k) = r BY DEF RemoveAt
<1>2. n \in Nat /\ k \in 1 .. n /\ \A j \in 1 .. n : q[j] \in S OBVIOUS
<1>3. a \in Seq(S) /\ Len(a) = k - 1 /\ \A j \in 1 .. (k - 1) : a[j] = q[j]
  <2>1. k - 1 \in Int /\ 1 \in Int /\ \A i \in 1 .. (k - 1) : q[i] \in S BY <1>2
  <2>2. /\ a \in Seq(S) /\ Len(a) = IF 1 <= k - 1 THEN (k - 1) - 1 + 1 ELSE 0
        /\ \A i \in 1 .. ((k - 1) - 1 + 1) : a[i] = q[1 + i - 1]
    BY ONLY <2>1, SubSeqProperties
  <2> HIDE DEF a, n
  <2> QED BY <1>2, <2>2
<1>4. b \in Seq(S) /\ Len(b) = n - k /\ \A j \in 1 .. (n - k) : b[j] = q[j + k]
  <2>1. k + 1 \in Int /\ Len(q) \in Int /\ \A i \in (k + 1) .. Len(q) : q[i] \in S BY <1>2
  <2>2. /\ b \in Seq(S) /\ Len(b) = IF k + 1 <= Len(q) THEN Len(q) - (k + 1) + 1 ELSE 0
        /\ \A i \in 1 .. (Len(q) - (k + 1) + 1) : b[i] = q[(k + 1) + i - 1]
    BY ONLY <2>1, SubSeqProperties
  <2> HIDE DEF b
  <2>3. Len(b) = n - k BY <1>2, <2>2
  <2>4. \A j \in 1 .. (n - k) : b[j] = q[j + k] BY <1>2, <2>2
  <2> QED BY <2>2, <2>3, <2>4
<1> HIDE DEF a, b, n
<1>5. /\ r \in Seq(S) /\ Len(r) = Len(a) + Len(b)
      /\ \A i \in 1 .. (Len(a) + Len(b)) : r[i] = IF i <= Len(a) THEN a[i] ELSE b[i - Len(a)]
  BY ONLY <1>3, <1>4, ConcatProperties
<1> HIDE DEF r
<1>6. Len(r) = n - 1 BY <1>2, <1>3, <1>4, <1>5
<1>7. ASSUME NEW j \in 1 .. (n - 1) PROVE r[j] = IF j < k THEN q[j] ELSE q[j + 1]
  <2>0. j \in 1 .. (Len(a) + Len(b)) /\ j \in Nat /\ k \in Nat BY <1>2, <1>3, <1>4
  <2>1. CASE j < k BY <1>3, <1>5, <2>0, <2>1
  <2>2. CASE ~(j < k) BY <1>2, <1>3, <1>4, <1>5, <2>0, <2>2
  <2> QED BY <2>1, <2>2
<1> QED BY <1>1, <1>5, <1>6, <1>7 DEF n

\* Touch moves an entry to the end.
LEMMA TouchOK ==
  ASSUME NEW S, NEW q \in Seq(S), NEW s, NEW here \in 1 .. Len(q), q[here] = s
  PROVE  /\ Touch(q, s) \in Seq(S) /\ Len(Touch(q, s)) = Len(q)
         /\ PartOf(Touch(q, s), q) /\ Keeps(Touch(q, s), q)
<1> DEFINE k == CHOOSE k \in DOMAIN q : q[k] = s
           r == RemoveAt(q, k)
           t == Append(r, s)
           n == Len(q)
<1>1. k \in DOMAIN q /\ q[k] = s /\ Touch(q, s) = t BY DEF Touch, Without
<1> HIDE DEF k
<1>2. n \in Nat /\ DOMAIN q = 1 .. n /\ k \in 1 .. n /\ s \in S BY <1>1
<1>3. /\ r \in Seq(S) /\ Len(r) = Len(q) - 1
      /\ \A j \in 1 .. (Len(q) - 1) : r[j] = IF j < k THEN q[j] ELSE q[j + 1]
  <2>1. q \in Seq(S) /\ k \in 1 .. Len(q) BY <1>2
  <2> QED BY ONLY <2>1, RemoveAtFacts
<1> HIDE DEF r
<1>4. /\ t \in Seq(S) /\ Len(t) = Len(r) + 1 /\ t[Len(r) + 1] = s
      /\ \A j \in 1 .. Len(r) : t[j] = r[j]
  <2>1. s \in S /\ r \in Seq(S) BY <1>2, <1>3
  <2> QED BY ONLY <2>1, AppendProperties
<1> HIDE DEF t, n
<1>5. /\ Len(t) = n /\ t[n] = q[k] /\ \A j \in 1 .. (n - 1) : t[j] = IF j < k THEN q[j] ELSE q[j + 1]
  BY <1>1, <1>2, <1>3, <1>4 DEF n
<1> DEFINE m == [j \in 1 .. n |-> IF j = n THEN k ELSE IF j < k THEN j ELSE j + 1]
<1>6. m \in [1 .. n -> 1 .. n] BY <1>2
<1>7. \A i, j \in 1 .. n : m[i] = m[j] => i = j BY <1>2
<1>8. \A j \in 1 .. n : t[j] = q[m[j]]
  <2> SUFFICES ASSUME NEW j \in 1 .. n PROVE t[j] = q[m[j]] OBVIOUS
  <2>1. CASE j = n BY <1>5, <2>1
  <2>2. CASE j # n BY <1>2, <1>5, <2>2
  <2> QED BY <2>1, <2>2
<1>9. \A i \in 1 .. n : \E j \in 1 .. n : m[j] = i
  <2> SUFFICES ASSUME NEW i \in 1 .. n PROVE \E j \in 1 .. n : m[j] = i OBVIOUS
  <2>1. CASE i = k BY <1>2, <2>1
  <2>2. CASE i < k BY <1>2, <2>2
  <2>3. CASE i > k BY <1>2, <2>3
  <2> QED BY <1>2, <2>1, <2>2, <2>3
<1> HIDE DEF m
<1>10. PartOf(t, q) BY <1>5, <1>6, <1>7, <1>8 DEF PartOf, n
<1>11. Keeps(t, q)
  <2>1. \A i \in 1 .. n : \E j \in 1 .. n : t[j] = q[i] BY <1>8, <1>9
  <2>2. Len(t) = n /\ Len(q) = n BY <1>5 DEF n
  <2> QED BY ONLY <2>1, <2>2 DEF Keeps
<1> QED BY <1>1, <1>4, <1>5, <1>10, <1>11 DEF n

LEMMA GetOK ==
  ASSUME ServerTypes, NEW e, Has(e) PROVE Get(e) \in DOMAIN sess /\ InTable(Get(e)) /\ sess[Get(e)].epoch = e
<1>1. \E s \in {peers[k] : k \in DOMAIN peers} : sess[s].epoch = e BY DEF Has
<1>2. Get(e) \in {peers[k] : k \in DOMAIN peers} /\ sess[Get(e)].epoch = e BY <1>1 DEF Get
<1>3. \A k \in DOMAIN peers : peers[k] \in DOMAIN sess BY DEF ServerTypes
<1> QED BY <1>2, <1>3 DEF InTable

\* A table made of entries of the old one is as sound.
LEMMA TableStays ==
  ASSUME ServerTypes, TableInv, peers' \in Seq(DOMAIN sess), PartOf(peers', peers), Len(peers') <= Len(peers),
         \A s \in DOMAIN sess : InTable(s)' => sess'[s].epoch = sess[s].epoch /\ sess'[s].closed = sess[s].closed
  PROVE  TableInv'
<1>1. PICK m \in [1 .. Len(peers') -> 1 .. Len(peers)] :
        /\ \A j \in 1 .. Len(peers') : peers'[j] = peers[m[j]]
        /\ \A i, j \in 1 .. Len(peers') : m[i] = m[j] => i = j
  BY DEF PartOf
<1>2. /\ DOMAIN peers = 1 .. Len(peers) /\ DOMAIN peers' = 1 .. Len(peers')
      /\ \A k \in DOMAIN peers : peers[k] \in DOMAIN sess
  BY DEF ServerTypes
<1>3. Len(peers) \in Nat /\ Len(peers') \in Nat /\ maxPeers \in Nat BY BoundsAssumption DEF ServerTypes
<1>4. Len(peers') <= maxPeers
  <2>1. Len(peers) <= maxPeers /\ Len(peers') <= Len(peers) BY DEF TableInv
  <2> QED BY ONLY <1>3, <2>1, SMT
<1>5. \A j \in DOMAIN peers' : /\ m[j] \in DOMAIN peers /\ peers'[j] = peers[m[j]]
                               /\ sess'[peers'[j]].epoch = sess[peers[m[j]]].epoch
                               /\ sess'[peers'[j]].closed = sess[peers[m[j]]].closed
  BY <1>1, <1>2 DEF InTable
<1>6. \A k \in DOMAIN peers' : ~sess'[peers'[k]].closed BY <1>5 DEF TableInv
<1>7. \A j, k \in DOMAIN peers' : sess'[peers'[j]].epoch = sess'[peers'[k]].epoch => j = k
  BY <1>1, <1>2, <1>5 DEF TableInv
<1> QED BY <1>4, <1>6, <1>7 DEF TableInv

------------------------------------------------------------------------------
(* The steps of the server.                                                 *)

\* A step of the server leaves the clients and their runtimes alone.
LEMMA ServerMoves ==
  ASSUME Inv, UNCHANGED clientVars, RuntimesOK(rt', E0), NamesInv', SentBy(rt) \subseteq SentBy(rt'),
         drawn' \in Epochs, epoch' \in EpochMap, room' \subseteq FrameType(E0, SentBy(rt')),
         \A c \in Clients : Untouched(c) /\ epoch'[c] = epoch[c],
         ServerTypes', SessionInv', TableInv', ReaderInv', NoStrandedRuntime'
  PROVE  Inv'
<1>1. scene' = scene BY DEF clientVars
<1>2. RoomTypes' BY <1>1, RoomStep DEF Inv
<1>3. ClientTypes' /\ ClientInv' BY ClientsStay DEF Inv
<1> QED BY <1>2, <1>3 DEF Inv

LEMMA RefreshedTable ==
  ASSUME ServerTypes, TableInv, Refreshed, sess' = sess
  PROVE  /\ peers' \in Seq(DOMAIN sess) /\ TableInv'
         /\ \A k \in DOMAIN peers : \E j \in DOMAIN peers' : peers'[j] = peers[k]
<1>1. CASE peers' = peers BY <1>1 DEF ServerTypes, TableInv
<1>2. ASSUME NEW s \in DOMAIN sess, InTable(s), peers' = Touch(peers, s)
      PROVE  /\ peers' \in Seq(DOMAIN sess) /\ TableInv'
             /\ \A k \in DOMAIN peers : \E j \in DOMAIN peers' : peers'[j] = peers[k]
  <2>0. peers \in Seq(DOMAIN sess) BY DEF ServerTypes
  <2>1. PICK k \in 1 .. Len(peers) : peers[k] = s BY <1>2, <2>0 DEF InTable
  <2> DEFINE t == Touch(peers, s)
  <2>2. t \in Seq(DOMAIN sess) /\ Len(t) = Len(peers) /\ PartOf(t, peers) /\ Keeps(t, peers)
    BY ONLY <2>0, <2>1, k \in 1 .. Len(peers), TouchOK
  <2> HIDE DEF t
  <2>3. peers' = t BY <1>2 DEF t
  <2>4. Len(peers') <= Len(peers) BY <2>0, <2>2, <2>3
  <2>5. TableInv' BY <2>2, <2>3, <2>4, TableStays
  <2>6. DOMAIN t = 1 .. Len(peers) /\ DOMAIN peers = 1 .. Len(peers) BY <2>0, <2>2
  <2> QED BY <2>2, <2>3, <2>5, <2>6 DEF Keeps
<1> QED BY <1>1, <1>2 DEF Refreshed

\* A step of the server that starts and closes no runtime and no session.
LEMMA ServerTraffic ==
  ASSUME Inv, UNCHANGED clientVars, UNCHANGED <<epoch, drawn, sess, tableClosed>>,
         RuntimesOK(rt', E0), Grows(rt, rt'), SentBy(rt) \subseteq SentBy(rt'), DOMAIN rt' = DOMAIN rt,
         \A i \in DOMAIN rt : /\ rt'[i].src = rt[i].src /\ rt'[i].dst = rt[i].dst
                              /\ rt'[i].plane = rt[i].plane /\ rt'[i].open = rt[i].open,
         room' \subseteq FrameType(E0, SentBy(rt')), Refreshed,
         reader' \in [Readers -> ReaderType(E0, SentBy(rt'))],
         \A w \in Readers : reader'[w].pc \in {"data", "control"} =>
             \/ reader'[w].sess = reader[w].sess /\ reader[w].pc \in {"data", "control"}
             \/ reader'[w].sess \in DOMAIN sess /\ InTable(reader'[w].sess),
         upper' \in [Planes -> [Epochs -> Seq(SentBy(rt'))]]
  PROVE  Inv'
<1>1. scene' = scene /\ E0' = E0 /\ Epochs' = Epochs /\ UNCHANGED <<plane, closed>> BY DEF clientVars, E0, Epochs
<1>2. /\ RoomTypes' /\ NamesInv' /\ \A n : Untouched(n)
      /\ \A i \in DOMAIN rt' : rt'[i].open => i \in DOMAIN rt /\ rt[i].open
  BY <1>1, TrafficStep
<1>3. /\ peers' \in Seq(DOMAIN sess) /\ TableInv'
      /\ \A k \in DOMAIN peers : \E j \in DOMAIN peers' : peers'[j] = peers[k]
  BY RefreshedTable DEF Inv
<1>4. ServerTypes' BY <1>1, <1>3 DEF Inv, ServerTypes
<1>5. SessionInv' BY DEF Inv, SessionInv
<1>6. ReaderInv'
  <2> SUFFICES ASSUME NEW w \in Readers, reader'[w].pc \in {"data", "control"}
               PROVE  /\ reader'[w].sess \in DOMAIN sess
                      /\ \/ sess[reader'[w].sess].closed
                         \/ \E k \in DOMAIN peers' : peers'[k] = reader'[w].sess
    BY DEF ReaderInv, InTable
  <2>1. \A s : InTable(s) => \E k \in DOMAIN peers' : peers'[k] = s BY <1>3 DEF InTable
  <2> QED BY <2>1 DEF Inv, ReaderInv
<1>7. NoStrandedRuntime' BY <1>1, <1>2, <1>3, OwnersStay DEF Inv
<1>8. ClientTypes' /\ ClientInv' BY <1>2, ClientsStay DEF Inv
<1> QED BY <1>2, <1>3, <1>4, <1>5, <1>6, <1>7, <1>8 DEF Inv

LEMMA FoundType ==
  ASSUME NEW E, NEW P, 0 \in E, NEW held \in ReaderType(E, P), NEW s \in Nat
  PROVE  /\ IdleReader \in ReaderType(E, P) /\ IdleReader.pc = "idle" /\ Found(held, s) \in ReaderType(E, P)
         /\ Found(held, s).pc \in {"data", "control"} => Found(held, s).sess = s
<1>1. IdleReader \in ReaderType(E, P) /\ IdleReader.pc = "idle" BY DEF Planes, IdleReader, ReaderType
<1>2. CASE held.pkts = <<>> BY <1>1, <1>2 DEF Found
<1>3. CASE held.pkts # <<>> BY <1>1, <1>3 DEF Found, ReaderType, Planes
<1> QED BY <1>1, <1>2, <1>3

LEMMA TakeFrameStep ==
  ASSUME Inv, NEW w \in Readers, TakeFrame(w) PROVE Inv'
<1>1. PICK f \in room :
        /\ reader' = [reader EXCEPT ![w] =
                        LET held == [pc |-> "create", plane |-> f.plane, src |-> f.src, pkts |-> f.pkts, sess |-> 0]
                        IN  IF Has(f.src) THEN Found(held, Get(f.src)) ELSE held]
        /\ peers' = IF Has(f.src) THEN Touch(peers, Get(f.src)) ELSE peers
        /\ UNCHANGED <<epoch, drawn, rt, room, sess, tableClosed, upper>> /\ UNCHANGED clientVars
  BY DEF TakeFrame
<1> DEFINE held == [pc |-> "create", plane |-> f.plane, src |-> f.src, pkts |-> f.pkts, sess |-> 0]
           next == IF Has(f.src) THEN Found(held, Get(f.src)) ELSE held
<1>2. RoomTypes /\ ServerTypes /\ NamesInv BY DEF Inv
<1>3. held \in ReaderType(E0, SentBy(rt)) /\ held.pc = "create" BY <1>2 DEF RoomTypes, FrameType, ReaderType
<1>4. Has(f.src) => Get(f.src) \in DOMAIN sess /\ InTable(Get(f.src)) /\ Get(f.src) \in Nat
  BY <1>2, GetOK DEF ServerTypes
<1>5. 0 \in E0 BY <1>2, SceneFacts DEF RoomTypes, E0
<1> HIDE DEF held
<1>6. /\ next \in ReaderType(E0, SentBy(rt))
      /\ next.pc \in {"data", "control"} => next.sess \in DOMAIN sess /\ InTable(next.sess)
  <2>1. CASE Has(f.src) BY <1>3, <1>4, <1>5, <2>1, FoundType
  <2>2. CASE ~Has(f.src) BY <1>3, <2>2
  <2> QED BY <2>1, <2>2
<1>7. reader' = [reader EXCEPT ![w] = next] BY <1>1 DEF held
<1> HIDE DEF next
<1>8. /\ reader' \in [Readers -> ReaderType(E0, SentBy(rt))] /\ reader'[w] = next
      /\ \A v \in Readers : v # w => reader'[v] = reader[v]
  BY <1>2, <1>6, <1>7 DEF ServerTypes
<1>9. Refreshed BY <1>1, <1>4 DEF Refreshed
<1>10. /\ RuntimesOK(rt', E0) /\ Grows(rt, rt') /\ SentBy(rt) \subseteq SentBy(rt') /\ rt' = rt
  BY <1>1, <1>2, SameRuntimes
<1>11. room' \subseteq FrameType(E0, SentBy(rt')) BY <1>1, <1>2, <1>10 DEF RoomTypes
<1>12. \A v \in Readers : reader'[v].pc \in {"data", "control"} =>
               \/ reader'[v].sess = reader[v].sess /\ reader[v].pc \in {"data", "control"}
               \/ reader'[v].sess \in DOMAIN sess /\ InTable(reader'[v].sess)
  BY <1>6, <1>8
<1>13. upper' \in [Planes -> [Epochs -> Seq(SentBy(rt'))]] /\ reader' \in [Readers -> ReaderType(E0, SentBy(rt'))]
  BY <1>1, <1>2, <1>8, <1>10 DEF ServerTypes
<1> QED BY <1>1, <1>9, <1>10, <1>11, <1>12, <1>13, ServerTraffic

\* The reader w is done with its frame.
LEMMA ReaderDone ==
  ASSUME ServerTypes, NEW w \in Readers, reader' = [reader EXCEPT ![w] = IdleReader], 0 \in E0,
         SentBy(rt) \subseteq SentBy(rt')
  PROVE  /\ reader' \in [Readers -> ReaderType(E0, SentBy(rt'))]
         /\ \A v \in Readers : reader'[v].pc \in {"data", "control"} =>
               reader'[v].sess = reader[v].sess /\ reader[v].pc \in {"data", "control"}
<1>1. IdleReader \in ReaderType(E0, SentBy(rt)) /\ IdleReader.pc = "idle" BY DEF Planes, IdleReader, ReaderType
<1>2. reader' \in [Readers -> ReaderType(E0, SentBy(rt))] BY <1>1 DEF ServerTypes
<1>3. reader' \in [Readers -> ReaderType(E0, SentBy(rt'))] BY <1>2, TypesGrow
<1> QED BY <1>1, <1>3 DEF ServerTypes

\* A step of the server that only reads the table.
LEMMA LookupStep ==
  ASSUME Inv, UNCHANGED <<epoch, drawn, rt, room, sess, tableClosed, upper>>, UNCHANGED clientVars, Refreshed,
         reader' \in [Readers -> ReaderType(E0, SentBy(rt))],
         \A w \in Readers : reader'[w].pc \in {"data", "control"} =>
             \/ reader'[w].sess = reader[w].sess /\ reader[w].pc \in {"data", "control"}
             \/ reader'[w].sess \in DOMAIN sess /\ InTable(reader'[w].sess)
  PROVE  Inv'
<1>1. RuntimesOK(rt', E0) /\ Grows(rt, rt') /\ SentBy(rt) \subseteq SentBy(rt') /\ rt' = rt
  BY SameRuntimes DEF Inv
<1>2. room' \subseteq FrameType(E0, SentBy(rt')) BY <1>1 DEF Inv, RoomTypes
<1>3. upper' \in [Planes -> [Epochs -> Seq(SentBy(rt'))]] /\ reader' \in [Readers -> ReaderType(E0, SentBy(rt'))]
  BY <1>1 DEF Inv, ServerTypes
<1> QED BY <1>1, <1>2, <1>3, ServerTraffic

\* What DeliverTo does to the runtimes and to the upper layer.
LEMMA DeliverFacts ==
  ASSUME Inv, NEW i \in DOMAIN rt, NEW e \in E0, NEW p \in Planes, NEW pkts \in Seq(SentBy(rt)),
         DeliverTo(i, e, p, pkts)
  PROVE  /\ RuntimesOK(rt', E0) /\ Grows(rt, rt') /\ SentBy(rt) \subseteq SentBy(rt') /\ DOMAIN rt' = DOMAIN rt
         /\ \A j \in DOMAIN rt : /\ rt'[j].src = rt[j].src /\ rt'[j].dst = rt[j].dst
                                 /\ rt'[j].plane = rt[j].plane /\ rt'[j].open = rt[j].open
         /\ upper' \in [Planes -> [Epochs -> Seq(SentBy(rt'))]]
<1> DEFINE new == Fed(rt, i, pkts)
<1>1. RuntimesOK(rt, E0) /\ i \in DOMAIN rt /\ pkts \in Seq(SentBy(rt)) BY DEF Inv, RoomTypes
<1>2. /\ RuntimesOK(new, E0) /\ Grows(rt, new) /\ SentBy(rt) \subseteq SentBy(new) /\ DOMAIN new = DOMAIN rt
      /\ new[i].got = IF rt[i].open THEN Received(rt[i].got, pkts) ELSE rt[i].got
      /\ new[i].got \in Seq(SentBy(rt)) /\ Len(rt[i].got) <= Len(new[i].got)
      /\ \A j \in DOMAIN rt :
            /\ new[j].src = rt[j].src /\ new[j].dst = rt[j].dst /\ new[j].plane = rt[j].plane
            /\ new[j].msgs = rt[j].msgs /\ new[j].open = rt[j].open
            /\ j # i => new[j] = rt[j]
  BY ONLY <1>1, InputOK
<1>3. rt' = new /\ new[i] = Input(rt[i], pkts) BY <1>1 DEF DeliverTo, Fed
<1> HIDE DEF new
<1> DEFINE before == Len(rt[i].got)
           got == new[i].got
           part == SubSeq(got, before + 1, Len(got))
<1>4. upper' = [upper EXCEPT ![p][e] = upper[p][e] \o part] BY <1>3 DEF DeliverTo
<1>5. part \in Seq(SentBy(rt))
  <2>1. before \in Nat /\ got \in Seq(SentBy(rt)) BY <1>1, <1>2, RuntimeFields
  <2> HIDE DEF before, got
  <2>2. before + 1 \in Int /\ Len(got) \in Int /\ \A k \in (before + 1) .. Len(got) : got[k] \in SentBy(rt)
    BY <2>1
  <2> QED BY <2>1, <2>2, SubSeqProperties
<1> HIDE DEF part
<1>6. upper \in [Planes -> [Epochs -> Seq(SentBy(rt))]] BY DEF Inv, ServerTypes
<1>7. upper' \in [Planes -> [Epochs -> Seq(SentBy(rt))]]
  <2>1. CASE e \in Epochs BY <1>4, <1>5, <1>6, <2>1, ConcatProperties
  <2>2. CASE e \notin Epochs BY <1>4, <1>6, <2>2
  <2> QED BY <2>1, <2>2
<1>8. Seq(SentBy(rt)) \subseteq Seq(SentBy(rt')) BY <1>2, <1>3, TypesGrow
<1>9. upper' \in [Planes -> [Epochs -> Seq(SentBy(rt'))]] BY <1>7, <1>8
<1> QED BY <1>2, <1>3, <1>9

\* The payload that reader w holds goes into runtime i.
LEMMA DeliverStep ==
  ASSUME Inv, NEW w \in Readers, NEW i \in DOMAIN rt, NEW p \in Planes,
         DeliverTo(i, reader[w].src, p, reader[w].pkts), reader' = [reader EXCEPT ![w] = IdleReader],
         UNCHANGED <<epoch, drawn, room, sess, peers, tableClosed>>, UNCHANGED clientVars
  PROVE  Inv'
<1>1. reader[w].src \in E0 /\ reader[w].pkts \in Seq(SentBy(rt)) BY DEF Inv, ServerTypes, ReaderType
<1>2. /\ RuntimesOK(rt', E0) /\ Grows(rt, rt') /\ SentBy(rt) \subseteq SentBy(rt') /\ DOMAIN rt' = DOMAIN rt
      /\ \A j \in DOMAIN rt : /\ rt'[j].src = rt[j].src /\ rt'[j].dst = rt[j].dst
                              /\ rt'[j].plane = rt[j].plane /\ rt'[j].open = rt[j].open
      /\ upper' \in [Planes -> [Epochs -> Seq(SentBy(rt'))]]
  BY <1>1, DeliverFacts
<1>3. room' \subseteq FrameType(E0, SentBy(rt')) BY <1>2, TypesGrow DEF Inv, RoomTypes
<1>4. 0 \in E0 /\ ServerTypes BY SceneFacts DEF Inv, RoomTypes, E0
<1>5. /\ reader' \in [Readers -> ReaderType(E0, SentBy(rt'))]
      /\ \A v \in Readers : reader'[v].pc \in {"data", "control"} =>
            reader'[v].sess = reader[v].sess /\ reader[v].pc \in {"data", "control"}
  BY <1>2, <1>4, ReaderDone
<1>6. Refreshed BY DEF Refreshed
<1> QED BY <1>2, <1>3, <1>5, <1>6, ServerTraffic

LEMMA DeliverDataStep ==
  ASSUME Inv, NEW w \in Readers, DeliverData(w) PROVE Inv'
<1>1. "data" \in Planes BY DEF Planes
<1>2. sess[reader[w].sess].data \in DOMAIN rt BY DEF Inv, ReaderInv, SessionInv, DeliverData
<1> QED BY <1>1, <1>2, DeliverStep DEF DeliverData

\* A session of the table sends a packet to its peer.
LEMMA AnswerStep ==
  ASSUME Inv, NEW e, Has(e), NEW i \in DOMAIN rt, NEW x \in E0, rt' = SendVia(rt, i, x),
         room' = room \cup {FrameOf(rt[i], <<<<i, Len(rt[i].msgs) + 1>>>>)}, peers' = Touch(peers, Get(e)),
         UNCHANGED <<epoch, drawn, sess, tableClosed, reader, upper>>, UNCHANGED clientVars
  PROVE  Inv'
<1> DEFINE new == SendVia(rt, i, x)
<1>1. RuntimesOK(rt, E0) /\ i \in DOMAIN rt /\ x \in E0 BY DEF Inv, RoomTypes
<1>2. /\ RuntimesOK(new, E0) /\ Grows(rt, new) /\ SentBy(rt) \subseteq SentBy(new) /\ DOMAIN new = DOMAIN rt
      /\ new[i].msgs = Append(rt[i].msgs, x)
      /\ \A j \in DOMAIN rt :
            /\ new[j].src = rt[j].src /\ new[j].dst = rt[j].dst /\ new[j].plane = rt[j].plane
            /\ new[j].got = rt[j].got /\ new[j].open = rt[j].open
            /\ j # i => new[j] = rt[j]
      /\ <<i, Len(rt[i].msgs) + 1>> \in SentBy(new)
  BY ONLY <1>1, SendViaOK
<1>3. rt' = new OBVIOUS
<1> HIDE DEF new
<1>4. room' \subseteq FrameType(E0, SentBy(rt'))
  <2>1. room \subseteq FrameType(E0, SentBy(rt')) BY <1>2, <1>3, TypesGrow DEF Inv, RoomTypes
  <2> DEFINE pkt == <<i, Len(rt[i].msgs) + 1>>
  <2>2. pkt \in SentBy(rt') BY <1>2, <1>3
  <2> HIDE DEF pkt
  <2>3. <<pkt>> \in Seq(SentBy(rt')) BY <2>2
  <2>4. rt[i].plane \in Planes /\ rt[i].src \in E0 /\ rt[i].dst \in E0 BY <1>1, RuntimeFields
  <2>5. FrameOf(rt[i], <<pkt>>) \in FrameType(E0, SentBy(rt')) BY <2>3, <2>4 DEF FrameOf, FrameType
  <2> QED BY <2>1, <2>5 DEF pkt
<1>5. Refreshed BY GetOK DEF Inv, Refreshed
<1>6. /\ reader' \in [Readers -> ReaderType(E0, SentBy(rt'))]
      /\ upper' \in [Planes -> [Epochs -> Seq(SentBy(rt'))]]
  <2>1. reader' \in [Readers -> ReaderType(E0, SentBy(rt'))] BY <1>2, <1>3, TypesGrow DEF Inv, ServerTypes
  <2>2. upper' \in [Planes -> [Epochs -> Seq(SentBy(rt'))]] BY <1>2, <1>3, TypesGrow DEF Inv, ServerTypes
  <2> QED BY <2>1, <2>2
<1> QED BY <1>2, <1>3, <1>4, <1>5, <1>6, ServerTraffic

LEMMA WelcomeStep ==
  ASSUME Inv, NEW e, Welcome(e) PROVE Inv'
<1>1. Has(e) /\ sess[Get(e)].control # None BY DEF Welcome
<1>2. sess[Get(e)].control \in DOMAIN rt BY <1>1, GetOK DEF Inv, SessionInv
<1>3. epoch[Server] \in E0 BY HeldEpochs DEF Inv
<1> QED BY <1>1, <1>2, <1>3, AnswerStep DEF Welcome

LEMMA SendToStep ==
  ASSUME Inv, NEW e, SendTo(e) PROVE Inv'
<1>1. Has(e) BY DEF SendTo
<1>2. sess[Get(e)].data \in DOMAIN rt BY <1>1, GetOK DEF Inv, SessionInv
<1>3. 0 \in E0 BY SceneFacts DEF Inv, RoomTypes, E0
<1> QED BY <1>1, <1>2, <1>3, AnswerStep DEF SendTo, PeerWriterPump

LEMMA LaunchFacts ==
  ASSUME Inv, NEW ids, \A i \in ids : i[1] = Server, NEW p \in Planes, NEW dst \in E0,
         rt' = Started(Shut(rt, ids), Fresh(Server), Runtime(p, epoch[Server], dst))
  PROVE  /\ RuntimesOK(rt', E0) /\ Grows(rt, rt') /\ SentBy(rt) \subseteq SentBy(rt') /\ NamesInv'
         /\ Launched(ids, p, dst)
         /\ \A c \in Clients : Untouched(c)
<1> DEFINE mid == Shut(rt, ids)
           new == Fresh(Server)
           src == epoch[Server]
<1>1. rt' = Started(mid, new, Runtime(p, src, dst)) OBVIOUS
<1>2. RuntimesOK(rt, E0) /\ NamesInv /\ Server \in Nodes /\ src \in E0 \ {0} /\ 0 \in E0
  BY SceneFacts, HeldEpochs DEF Inv, RoomTypes, E0, Nodes
<1>3. /\ RuntimesOK(mid, E0) /\ Grows(rt, mid) /\ SentBy(rt) \subseteq SentBy(mid) /\ DOMAIN mid = DOMAIN rt
      /\ \A i \in DOMAIN rt :
            /\ mid[i].src = rt[i].src /\ mid[i].dst = rt[i].dst /\ mid[i].plane = rt[i].plane
            /\ mid[i].msgs = rt[i].msgs /\ mid[i].got = rt[i].got
            /\ mid[i].open <=> rt[i].open /\ i \notin ids
  BY <1>2, ShutOK
<1>4. new \in Ids /\ new[1] = Server /\ new \notin DOMAIN rt BY <1>2, FreshIsNew DEF Ids
<1> HIDE DEF mid, new, src
<1>5. /\ RuntimesOK(rt', E0) /\ Grows(mid, rt') /\ SentBy(mid) \subseteq SentBy(rt')
      /\ DOMAIN rt' = DOMAIN mid \cup {new}
      /\ \A i \in DOMAIN mid : rt'[i] = mid[i]
      /\ rt'[new] = Runtime(p, src, dst)
  <2> DEFINE st == Started(mid, new, Runtime(p, src, dst))
  <2>1. /\ RuntimesOK(mid, E0) /\ 0 \in E0 /\ new \in Ids /\ new \notin DOMAIN mid
        /\ p \in Planes /\ src \in E0 \ {0} /\ dst \in E0
    BY <1>2, <1>3, <1>4
  <2>2. /\ RuntimesOK(st, E0) /\ Grows(mid, st) /\ SentBy(mid) \subseteq SentBy(st)
        /\ DOMAIN st = DOMAIN mid \cup {new}
        /\ \A i \in DOMAIN mid : st[i] = mid[i]
        /\ st[new] = Runtime(p, src, dst)
        /\ st[new].src = src /\ st[new].dst = dst /\ st[new].plane = p /\ st[new].open
        /\ st[new].msgs = <<>> /\ st[new].got = <<>>
    BY ONLY <2>1, StartedOK
  <2> QED BY <1>1, <2>2
<1>6. Grows(rt, rt') BY <1>3, <1>5 DEF Grows
<1>7. NamesInv' BY <1>2, <1>3, <1>5, NamesStay DEF new
<1>8. Launched(ids, p, dst) BY <1>3, <1>4, <1>5 DEF Launched, new, src
<1>9. ASSUME NEW c \in Clients PROVE Untouched(c)
  <2> SUFFICES ASSUME NEW i \in DOMAIN rt, i[1] = c PROVE rt'[i].open = rt[i].open BY <1>3, <1>5 DEF Untouched
  <2>1. i \notin ids BY ServerIsNoClient
  <2>2. rt[i].open \in BOOLEAN /\ mid[i].open \in BOOLEAN /\ rt'[i] = mid[i] BY <1>2, <1>3, <1>5, RuntimeFields
  <2>3. mid[i].open <=> rt[i].open BY <1>3, <2>1
  <2> QED BY <2>2, <2>3
<1> QED BY <1>3, <1>5, <1>6, <1>7, <1>8, <1>9

LEMMA SessionRuntimes ==
  ASSUME Inv, NEW s \in DOMAIN sess PROVE \A i \in RuntimesOf(s) : i \in DOMAIN rt /\ i[1] = Server
BY DEF Inv, SessionInv, RuntimesOf

\* One session leaves the table: the one at place k.
LEMMA DropOne ==
  ASSUME Inv, NEW k \in 1 .. Len(peers), NEW rest \in Seq(DOMAIN sess), Len(rest) = Len(peers) - 1,
         \A j \in 1 .. (Len(peers) - 1) : rest[j] = IF j < k THEN peers[j] ELSE peers[j + 1]
  PROVE  Cut(rest, ClosedSession(sess, peers[k]), RuntimesOf(peers[k]))
<1> DEFINE s == peers[k]
           kept == ClosedSession(sess, s)
           n == Len(peers)
<1>1. /\ peers \in Seq(DOMAIN sess) /\ sess \in Seq(SessionType(E0)) /\ n \in Nat
      /\ DOMAIN peers = 1 .. n /\ DOMAIN rest = 1 .. (n - 1)
      /\ s \in DOMAIN sess /\ s = peers[k] /\ k \in 1 .. n
  BY DEF Inv, ServerTypes
<1>2. /\ kept \in Seq(SessionType(E0)) /\ Len(kept) = Len(sess) /\ DOMAIN kept = DOMAIN sess
      /\ \A t \in DOMAIN sess : t # s => kept[t] = sess[t]
      /\ kept[s].epoch = sess[s].epoch /\ kept[s].data = sess[s].data /\ kept[s].control = None
      /\ kept[s].closed = TRUE
  <2> DEFINE r == [sess[s] EXCEPT !.control = None, !.closed = TRUE]
  <2>1. kept = [sess EXCEPT ![s] = r] BY <1>1 DEF ClosedSession
  <2>2. sess[s] \in SessionType(E0) BY <1>1
  <2>3. /\ r \in SessionType(E0) /\ r.epoch = sess[s].epoch /\ r.data = sess[s].data /\ r.control = None
        /\ r.closed = TRUE
    BY <2>2 DEF SessionType
  <2> HIDE DEF r, kept, s
  <2> QED BY <1>1, <2>1, <2>3
<1> HIDE DEF kept, n, s
<1>3. \A j \in 1 .. (n - 1) : rest[j] = IF j < k THEN peers[j] ELSE peers[j + 1] BY DEF n
<1>4. \A i, j \in 1 .. n : sess[peers[i]].epoch = sess[peers[j]].epoch => i = j BY <1>1 DEF Inv, TableInv
<1> DEFINE at(j) == IF j < k THEN j ELSE j + 1
<1>5. \A j \in 1 .. (n - 1) : at(j) \in 1 .. n /\ at(j) # k BY <1>1
<1>6. \A i, j \in 1 .. (n - 1) : at(i) = at(j) => i = j
  <2>1. n \in Nat /\ k \in Nat BY <1>1
  <2> SUFFICES ASSUME NEW i \in 1 .. (n - 1), NEW j \in 1 .. (n - 1), at(i) = at(j) PROVE i = j OBVIOUS
  <2>2. i \in Nat /\ j \in Nat BY ONLY <2>1, i \in 1 .. (n - 1), j \in 1 .. (n - 1), SMT
  <2> QED BY ONLY <2>1, <2>2, at(i) = at(j), SMT
<1>7. \A j \in 1 .. (n - 1) : rest[j] = peers[at(j)] BY <1>3
<1>8. \A i \in 1 .. n : i # k => \E j \in 1 .. (n - 1) : at(j) = i
  <2> SUFFICES ASSUME NEW i \in 1 .. n, i # k PROVE \E j \in 1 .. (n - 1) : at(j) = i OBVIOUS
  <2>1. CASE i < k
    <3>1. i \in 1 .. (n - 1) /\ at(i) = i BY <1>1, <2>1
    <3> QED BY <3>1
  <2>2. CASE ~(i < k)
    <3>1. i - 1 \in 1 .. (n - 1) /\ at(i - 1) = i BY <1>1, <2>2
    <3> QED BY <3>1
  <2> QED BY <2>1, <2>2
<1> HIDE DEF at
<1>9. \A j \in 1 .. (n - 1) : rest[j] # s /\ rest[j] \in DOMAIN sess /\ InTable(rest[j])
  <2> SUFFICES ASSUME NEW j \in 1 .. (n - 1) PROVE rest[j] # s /\ rest[j] \in DOMAIN sess /\ InTable(rest[j])
    OBVIOUS
  <2>1. at(j) \in 1 .. n /\ at(j) # k /\ rest[j] = peers[at(j)] BY <1>5, <1>7
  <2>2. rest[j] # s BY <1>1, <1>4, <2>1
  <2> QED BY <1>1, <2>1, <2>2, SMTT(20) DEF InTable
<1>10. \A j \in 1 .. (n - 1) : kept[rest[j]] = sess[rest[j]] /\ ~sess[rest[j]].closed
  BY <1>1, <1>2, <1>9, ZenonT(30) DEF Inv, TableInv, InTable
<1>11. \A i, j \in 1 .. (n - 1) : sess[rest[i]].epoch = sess[rest[j]].epoch => i = j BY <1>4, <1>5, <1>6, <1>7
<1>12. \A i \in 1 .. n :
        \/ \E j \in 1 .. (n - 1) : rest[j] = peers[i]
        \/ kept[peers[i]].closed /\ RuntimesOf(peers[i]) \subseteq RuntimesOf(s)
  <2> SUFFICES ASSUME NEW i \in 1 .. n, i # k PROVE \E j \in 1 .. (n - 1) : rest[j] = peers[i] BY <1>1, <1>2
  <2>1. PICK j \in 1 .. (n - 1) : at(j) = i BY <1>8
  <2> QED BY <1>7, <2>1
<1>13. ~sess[s].closed BY <1>1 DEF Inv, TableInv
<1>14. \A t \in DOMAIN sess :
        /\ kept[t].data = sess[t].data /\ kept[t].control \in {sess[t].control, None}
        /\ sess[t].closed => kept[t] = sess[t]
  BY <1>2, <1>13
<1>15. \A i \in RuntimesOf(s) : i \in DOMAIN rt /\ i[1] = Server BY <1>1, SessionRuntimes
<1>16. Len(rest) <= Len(peers) BY <1>1 DEF n
<1>17. Cut(rest, kept, RuntimesOf(s)) BY <1>1, <1>2, <1>9, <1>10, <1>11, <1>12, <1>14, <1>15, <1>16 DEF Cut
<1> QED BY <1>17 DEF kept, s

LEMMA ShutFacts ==
  ASSUME Inv, NEW ids, \A i \in ids : i[1] = Server, rt' = Shut(rt, ids)
  PROVE  /\ RuntimesOK(rt', E0) /\ Grows(rt, rt') /\ SentBy(rt) \subseteq SentBy(rt') /\ NamesInv'
         /\ DOMAIN rt' = DOMAIN rt
         /\ \A i \in DOMAIN rt : rt'[i].open <=> rt[i].open /\ i \notin ids
         /\ \A c \in Clients : Untouched(c)
<1> DEFINE new == Shut(rt, ids)
<1>1. RuntimesOK(rt, E0) /\ NamesInv BY DEF Inv, RoomTypes
<1>2. /\ RuntimesOK(new, E0) /\ Grows(rt, new) /\ SentBy(rt) \subseteq SentBy(new) /\ DOMAIN new = DOMAIN rt
      /\ \A i \in DOMAIN rt :
            /\ new[i].src = rt[i].src /\ new[i].dst = rt[i].dst /\ new[i].plane = rt[i].plane
            /\ new[i].msgs = rt[i].msgs /\ new[i].got = rt[i].got
            /\ new[i].open <=> rt[i].open /\ i \notin ids
  BY <1>1, ShutOK
<1>3. rt' = new OBVIOUS
<1> HIDE DEF new
<1>4. NamesInv' BY <1>1, <1>2, <1>3, NamesStay
<1>5. ASSUME NEW c \in Clients PROVE Untouched(c)
  <2> SUFFICES ASSUME NEW i \in DOMAIN rt, i[1] = c PROVE rt'[i].open = rt[i].open BY <1>2, <1>3 DEF Untouched
  <2>1. i \notin ids BY ServerIsNoClient
  <2>2. rt[i].open \in BOOLEAN /\ new[i].open \in BOOLEAN BY <1>1, <1>2, RuntimeFields
  <2>3. new[i].open <=> rt[i].open BY <1>2, <2>1
  <2> QED BY <1>3, <2>2, <2>3
<1> QED BY <1>2, <1>3, <1>4, <1>5

\* Sessions leave the table and nothing else happens.
LEMMA CutStep ==
  ASSUME Inv, NEW gone, Cut(peers', sess', gone), rt' = Shut(rt, gone), room' \subseteq room,
         UNCHANGED <<epoch, drawn, reader, upper>>, UNCHANGED clientVars, tableClosed' \in BOOLEAN
  PROVE  Inv'
<1>1. /\ scene' = scene /\ E0' = E0 /\ Epochs' = Epochs /\ UNCHANGED <<plane, closed>>
  BY DEF clientVars, E0, Epochs
<1>2. /\ RuntimesOK(rt', E0) /\ Grows(rt, rt') /\ SentBy(rt) \subseteq SentBy(rt') /\ NamesInv'
      /\ DOMAIN rt' = DOMAIN rt
      /\ \A i \in DOMAIN rt : rt'[i].open <=> rt[i].open /\ i \notin gone
      /\ \A c \in Clients : Untouched(c)
  BY ShutFacts DEF Cut
<1>3. /\ peers' \in Seq(DOMAIN sess) /\ Len(peers') <= Len(peers)
      /\ sess' \in Seq(SessionType(E0)) /\ DOMAIN sess' = DOMAIN sess
      /\ \A s \in DOMAIN sess :
            /\ sess'[s].data = sess[s].data /\ sess'[s].control \in {sess[s].control, None}
            /\ sess[s].closed => sess'[s] = sess[s]
      /\ \A i \in DOMAIN peers' : sess'[peers'[i]] = sess[peers'[i]] /\ ~sess[peers'[i]].closed
      /\ \A i, j \in DOMAIN peers' : sess[peers'[i]].epoch = sess[peers'[j]].epoch => i = j
      /\ \A k \in DOMAIN peers :
            \/ \E i \in DOMAIN peers' : peers'[i] = peers[k]
            \/ sess'[peers[k]].closed /\ RuntimesOf(peers[k]) \subseteq gone
  BY DEF Cut, Inv, ServerTypes
<1>4. ServerTypes'
  <2>1. reader' \in [Readers -> ReaderType(E0, SentBy(rt'))] BY <1>2, TypesGrow DEF Inv, ServerTypes
  <2>2. upper' \in [Planes -> [Epochs -> Seq(SentBy(rt'))]] BY <1>2, TypesGrow DEF Inv, ServerTypes
  <2> QED BY <1>1, <1>3, <2>1, <2>2 DEF ServerTypes
<1>5. SessionInv' BY <1>2, <1>3 DEF Inv, SessionInv
<1>6. TableInv'
  <2>1. Len(peers') \in Nat /\ Len(peers) \in Nat /\ maxPeers \in Nat /\ Len(peers) <= maxPeers
    BY <1>3, BoundsAssumption DEF Inv, ServerTypes, TableInv
  <2>2. Len(peers') <= maxPeers
    <3>1. Len(peers') <= Len(peers) BY <1>3
    <3> QED BY ONLY <2>1, <3>1, SMT
  <2> QED BY <1>3, <2>2 DEF TableInv
<1>7. ReaderInv'
  <2> SUFFICES ASSUME NEW w \in Readers, reader[w].pc \in {"data", "control"}
               PROVE  /\ reader[w].sess \in DOMAIN sess'
                      /\ \/ sess'[reader[w].sess].closed
                         \/ \E k \in DOMAIN peers' : peers'[k] = reader[w].sess
    BY DEF ReaderInv, InTable
  <2>1. reader[w].sess \in DOMAIN sess /\ (sess[reader[w].sess].closed \/ InTable(reader[w].sess))
    BY DEF Inv, ReaderInv
  <2> QED BY <1>3, <2>1 DEF InTable
<1>8. NoStrandedRuntime'
  <2> SUFFICES ASSUME NEW i \in DOMAIN rt', rt'[i].open PROVE Owned(i)' \/ Overtaken(i)' BY DEF NoStrandedRuntime
  <2>1. i \in DOMAIN rt /\ rt[i].open /\ i \notin gone BY <1>2
  <2>2. Owned(i) \/ Overtaken(i) BY <2>1 DEF Inv, NoStrandedRuntime
  <2>3. ASSUME NEW k \in DOMAIN peers, i \in RuntimesOf(peers[k])
        PROVE  \E j \in DOMAIN peers' : i \in {sess'[peers'[j]].data, sess'[peers'[j]].control} \ {None}
    <3>1. PICK j \in DOMAIN peers' : peers'[j] = peers[k] BY <1>3, <2>1, <2>3
    <3>2. sess'[peers'[j]] = sess[peers[k]] BY <1>3, <3>1
    <3> QED BY <2>3, <3>2 DEF RuntimesOf
  <2>4. CASE Owned(i) BY <1>1, <2>3, <2>4 DEF Owned, RuntimesOf
  <2>5. CASE Overtaken(i) BY <1>3, <2>5 DEF Overtaken
  <2> QED BY <2>2, <2>4, <2>5
<1>9. room' \subseteq FrameType(E0, SentBy(rt')) BY <1>2, TypesGrow DEF Inv, RoomTypes
<1>10. drawn' \in Epochs /\ epoch' \in EpochMap /\ \A c \in Clients : Untouched(c) /\ epoch'[c] = epoch[c]
  BY <1>2 DEF Inv, RoomTypes
<1> QED BY <1>2, <1>4, <1>5, <1>6, <1>7, <1>8, <1>9, <1>10, ServerMoves

LEMMA SweepStep ==
  ASSUME Inv, Sweep PROVE Inv'
<1>1. PICK k \in DOMAIN peers :
        /\ peers' = RemoveAt(peers, k)
        /\ rt' = Shut(rt, RuntimesOf(peers[k]))
        /\ sess' = ClosedSession(sess, peers[k])
        /\ room' = {f \in room : f.src # sess[peers[k]].epoch}
  BY DEF Sweep
<1>2. UNCHANGED <<epoch, drawn, tableClosed, reader, upper>> /\ UNCHANGED clientVars BY DEF Sweep
<1>3. peers \in Seq(DOMAIN sess) BY DEF Inv, ServerTypes
<1>4. k \in 1 .. Len(peers) BY <1>3
<1> DEFINE rest == RemoveAt(peers, k)
<1>5. /\ rest \in Seq(DOMAIN sess) /\ Len(rest) = Len(peers) - 1
      /\ \A j \in 1 .. (Len(peers) - 1) : rest[j] = IF j < k THEN peers[j] ELSE peers[j + 1]
  BY ONLY <1>3, <1>4, RemoveAtFacts
<1> HIDE DEF rest
<1>6. Cut(rest, ClosedSession(sess, peers[k]), RuntimesOf(peers[k])) BY <1>4, <1>5, DropOne
<1>7. Cut(peers', sess', RuntimesOf(peers[k])) BY <1>1, <1>6 DEF rest
<1>8. room' \subseteq room /\ tableClosed' \in BOOLEAN BY <1>1, <1>2 DEF Inv, ServerTypes
<1> QED BY <1>1, <1>2, <1>7, <1>8, CutStep

LEMMA ServerClosesStep ==
  ASSUME Inv, ServerCloses PROVE Inv'
<1> DEFINE gone == UNION {RuntimesOf(peers[k]) : k \in DOMAIN peers}
<1>1. /\ tableClosed' = TRUE /\ rt' = Shut(rt, gone) /\ peers' = <<>>
      /\ sess' = [s \in DOMAIN sess |->
                   IF \E k \in DOMAIN peers : peers[k] = s
                   THEN [sess[s] EXCEPT !.control = None, !.closed = TRUE] ELSE sess[s]]
      /\ UNCHANGED <<epoch, drawn, room, reader, upper>> /\ UNCHANGED clientVars
  BY DEF ServerCloses
<1>2. /\ sess \in Seq(SessionType(E0)) /\ peers \in Seq(DOMAIN sess) /\ DOMAIN peers = 1 .. Len(peers)
      /\ Len(peers) \in Nat /\ \A k \in DOMAIN peers : peers[k] \in DOMAIN sess
  BY DEF Inv, ServerTypes
<1>3. ASSUME NEW s \in DOMAIN sess
      PROVE  /\ sess'[s] \in SessionType(E0)
             /\ sess'[s].data = sess[s].data /\ sess'[s].control \in {sess[s].control, None}
             /\ InTable(s) => sess'[s].closed
             /\ ~InTable(s) => sess'[s] = sess[s]
  <2>1. sess[s] \in SessionType(E0) BY <1>2
  <2>2. CASE InTable(s) BY <1>1, <2>1, <2>2 DEF InTable, SessionType
  <2>3. CASE ~InTable(s) BY <1>1, <2>1, <2>3 DEF InTable
  <2> QED BY <2>2, <2>3
<1>4. sess' \in Seq(SessionType(E0)) /\ Len(sess') = Len(sess)
  <2>1. DOMAIN sess = 1 .. Len(sess) /\ Len(sess) \in Nat BY <1>2
  <2>2. sess' = [s \in 1 .. Len(sess) |-> sess'[s]] BY <1>1, <2>1
  <2>3. sess' \in [1 .. Len(sess) -> SessionType(E0)] BY <1>3, <2>1, <2>2
  <2> QED BY <2>1, <2>3
<1>5. \A s \in DOMAIN sess : sess[s].closed => ~InTable(s) BY DEF Inv, TableInv, InTable
<1>6. \A i \in gone : i \in DOMAIN rt /\ i[1] = Server BY <1>2, SessionRuntimes
<1>7. \A k \in DOMAIN peers : sess'[peers[k]].closed /\ RuntimesOf(peers[k]) \subseteq gone
  BY <1>2, <1>3 DEF InTable
<1> HIDE DEF gone
<1>8. /\ peers' \in Seq(DOMAIN sess) /\ Len(peers') <= Len(peers) /\ DOMAIN peers' = {}
  <2>1. <<>> \in Seq(DOMAIN sess) /\ Len(<<>>) = 0 /\ DOMAIN <<>> = {} OBVIOUS
  <2>2. peers' = <<>> /\ Len(peers) \in Nat BY <1>1, <1>2
  <2>3. Len(peers') <= Len(peers) BY ONLY <2>1, <2>2
  <2> QED BY ONLY <2>1, <2>2, <2>3
<1>9. Cut(peers', sess', gone) BY <1>3, <1>4, <1>5, <1>6, <1>7, <1>8 DEF Cut
<1> QED BY <1>1, <1>9, CutStep

\* A session for the epoch e joins what is left of the table.
LEMMA JoinStep ==
  ASSUME Inv, NEW w \in Readers, NEW e \in E0, ~Has(e), NEW rest, NEW kept, NEW gone, Cut(rest, kept, gone),
         Len(rest) < maxPeers,
         rt' = Started(Shut(rt, gone), Fresh(Server), Runtime("data", epoch[Server], e)),
         sess' = Append(kept, [epoch |-> e, data |-> Fresh(Server), control |-> None, closed |-> FALSE]),
         peers' = Append(rest, Len(sess) + 1),
         reader' = [reader EXCEPT ![w] = Found(reader[w], Len(sess) + 1)],
         UNCHANGED <<epoch, drawn, room, tableClosed, upper>>, UNCHANGED clientVars
  PROVE  Inv'
<1> DEFINE N == Len(sess) + 1
           d == Fresh(Server)
           fresh == [epoch |-> e, data |-> d, control |-> None, closed |-> FALSE]
           m == Len(rest)
<1>1. /\ scene' = scene /\ E0' = E0 /\ Epochs' = Epochs /\ UNCHANGED <<plane, closed>>
  BY DEF clientVars, E0, Epochs
<1>2. /\ RuntimesOK(rt', E0) /\ Grows(rt, rt') /\ SentBy(rt) \subseteq SentBy(rt') /\ NamesInv'
      /\ Launched(gone, "data", e)
      /\ \A c \in Clients : Untouched(c)
  BY LaunchFacts DEF Planes, Cut
<1>3. /\ rest \in Seq(DOMAIN sess) /\ kept \in Seq(SessionType(E0)) /\ Len(kept) = Len(sess)
      /\ \A s \in DOMAIN sess :
            /\ kept[s].data = sess[s].data /\ kept[s].control \in {sess[s].control, None}
            /\ sess[s].closed => kept[s] = sess[s]
      /\ \A i \in DOMAIN rest : InTable(rest[i]) /\ kept[rest[i]] = sess[rest[i]] /\ ~sess[rest[i]].closed
      /\ \A i, j \in DOMAIN rest : sess[rest[i]].epoch = sess[rest[j]].epoch => i = j
      /\ \A k \in DOMAIN peers :
            \/ \E i \in DOMAIN rest : rest[i] = peers[k]
            \/ kept[peers[k]].closed /\ RuntimesOf(peers[k]) \subseteq gone
  BY DEF Cut
<1>4. /\ sess \in Seq(SessionType(E0)) /\ Len(sess) \in Nat /\ DOMAIN sess = 1 .. Len(sess) /\ N \in Nat
      /\ m \in Nat /\ DOMAIN rest = 1 .. m /\ DOMAIN kept = 1 .. Len(sess)
      /\ N \notin DOMAIN sess /\ DOMAIN sess \subseteq 1 .. N /\ N \in 1 .. N
      /\ 1 .. N = DOMAIN sess \cup {N} /\ m + 1 \notin 1 .. m /\ 1 .. (m + 1) = 1 .. m \cup {m + 1}
  <2>1. /\ sess \in Seq(SessionType(E0)) /\ Len(sess) \in Nat /\ DOMAIN sess = 1 .. Len(sess)
        /\ m \in Nat /\ DOMAIN rest = 1 .. m /\ DOMAIN kept = 1 .. Len(sess)
    BY <1>3 DEF Inv, ServerTypes
  <2> HIDE DEF m
  <2>2. /\ N \in Nat /\ N \notin 1 .. Len(sess) /\ 1 .. Len(sess) \subseteq 1 .. N /\ N \in 1 .. N
        /\ 1 .. N = 1 .. Len(sess) \cup {N}
    BY ONLY <2>1
  <2>3. m + 1 \notin 1 .. m /\ 1 .. (m + 1) = 1 .. m \cup {m + 1} BY ONLY <2>1
  <2> QED BY <2>1, <2>2, <2>3
<1>5. d \in Ids /\ d # None /\ d[1] = Server /\ d \in DOMAIN rt' /\ d \notin DOMAIN rt
  BY <1>2 DEF Launched, Ids, None
<1> HIDE DEF d
<1>6. fresh \in SessionType(E0) /\ fresh.epoch = e /\ fresh.data = d /\ fresh.control = None /\ fresh.closed = FALSE
  BY <1>5 DEF SessionType
<1>7. sess' = Append(kept, fresh) /\ peers' = Append(rest, N) BY DEF d
<1> HIDE DEF fresh, N, m
<1>8. /\ sess' \in Seq(SessionType(E0)) /\ DOMAIN sess' = 1 .. N /\ sess'[N] = fresh
      /\ \A s \in DOMAIN sess : sess'[s] = kept[s]
  <2>1. /\ Append(kept, fresh) \in Seq(SessionType(E0)) /\ Len(Append(kept, fresh)) = Len(kept) + 1
        /\ \A s \in 1 .. Len(kept) : Append(kept, fresh)[s] = kept[s]
        /\ Append(kept, fresh)[Len(kept) + 1] = fresh
    <3>1. kept \in Seq(SessionType(E0)) /\ fresh \in SessionType(E0) BY <1>3, <1>6
    <3> QED BY ONLY <3>1, AppendProperties
  <2>2. Len(kept) + 1 = N BY <1>3 DEF N
  <2>3. DOMAIN sess' = 1 .. Len(sess') BY <1>7, <2>1
  <2> QED BY <1>3, <1>4, <1>7, <2>1, <2>2, <2>3
<1>9. /\ peers' \in Seq(DOMAIN sess') /\ Len(peers') = m + 1 /\ DOMAIN peers' = 1 .. (m + 1)
      /\ peers'[m + 1] = N /\ \A i \in DOMAIN rest : peers'[i] = rest[i]
  <2>1. rest \in Seq(1 .. N) /\ N \in 1 .. N BY <1>3, <1>4, SeqGrows
  <2>2. /\ Append(rest, N) \in Seq(1 .. N) /\ Len(Append(rest, N)) = Len(rest) + 1
        /\ \A s \in 1 .. Len(rest) : Append(rest, N)[s] = rest[s]
        /\ Append(rest, N)[Len(rest) + 1] = N
    BY ONLY <2>1, AppendProperties
  <2>3. peers' \in Seq(1 .. N) /\ Len(peers') = m + 1 /\ peers'[m + 1] = N BY <1>7, <2>2 DEF m
  <2>4. DOMAIN peers' = 1 .. (m + 1) BY <2>3
  <2> QED BY <1>4, <1>7, <1>8, <2>2, <2>3, <2>4 DEF m
<1>10. \A i \in DOMAIN rest : /\ i \in DOMAIN peers' /\ rest[i] \in DOMAIN sess
                              /\ sess'[peers'[i]] = sess[rest[i]]
  BY <1>3, <1>4, <1>8, <1>9
<1>11. m + 1 \in DOMAIN peers' /\ sess'[peers'[m + 1]] = fresh BY <1>4, <1>8, <1>9
<1>12. TableInv'
  <2>1. Len(peers') <= maxPeers BY <1>4, <1>9, BoundsAssumption DEF m
  <2>2. \A k \in DOMAIN peers' : k \in DOMAIN rest \/ k = m + 1 BY <1>4, <1>9
  <2>3. \A i \in DOMAIN rest : sess'[peers'[i]].epoch # fresh.epoch BY <1>3, <1>6, <1>10 DEF Has, InTable
  <2>4. \A k \in DOMAIN peers' : ~sess'[peers'[k]].closed BY <1>3, <1>6, <1>10, <1>11, <2>2
  <2>5. \A j, k \in DOMAIN peers' : sess'[peers'[j]].epoch = sess'[peers'[k]].epoch => j = k
    <3>1. \A i, j \in DOMAIN rest : sess'[peers'[i]].epoch = sess'[peers'[j]].epoch => i = j BY <1>3, <1>10
    <3>2. sess'[peers'[m + 1]].epoch = fresh.epoch BY <1>11
    <3> QED BY ONLY <2>2, <2>3, <3>1, <3>2, Zenon
  <2> QED BY <2>1, <2>4, <2>5 DEF TableInv
<1>13. SessionInv'
  <2> SUFFICES ASSUME NEW s \in DOMAIN sess'
               PROVE  /\ sess'[s].data \in DOMAIN rt' /\ sess'[s].data[1] = Server
                      /\ sess'[s].control # None =>
                            sess'[s].control \in DOMAIN rt' /\ sess'[s].control[1] = Server
    BY DEF SessionInv
  <2>1. CASE s \in DOMAIN sess BY <1>2, <1>3, <1>8, <2>1 DEF Grows, Inv, SessionInv
  <2>2. CASE s = N BY <1>5, <1>6, <1>8, <2>2
  <2> QED BY <1>4, <1>8, <2>1, <2>2
<1>14. \A k \in DOMAIN peers :
          \/ \E i \in DOMAIN peers' : peers'[i] = peers[k] /\ sess'[peers'[i]] = sess[peers[k]]
          \/ sess'[peers[k]].closed /\ RuntimesOf(peers[k]) \subseteq gone
  <2> SUFFICES ASSUME NEW k \in DOMAIN peers
               PROVE  \/ \E i \in DOMAIN peers' : peers'[i] = peers[k] /\ sess'[peers'[i]] = sess[peers[k]]
                      \/ sess'[peers[k]].closed /\ RuntimesOf(peers[k]) \subseteq gone
    OBVIOUS
  <2>1. peers[k] \in DOMAIN sess BY DEF Inv, ServerTypes
  <2>2. ASSUME NEW i \in DOMAIN rest, rest[i] = peers[k]
        PROVE  \E j \in DOMAIN peers' : peers'[j] = peers[k] /\ sess'[peers'[j]] = sess[peers[k]]
    BY <1>9, <1>10, <2>2
  <2>3. CASE kept[peers[k]].closed /\ RuntimesOf(peers[k]) \subseteq gone BY <1>8, <2>1, <2>3
  <2> QED BY <1>3, <2>2, <2>3
<1>15. /\ reader' \in [Readers -> ReaderType(E0, SentBy(rt'))]
       /\ reader'[w].pc \in {"data", "control"} => reader'[w].sess = N
       /\ \A v \in Readers : v # w => reader'[v] = reader[v]
  <2>1. reader \in [Readers -> ReaderType(E0, SentBy(rt'))] /\ 0 \in E0
    <3>1. 0 \in E0 BY SceneFacts DEF Inv, RoomTypes, E0
    <3>2. reader \in [Readers -> ReaderType(E0, SentBy(rt'))] BY <1>2, TypesGrow DEF Inv, ServerTypes
    <3> QED BY <3>1, <3>2
  <2> DEFINE r == Found(reader[w], N)
  <2>2. r \in ReaderType(E0, SentBy(rt')) /\ (r.pc \in {"data", "control"} => r.sess = N) BY <1>4, <2>1, FoundType
  <2> HIDE DEF r
  <2>3. reader' = [reader EXCEPT ![w] = r] BY DEF r, N
  <2> QED BY <2>1, <2>2, <2>3
<1>16. ReaderInv'
  <2> SUFFICES ASSUME NEW v \in Readers, reader'[v].pc \in {"data", "control"}
               PROVE  /\ reader'[v].sess \in DOMAIN sess'
                      /\ \/ sess'[reader'[v].sess].closed
                         \/ \E k \in DOMAIN peers' : peers'[k] = reader'[v].sess
    BY DEF ReaderInv, InTable
  <2>1. CASE v = w BY <1>4, <1>8, <1>9, <1>11, <1>15, <2>1
  <2>2. CASE v # w
    <3>1. /\ reader'[v] = reader[v] /\ reader[v].sess \in DOMAIN sess
          /\ sess[reader[v].sess].closed \/ InTable(reader[v].sess)
      BY <1>15, <2>2 DEF Inv, ReaderInv
    <3>2. CASE sess[reader[v].sess].closed BY <1>3, <1>4, <1>8, <3>1, <3>2
    <3>3. CASE InTable(reader[v].sess) BY <1>4, <1>8, <1>14, <3>1, <3>3 DEF InTable
    <3> QED BY <3>1, <3>2, <3>3
  <2> QED BY <2>1, <2>2
<1>17. NoStrandedRuntime'
  <2> SUFFICES ASSUME NEW i \in DOMAIN rt', rt'[i].open PROVE Owned(i)' \/ Overtaken(i)' BY DEF NoStrandedRuntime
  <2>1. CASE i = d BY <1>5, <1>6, <1>11, <2>1 DEF Owned, RuntimesOf
  <2>2. CASE i # d
    <3>1. i \in DOMAIN rt /\ rt[i].open /\ i \notin gone BY <1>2, <2>2 DEF Launched, d
    <3>2. Owned(i) \/ Overtaken(i) BY <3>1 DEF Inv, NoStrandedRuntime
    <3>3. ASSUME NEW k \in DOMAIN peers, i \in RuntimesOf(peers[k])
          PROVE  \E j \in DOMAIN peers' : i \in {sess'[peers'[j]].data, sess'[peers'[j]].control} \ {None}
      <4>1. PICK j \in DOMAIN peers' : sess'[peers'[j]] = sess[peers[k]] BY <1>14, <3>1, <3>3
      <4> QED BY <3>3, <4>1 DEF RuntimesOf
    <3>4. CASE Owned(i) BY <1>1, <3>3, <3>4 DEF Owned, RuntimesOf
    <3>5. CASE Overtaken(i)
      <4>1. PICK s \in DOMAIN sess : sess[s].closed /\ sess[s].control = i BY <3>5 DEF Overtaken
      <4>2. s \in DOMAIN sess' /\ sess'[s] = sess[s] BY <1>3, <1>4, <1>8, <4>1
      <4> QED BY <4>1, <4>2 DEF Overtaken
    <3> QED BY <3>2, <3>4, <3>5
  <2> QED BY <2>1, <2>2
<1>18. ServerTypes' BY <1>1, <1>2, <1>8, <1>9, <1>15, TypesGrow DEF Inv, ServerTypes
<1>19. room' \subseteq FrameType(E0, SentBy(rt')) BY <1>2, TypesGrow DEF Inv, RoomTypes
<1>20. drawn' \in Epochs /\ epoch' \in EpochMap /\ \A c \in Clients : Untouched(c) /\ epoch'[c] = epoch[c]
  BY <1>2 DEF Inv, RoomTypes
<1> QED BY <1>2, <1>12, <1>13, <1>16, <1>17, <1>18, <1>19, <1>20, ServerMoves

\* When the table is not full nothing leaves it, otherwise its first session.
LEMMA AddStep ==
  ASSUME Inv, NEW w \in Readers, NEW e \in E0, ~Has(e), Add(e),
         reader' = [reader EXCEPT ![w] = Found(reader[w], Len(sess) + 1)],
         UNCHANGED <<epoch, drawn, room, tableClosed, upper>>, UNCHANGED clientVars
  PROVE  Inv'
<1>1. /\ peers \in Seq(DOMAIN sess) /\ sess \in Seq(SessionType(E0))
      /\ Len(peers) \in Nat /\ maxPeers \in Nat \ {0} /\ Len(peers) <= maxPeers
  BY BoundsAssumption DEF Inv, ServerTypes, TableInv
<1>2. CASE Len(peers) >= maxPeers
  <2> DEFINE rest == Tail(peers)
  <2>1. Len(peers) = maxPeers /\ peers # <<>> /\ 1 \in 1 .. Len(peers) /\ Head(peers) = peers[1] BY <1>1, <1>2
  <2>2. /\ rest \in Seq(DOMAIN sess) /\ Len(rest) = Len(peers) - 1
        /\ \A j \in 1 .. (Len(peers) - 1) : rest[j] = peers[j + 1]
    BY <1>1, <2>1
  <2> HIDE DEF rest
  <2>3. \A j \in 1 .. (Len(peers) - 1) : rest[j] = IF j < 1 THEN peers[j] ELSE peers[j + 1]
    <3>1. \A j \in 1 .. (Len(peers) - 1) : ~(j < 1) BY ONLY <1>1, SMT
    <3> QED BY ONLY <2>2, <3>1, Zenon
  <2>4. Cut(rest, ClosedSession(sess, peers[1]), RuntimesOf(peers[1])) BY <2>1, <2>2, <2>3, DropOne
  <2>5. Len(rest) < maxPeers BY <1>1, <2>1, <2>2
  <2>6. UNION {RuntimesOf(s) : s \in {Head(peers)}} = RuntimesOf(peers[1]) BY <2>1
  <2>7. /\ rt' = Started(Shut(rt, RuntimesOf(peers[1])), Fresh(Server), Runtime("data", epoch[Server], e))
        /\ sess' = Append(ClosedSession(sess, peers[1]),
                          [epoch |-> e, data |-> Fresh(Server), control |-> None, closed |-> FALSE])
        /\ peers' = Append(rest, Len(sess) + 1)
    BY <1>2, <2>1, <2>6 DEF Add, rest
  <2> QED BY <2>4, <2>5, <2>7, JoinStep
<1>3. CASE ~(Len(peers) >= maxPeers)
  <2>1. Len(peers) < maxPeers BY <1>1, <1>3
  <2>2. Cut(peers, sess, {}) BY <1>1 DEF InTable, Inv, TableInv, Cut
  <2>3. UNION {RuntimesOf(s) : s \in {}} = {} OBVIOUS
  <2>4. /\ rt' = Started(Shut(rt, {}), Fresh(Server), Runtime("data", epoch[Server], e))
        /\ sess' = Append(sess, [epoch |-> e, data |-> Fresh(Server), control |-> None, closed |-> FALSE])
        /\ peers' = Append(peers, Len(sess) + 1)
    BY <1>3, <2>3 DEF Add
  <2> QED BY <2>1, <2>2, <2>4, JoinStep
<1> QED BY <1>2, <1>3

LEMMA PeerSessionForStep ==
  ASSUME Inv, NEW w \in Readers, PeerSessionFor(w) PROVE Inv'
<1> DEFINE e == reader[w].src
<1>1. UNCHANGED <<epoch, drawn, room, tableClosed, upper>> /\ UNCHANGED clientVars BY DEF PeerSessionFor
<1>2. ServerTypes /\ reader \in [Readers -> ReaderType(E0, SentBy(rt))] /\ 0 \in E0 /\ e \in E0
  BY SceneFacts DEF Inv, RoomTypes, E0, ServerTypes, ReaderType
<1>3. CASE /\ Has(e) /\ reader' = [reader EXCEPT ![w] = Found(reader[w], Get(e))]
           /\ peers' = Touch(peers, Get(e)) /\ UNCHANGED <<rt, sess, lost>>
  <2> DEFINE s == Get(e)
             r == Found(reader[w], s)
  <2>1. s \in DOMAIN sess /\ InTable(s) BY <1>2, <1>3, GetOK
  <2>2. s \in Nat BY <1>2, <2>1 DEF ServerTypes
  <2> HIDE DEF s
  <2>3. r \in ReaderType(E0, SentBy(rt)) /\ (r.pc \in {"data", "control"} => r.sess = s) BY <1>2, <2>2, FoundType
  <2>4. reader' = [reader EXCEPT ![w] = r] BY <1>3 DEF s
  <2> HIDE DEF r
  <2>5. /\ reader' \in [Readers -> ReaderType(E0, SentBy(rt))] /\ reader'[w] = r
        /\ \A v \in Readers : v # w => reader'[v] = reader[v]
    BY <1>2, <2>3, <2>4
  <2>6. Refreshed BY <1>3, <2>1 DEF Refreshed, s
  <2>7. \A v \in Readers : reader'[v].pc \in {"data", "control"} =>
               \/ reader'[v].sess = reader[v].sess /\ reader[v].pc \in {"data", "control"}
               \/ reader'[v].sess \in DOMAIN sess /\ InTable(reader'[v].sess)
    BY <2>1, <2>3, <2>5
  <2> QED BY <1>1, <1>3, <2>5, <2>6, <2>7, LookupStep
<1>4. CASE reader' = [reader EXCEPT ![w] = IdleReader] /\ UNCHANGED <<rt, sess, peers, lost>>
  <2>1. SentBy(rt) \subseteq SentBy(rt') BY <1>4
  <2>2. /\ reader' \in [Readers -> ReaderType(E0, SentBy(rt'))]
        /\ \A v \in Readers : reader'[v].pc \in {"data", "control"} =>
              reader'[v].sess = reader[v].sess /\ reader[v].pc \in {"data", "control"}
    BY <1>2, <1>4, <2>1, ReaderDone
  <2>3. Refreshed /\ reader' \in [Readers -> ReaderType(E0, SentBy(rt))] BY <1>4, <2>2 DEF Refreshed
  <2> QED BY <1>1, <1>4, <2>2, <2>3, LookupStep
<1>5. CASE ~Has(e) /\ Add(e) /\ reader' = [reader EXCEPT ![w] = Found(reader[w], Len(sess) + 1)]
  BY <1>1, <1>2, <1>5, AddStep
<1> QED BY <1>3, <1>4, <1>5 DEF PeerSessionFor

LEMMA PeerControlForStep ==
  ASSUME Inv, NEW w \in Readers, PeerControlFor(w) PROVE Inv'
<1> DEFINE s == reader[w].sess
           d == Fresh(Server)
<1>1. UNCHANGED <<epoch, drawn, room, peers, tableClosed>> /\ UNCHANGED clientVars BY DEF PeerControlFor
<1>2. s \in DOMAIN sess /\ (sess[s].closed \/ InTable(s)) BY DEF PeerControlFor, Inv, ReaderInv
<1>3. CASE /\ sess[s].control # None
           /\ DeliverTo(sess[s].control, reader[w].src, "control", reader[w].pkts)
           /\ reader' = [reader EXCEPT ![w] = IdleReader] /\ UNCHANGED sess
  BY <1>1, <1>2, <1>3, DeliverStep DEF Planes, Inv, SessionInv
<1>4. CASE /\ sess[s].control = None
           /\ rt' = Started(rt, Fresh(Server), Runtime("control", epoch[Server], sess[s].epoch))
           /\ sess' = [sess EXCEPT ![s].control = Fresh(Server)]
           /\ UNCHANGED <<reader, upper>>
  <2>1. /\ scene' = scene /\ E0' = E0 /\ Epochs' = Epochs /\ UNCHANGED <<plane, closed>>
    BY <1>1 DEF clientVars, E0, Epochs
  <2>2. sess \in Seq(SessionType(E0)) /\ sess[s] \in SessionType(E0) /\ sess[s].epoch \in E0 /\ "control" \in Planes
    <3>1. sess \in Seq(SessionType(E0)) /\ "control" \in Planes BY DEF Inv, ServerTypes, Planes
    <3>2. sess[s] \in SessionType(E0) BY <1>2, <3>1
    <3> QED BY <3>1, <3>2 DEF SessionType
  <2>3. Shut(rt, {}) = rt BY DEF Inv, RoomTypes, RuntimesOK, Shut
  <2>4. /\ RuntimesOK(rt', E0) /\ Grows(rt, rt') /\ SentBy(rt) \subseteq SentBy(rt') /\ NamesInv'
        /\ Launched({}, "control", sess[s].epoch)
        /\ \A c \in Clients : Untouched(c)
    BY <1>4, <2>2, <2>3, LaunchFacts
  <2>5. d \in Ids /\ d # None /\ d[1] = Server /\ d \in DOMAIN rt' /\ d \notin DOMAIN rt
    BY <2>4 DEF Launched, Ids, None
  <2>6. \A i \in DOMAIN rt' : rt'[i].open => i = d \/ (i \in DOMAIN rt /\ rt[i].open) BY <2>4 DEF Launched
  <2> HIDE DEF d, s
  <2>7. /\ sess' \in Seq(SessionType(E0)) /\ DOMAIN sess' = DOMAIN sess
        /\ \A t \in DOMAIN sess : t # s => sess'[t] = sess[t]
        /\ sess'[s].epoch = sess[s].epoch /\ sess'[s].data = sess[s].data /\ sess'[s].control = d
        /\ sess'[s].closed = sess[s].closed
    <3> DEFINE r == [sess[s] EXCEPT !.control = d]
    <3>1. sess' = [sess EXCEPT ![s] = r] BY <1>2, <1>4 DEF d, s
    <3>2. /\ r \in SessionType(E0) /\ r.epoch = sess[s].epoch /\ r.data = sess[s].data /\ r.control = d
          /\ r.closed = sess[s].closed
      BY <2>2, <2>5 DEF SessionType
    <3> HIDE DEF r
    <3> QED BY <1>2, <2>2, <3>1, <3>2
  <2>8. ServerTypes'
    <3>1. reader' \in [Readers -> ReaderType(E0, SentBy(rt'))] BY <1>4, <2>4, TypesGrow DEF Inv, ServerTypes
    <3>2. upper' \in [Planes -> [Epochs -> Seq(SentBy(rt'))]] BY <1>4, <2>4, TypesGrow DEF Inv, ServerTypes
    <3> QED BY <1>1, <2>1, <2>7, <3>1, <3>2 DEF Inv, ServerTypes
  <2>9. \A t \in DOMAIN sess : sess'[t].epoch = sess[t].epoch /\ sess'[t].closed = sess[t].closed BY <2>7
  <2>10. TableInv'
    <3>1. \A k \in DOMAIN peers : peers[k] \in DOMAIN sess BY DEF Inv, ServerTypes
    <3> QED BY <1>1, <2>9, <3>1 DEF Inv, TableInv
  <2>11. SessionInv' BY <2>4, <2>5, <2>7 DEF Inv, SessionInv, Grows
  <2>12. ReaderInv' BY <1>1, <1>4, <2>7, <2>9 DEF Inv, ReaderInv, InTable
  <2>13. NoStrandedRuntime'
    <3> SUFFICES ASSUME NEW i \in DOMAIN rt', rt'[i].open PROVE Owned(i)' \/ Overtaken(i)'
      BY DEF NoStrandedRuntime
    <3>1. CASE i = d
      <4>1. CASE sess[s].closed BY <1>2, <2>7, <3>1, <4>1 DEF Overtaken
      <4>2. CASE InTable(s)
        <5>1. PICK k \in DOMAIN peers : peers[k] = s BY <4>2 DEF InTable
        <5>2. i \in {sess'[peers'[k]].data, sess'[peers'[k]].control} \ {None} BY <1>1, <2>5, <2>7, <3>1, <5>1
        <5> QED BY <1>1, <5>2 DEF Owned, RuntimesOf
      <4> QED BY <1>2, <4>1, <4>2 DEF s
    <3>2. CASE i # d
      <4>1. i \in DOMAIN rt /\ rt[i].open BY <2>6, <3>2
      <4>2. Owned(i) \/ Overtaken(i) BY <4>1 DEF Inv, NoStrandedRuntime
      <4>3. i # None BY <4>1, RuntimeFields DEF Inv, RoomTypes, Ids, None
      <4>4. \A t \in DOMAIN sess : i \in RuntimesOf(t) => i \in {sess'[t].data, sess'[t].control} \ {None}
        BY <1>4, <2>7, <4>3 DEF RuntimesOf, s
      <4>5. CASE Owned(i) BY <1>1, <2>1, <4>4, <4>5 DEF Inv, ServerTypes, Owned, RuntimesOf
      <4>6. CASE Overtaken(i)
        <5>1. PICK t \in DOMAIN sess : sess[t].closed /\ sess[t].control = i BY <4>6 DEF Overtaken
        <5>2. t # s BY <1>4, <4>3, <5>1 DEF s
        <5> QED BY <2>7, <5>1, <5>2 DEF Overtaken
      <4> QED BY <4>2, <4>5, <4>6
    <3> QED BY <3>1, <3>2
  <2>14. room' \subseteq FrameType(E0, SentBy(rt')) BY <1>1, <2>4, TypesGrow DEF Inv, RoomTypes
  <2>15. drawn' \in Epochs /\ epoch' \in EpochMap /\ \A c \in Clients : Untouched(c) /\ epoch'[c] = epoch[c]
    BY <1>1, <2>4 DEF Inv, RoomTypes
  <2> QED BY <1>1, <2>4, <2>8, <2>10, <2>11, <2>12, <2>13, <2>14, <2>15, ServerMoves
<1> QED BY <1>3, <1>4 DEF PeerControlFor

LEMMA ServerReconnectsStep ==
  ASSUME Inv, ServerReconnects PROVE Inv'
<1>1. /\ drawn < scene.epochs /\ drawn' = drawn + 1 /\ epoch' = [epoch EXCEPT ![Server] = drawn + 1]
      /\ room' = {f \in room : f.dst # epoch[Server]} /\ rt' = rt /\ UNCHANGED clientVars /\ UNCHANGED serverVars
  BY DEF ServerReconnects
<1>2. /\ drawn' \in Epochs /\ epoch' \in EpochMap /\ \A m \in Nodes : m # Server => epoch'[m] = epoch[m]
  BY <1>1, NewEpoch DEF Inv, Nodes
<1>3. /\ RuntimesOK(rt', E0) /\ Grows(rt, rt') /\ SentBy(rt) \subseteq SentBy(rt') /\ NamesInv'
      /\ \A n : Untouched(n)
      /\ \A i \in DOMAIN rt' : rt'[i].open => i \in DOMAIN rt /\ rt[i].open
  BY <1>1, SameRuntimes DEF Inv
<1>4. ServerTypes' /\ SessionInv' /\ TableInv' /\ ReaderInv' BY <1>1, <1>3, ServerStays DEF Inv
<1>5. NoStrandedRuntime' BY <1>1, <1>3, OwnersStay DEF Inv, clientVars, serverVars
<1>6. room' \subseteq FrameType(E0, SentBy(rt')) BY <1>1 DEF Inv, RoomTypes
<1>7. \A c \in Clients : Untouched(c) /\ epoch'[c] = epoch[c] BY <1>2, <1>3, ServerIsNoClient DEF Nodes
<1> QED BY <1>1, <1>2, <1>3, <1>4, <1>5, <1>6, <1>7, ServerMoves

\* The number of packets of i in a sequence is a number.
LEMMA GreaterOfTwo ==
  ASSUME NEW a \in Nat, NEW b \in Nat PROVE Max({a, b}) \in Nat
<1> DEFINE m == IF a <= b THEN b ELSE a
<1>1. m \in {a, b} /\ \A y \in {a, b} : m >= y OBVIOUS
<1>2. Max({a, b}) = CHOOSE x \in {a, b} : \A y \in {a, b} : x >= y BY DEF Max
<1> HIDE DEF m
<1>3. Max({a, b}) \in {a, b} BY <1>1, <1>2
<1> QED BY <1>3

LEMMA CountPackets ==
  ASSUME NEW P, NEW q \in Seq(P), NEW i PROVE Cardinality({pkt \in Range(q) : pkt[1] = i}) \in Nat
<1>1. IsFiniteSet(1 .. Len(q)) BY FS_Interval
<1> DEFINE T == {q[k] : k \in 1 .. Len(q)}
           Part == {pkt \in T : pkt[1] = i}
<1>2. IsFiniteSet(T)
  <2>1. q \in Surjection(1 .. Len(q), T) BY DEF Surjection
  <2> HIDE DEF T
  <2> QED BY <1>1, <2>1, FS_Surjection
<1>3. Range(q) = T BY DEF Range
<1>4. IsFiniteSet(Part)
  <2>1. Part \subseteq T OBVIOUS
  <2> HIDE DEF T, Part
  <2> QED BY <1>2, <2>1, FS_Subset
<1>5. Cardinality(Part) \in Nat BY <1>4, FS_CardinalityType
<1> QED BY <1>3, <1>5

LEMMA ServerRestartsStep ==
  ASSUME Inv, ServerRestarts PROVE Inv'
<1> DEFINE seen(i) == Max({rt[i].acked, Taken(i)})
<1>1. /\ drawn < scene.epochs /\ drawn' = drawn + 1 /\ epoch' = [epoch EXCEPT ![Server] = drawn + 1]
      /\ rt' = [i \in DOMAIN rt |-> IF i[1] = Server THEN [rt[i] EXCEPT !.open = FALSE]
                                    ELSE [rt[i] EXCEPT !.acked = seen(i)]]
      /\ room' = {} /\ peers' = <<>> /\ reader' = Reading
      /\ upper' = [p \in Planes |-> [e \in Epochs |-> <<>>]]
      /\ UNCHANGED <<sess, tableClosed>> /\ UNCHANGED clientVars
  <2>1. rt' = [i \in DOMAIN rt |-> IF i[1] = Server THEN [rt[i] EXCEPT !.open = FALSE]
                                   ELSE [rt[i] EXCEPT !.acked = Max({@, Taken(i)})]]
    BY DEF ServerRestarts
  <2>2. \A i \in DOMAIN rt : [rt[i] EXCEPT !.acked = Max({@, Taken(i)})] = [rt[i] EXCEPT !.acked = seen(i)]
    BY ZenonT(30)
  <2>3. rt' = [i \in DOMAIN rt |-> IF i[1] = Server THEN [rt[i] EXCEPT !.open = FALSE]
                                   ELSE [rt[i] EXCEPT !.acked = seen(i)]]
    <3> HIDE DEF seen
    <3> QED BY <2>1, <2>2, ZenonT(30)
  <2> QED BY <2>3 DEF ServerRestarts
<1>2. /\ drawn' \in Epochs /\ epoch' \in EpochMap /\ \A m \in Nodes : m # Server => epoch'[m] = epoch[m]
  BY <1>1, NewEpoch DEF Inv, Nodes
<1>3. scene' = scene /\ E0' = E0 /\ Epochs' = Epochs /\ 0 \in E0 /\ UNCHANGED <<plane, closed>>
  BY <1>1, SceneFacts DEF Inv, RoomTypes, clientVars, E0, Epochs
<1>4. RuntimesOK(rt, E0) /\ upper \in [Planes -> [Epochs -> Seq(SentBy(rt))]] BY DEF Inv, RoomTypes, ServerTypes
<1>5. ASSUME NEW i \in DOMAIN rt PROVE seen(i) \in Nat
  <2>1. rt[i].plane \in Planes /\ rt[i].src \in E0 \ {0} BY <1>4, RuntimeFields
  <2>2. rt[i].src \in Epochs BY <2>1, SceneFacts DEF Inv, RoomTypes, E0, Epochs
  <2> DEFINE q == upper[rt[i].plane][rt[i].src]
  <2>3. q \in Seq(SentBy(rt)) BY <1>4, <2>1, <2>2
  <2> HIDE DEF q
  <2>4. Cardinality({pkt \in Range(q) : pkt[1] = i}) \in Nat BY <2>3, CountPackets
  <2>5. Taken(i) \in Nat /\ rt[i].acked \in Nat BY <1>4, <2>4, RuntimeFields DEF q, Taken
  <2> QED BY <2>5, GreaterOfTwo
<1> HIDE DEF seen
<1>6. DOMAIN rt' = DOMAIN rt /\ rt' = [i \in DOMAIN rt' |-> rt'[i]] BY <1>1
<1>7. ASSUME NEW i \in DOMAIN rt
      PROVE  /\ rt'[i] \in RuntimeType(E0, SentBy(rt))
             /\ rt'[i].src = rt[i].src /\ rt'[i].dst = rt[i].dst /\ rt'[i].plane = rt[i].plane
             /\ rt'[i].msgs = rt[i].msgs
             /\ i[1] = Server => rt'[i].open = FALSE
             /\ i[1] # Server => rt'[i].open = rt[i].open
  <2>1. rt[i] \in RuntimeType(E0, SentBy(rt)) BY <1>4, RuntimeFields
  <2>2. CASE i[1] = Server BY <1>1, <2>1, <2>2 DEF RuntimeType
  <2>3. CASE i[1] # Server BY <1>1, <1>5, <2>1, <2>3 DEF RuntimeType
  <2> QED BY <2>2, <2>3
<1>8. Grows(rt, rt')
  <2>1. \A i \in DOMAIN rt : Len(rt[i].msgs) \in Nat /\ rt[i].open \in BOOLEAN BY <1>4, RuntimeFields
  <2>2. ASSUME NEW i \in DOMAIN rt PROVE Len(rt[i].msgs) <= Len(rt'[i].msgs)
    <3>1. rt'[i].msgs = rt[i].msgs BY <1>7
    <3> QED BY ONLY <2>1, <3>1
  <2> QED BY <1>6, <1>7, <2>2 DEF Grows
<1>9. RuntimesOK(rt', E0) /\ SentBy(rt) \subseteq SentBy(rt')
  BY <1>4, <1>6, <1>7, <1>8, RuntimeFields, StillRuntimes
<1>10. NamesInv' BY <1>6, NamesStay DEF Inv
<1>11. \A c \in Clients : Untouched(c) /\ epoch'[c] = epoch[c]
  BY <1>2, <1>6, <1>7, ServerIsNoClient DEF Untouched, Nodes
<1>12. /\ reader' \in [Readers -> ReaderType(E0, SentBy(rt'))]
       /\ \A w \in Readers : reader'[w].pc \in {"idle", "ended"}
  <2>1. <<>> \in Seq(SentBy(rt')) /\ "data" \in Planes BY DEF Planes
  <2> DEFINE ended == [IdleReader EXCEPT !.pc = "ended"]
  <2>2. IdleReader \in ReaderType(E0, SentBy(rt')) /\ IdleReader.pc \in {"idle", "ended"}
    BY <1>3, <2>1 DEF IdleReader, ReaderType
  <2>3. ended \in ReaderType(E0, SentBy(rt')) /\ ended.pc \in {"idle", "ended"} BY <2>2 DEF ReaderType
  <2>4. reader' = [w \in Readers |-> IF w \in scene.readers THEN IdleReader ELSE ended] BY <1>1 DEF Reading
  <2> HIDE DEF ended
  <2> QED BY <2>2, <2>3, <2>4
<1>13. peers' \in Seq(DOMAIN sess) /\ Len(peers') = 0 /\ DOMAIN peers' = {} BY <1>1
<1>14. ServerTypes' BY <1>1, <1>3, <1>12, <1>13 DEF Inv, ServerTypes
<1>15. SessionInv' BY <1>1, <1>6 DEF Inv, SessionInv
<1>16. TableInv' BY <1>13, BoundsAssumption DEF TableInv
<1>17. ReaderInv' BY <1>12 DEF ReaderInv
<1>18. NoStrandedRuntime'
  <2> SUFFICES ASSUME NEW i \in DOMAIN rt', rt'[i].open PROVE Owned(i)' \/ Overtaken(i)' BY DEF NoStrandedRuntime
  <2>1. i \in DOMAIN rt /\ rt[i].open /\ i[1] # Server BY <1>6, <1>7
  <2>2. Owned(i) \/ Overtaken(i) BY <2>1 DEF Inv, NoStrandedRuntime
  <2>3. \A k \in DOMAIN peers : i \notin RuntimesOf(peers[k]) BY <2>1, SessionRuntimes DEF Inv, ServerTypes
  <2>4. ~Overtaken(i) BY <2>1 DEF None, Overtaken, Inv, SessionInv
  <2> QED BY <1>3, <2>2, <2>3, <2>4 DEF Owned
<1>19. room' \subseteq FrameType(E0, SentBy(rt')) BY <1>1
<1> QED BY <1>1, <1>2, <1>9, <1>10, <1>11, <1>14, <1>15, <1>16, <1>17, <1>18, <1>19, ServerMoves

------------------------------------------------------------------------------
(* The invariant.                                                           *)

LEMMA ProviderLocksStep ==
  ASSUME Inv, NEW c \in Clients, ProviderLocks(c) PROVE Inv'
<1>1. "provider" \in Goroutines BY DEF Goroutines
<1> QED BY <1>1, LockStep DEF ProviderLocks

LEMMA LinkDiesStep ==
  ASSUME Inv, NEW c \in Clients, LinkDies(c) PROVE Inv'
<1>1. "session" \in Goroutines BY DEF Goroutines
<1> QED BY <1>1, LockStep DEF LinkDies

LEMMA ContinueReconnectStep ==
  ASSUME Inv, NEW c \in Clients, ContinueReconnect(c) PROVE Inv'
<1>1. "session" \in Goroutines /\ "provider" \in Goroutines BY DEF Goroutines
<1>2. UNCHANGED <<loop, epoch, drawn, confirmed, peerEpoch, closed, rt, plane, out, room>> /\ UNCHANGED serverVars
  BY DEF ContinueReconnect
<1>3. CASE mu[c] = "provider" /\ At(c, "provider", "restarted") /\ To(c, "provider", "hello") /\ mu' = mu
  BY <1>1, <1>2, <1>3, UnlockStep DEF At
<1>4. CASE mu[c] = "session" /\ At(c, "session", "restarted") /\ To(c, "session", "idle")
           /\ mu' = [mu EXCEPT ![c] = "free"]
  BY <1>1, <1>2, <1>4, UnlockStep DEF At
<1> QED BY <1>3, <1>4 DEF ContinueReconnect, AfterReset

LEMMA HandshakeFailsStep ==
  ASSUME Inv, NEW c \in Clients, HandshakeFails(c) PROVE Inv'
<1>1. mu[c] \in Goroutines BY DEF Inv, ClientTypes, HandshakeFails
<1> QED BY <1>1, UnlockStep DEF HandshakeFails

LEMMA StutterStep ==
  ASSUME Inv, UNCHANGED vars PROVE Inv'
<1>1. /\ UNCHANGED <<rt, epoch, drawn, confirmed, peerEpoch, closed, plane, go, mu, loop>> /\ UNCHANGED serverVars
      /\ out' = out /\ room' = room
  BY DEF vars, serverVars
<1>2. out' \in [Clients -> Seq(Stamped(E0, SentBy(rt)))] /\ room' \subseteq FrameType(E0, SentBy(rt))
  BY <1>1 DEF Inv, ClientTypes, RoomTypes
<1> QED BY <1>1, <1>2, WriteStep

LEMMA ClientNext ==
  ASSUME Inv, NEW c \in Clients, ClientStep(c) \/ \E g \in Goroutines : Restart(c, g) PROVE Inv'
<1>1. ASSUME NEW g \in Goroutines, Restart(c, g) PROVE Inv'
  BY <1>1, RotateStep, RestartDataStep, ControlHeaderStep, RestartControlStep DEF Restart
<1>2. CASE ProviderReconnected(c) \/ ProviderLocks(c) \/ LinkDies(c) \/ ContinueReconnect(c)
  BY <1>2, ProviderReconnectedStep, ProviderLocksStep, LinkDiesStep, ContinueReconnectStep
<1>3. CASE SendHello(c) \/ ConfirmPeer(c) \/ HandshakeFails(c)
  BY <1>3, SendHelloStep, ConfirmPeerStep, HandshakeFailsStep
<1>4. CASE Send(c) \/ Flush(c) \/ LateWriteTo(c) \/ DrainData(c) \/ ForceKeepalive(c) \/ DrainControl(c) \/ Close(c)
  BY <1>4, SendStep, FlushStep, LateWriteStep, DrainDataStep, KeepaliveStep, DrainControlStep, CloseStep
<1>5. CASE HandleClientFrame(c) \/ MaybePeerRestart(c) BY <1>5, HandleClientFrameStep, PeerRestartStep
<1> QED BY <1>1, <1>2, <1>3, <1>4, <1>5 DEF ClientStep

\* Every step of a client, of a reader and of the server keeps the invariant.
LEMMA NextInv == Inv /\ [Next]_vars => Inv'
<1> SUFFICES ASSUME Inv, [Next]_vars PROVE Inv' OBVIOUS
<1>1. ASSUME NEW w \in Readers, ReaderStep(w) PROVE Inv'
  BY <1>1, TakeFrameStep, PeerSessionForStep, DeliverDataStep, PeerControlForStep DEF ReaderStep
<1>2. ASSUME NEW e \in AllEpochs, Welcome(e) \/ SendTo(e) PROVE Inv' BY <1>2, WelcomeStep, SendToStep
<1>3. CASE Sweep \/ ServerReconnects \/ ServerCloses \/ ServerRestarts
  BY <1>3, SweepStep, ServerReconnectsStep, ServerClosesStep, ServerRestartsStep
<1>4. CASE UNCHANGED vars BY <1>4, StutterStep
<1> QED BY <1>1, <1>2, <1>3, <1>4, ClientNext DEF Next, ClientStep, ReaderStep

\* The invariant of the channel: every runtime, session, frame and header has
\* its type, the planes of a client hold its own runtimes and follow its epoch
\* through each point of a restart, readers hold sessions of the table or closed
\* ones, and every open runtime has an owner, at every moment of every run of
\* client.restartPlanes, handleReconnect, handleIncomingFrame and the peer table.
THEOREM ChannelInvariance == Spec => []Inv
<1>1. Init => Inv BY InitInv
<1>2. Inv /\ [Next]_vars => Inv' BY NextInv
<1> QED BY <1>1, <1>2, PTL DEF Spec

LEMMA InvTypeOK == Inv => TypeOK
<1> SUFFICES ASSUME Inv PROVE TypeOK OBVIOUS
<1>1. epoch \in [Nodes -> Epochs \cup {0}] /\ peerEpoch \in [Clients -> Epochs \cup {0}]
  BY SceneFacts, HeldEpochs DEF Inv, RoomTypes, E0, Epochs, ClientTypes
<1>2. plane \in [Clients -> [Planes -> DOMAIN rt \cup {None}]]
  <2>1. ASSUME NEW c \in Clients, NEW p \in Planes PROVE plane[c][p] \in DOMAIN rt \cup {None}
    BY DEF Inv, ClientInv, PlaneInv
  <2> QED BY <2>1 DEF Inv, ClientTypes
<1>3. \A k \in DOMAIN peers : peers[k] \in DOMAIN sess BY DEF Inv, ServerTypes
<1> QED BY <1>1, <1>2, <1>3 DEF Inv, TypeOK, RoomTypes, ClientTypes

\* The peer table never grows beyond maxPeers, never holds an epoch twice and
\* never a closed session, however peerSessionFor, the eviction of the oldest,
\* sweepPeers and closeAll follow one another.
THEOREM ThePeerTableIsSound == Spec => []TableIsSound
<1>1. Inv => TableIsSound
  <2> SUFFICES ASSUME Inv PROVE TableIsSound OBVIOUS
  <2>1. IsInjective(peers) BY DEF IsInjective, Inv, TableInv
  <2> QED BY <2>1, InvTypeOK DEF TableIsSound, Inv, TableInv
<1> QED BY <1>1, ChannelInvariance, PTL

\* A client at rest has both planes running under its epoch, and its data
\* addressed to the server it has confirmed, although the provider's callback
\* restarts the planes without reconnectMu.
THEOREM PlanesAlwaysAgree == Spec => []PlanesAgree
<1>1. Inv => PlanesAgree
  <2> SUFFICES ASSUME Inv, NEW c \in Clients, AtRest(c)
               PROVE  /\ \A p \in Planes : rt[plane[c][p]].open /\ rt[plane[c][p]].src = epoch[c]
                      /\ loop[c] => confirmed[c] /\ rt[plane[c]["data"]].dst = peerEpoch[c]
    BY DEF PlanesAgree
  <2>1. mu[c] = "free" /\ ~closed[c] /\ go[c]["provider"].pc = "idle" BY DEF AtRest, At, Goroutines
  <2>2. \A p \in Planes : rt[plane[c][p]].open BY <2>1, ActiveClient DEF Inv
  <2>3. Alone(c) /\ AgreeInv(c) BY <2>1 DEF Alone, Inv, ClientInv
  <2> QED BY <2>1, <2>2, <2>3 DEF AgreeInv
<1> QED BY <1>1, ChannelInvariance, PTL

\* No KCP session runs without an owner: restart, close, eviction, sweep and
\* closeAll shut every session they let go of, except the control session that
\* peerControlFor starts for a peer that was closed meanwhile.
THEOREM NoRuntimeIsStranded == Spec => []NoStrandedRuntime
<1>1. Inv => NoStrandedRuntime BY DEF Inv
<1> QED BY <1>1, ChannelInvariance, PTL

------------------------------------------------------------------------------
(* What a step does to the traffic of the runtimes.                         *)

LEMMA ShutTraffic ==
  ASSUME Inv, NEW ids, rt' = Shut(rt, ids) PROVE NoTraffic
<1> DEFINE new == Shut(rt, ids)
<1>1. RuntimesOK(rt, E0) BY DEF Inv, RoomTypes
<1>2. /\ DOMAIN new = DOMAIN rt
      /\ \A i \in DOMAIN rt :
            /\ new[i].src = rt[i].src /\ new[i].dst = rt[i].dst /\ new[i].plane = rt[i].plane
            /\ new[i].msgs = rt[i].msgs /\ new[i].got = rt[i].got
  BY <1>1, ShutOK
<1> QED BY <1>2 DEF NoTraffic, SameTraffic

LEMMA SendTraffic ==
  ASSUME Inv, NEW d \in DOMAIN rt, NEW x \in E0, rt' = SendVia(rt, d, x) PROVE Sends(d, x)
<1> DEFINE new == SendVia(rt, d, x)
<1>1. RuntimesOK(rt, E0) /\ d \in DOMAIN rt /\ x \in E0 BY DEF Inv, RoomTypes
<1>2. /\ RuntimesOK(new, E0) /\ Grows(rt, new) /\ SentBy(rt) \subseteq SentBy(new) /\ DOMAIN new = DOMAIN rt
      /\ new[d].msgs = Append(rt[d].msgs, x)
      /\ \A i \in DOMAIN rt :
            /\ new[i].src = rt[i].src /\ new[i].dst = rt[i].dst /\ new[i].plane = rt[i].plane
            /\ new[i].got = rt[i].got /\ new[i].open = rt[i].open
            /\ i # d => new[i] = rt[i]
      /\ <<d, Len(rt[d].msgs) + 1>> \in SentBy(new)
  BY ONLY <1>1, SendViaOK
<1> HIDE DEF new
<1>3. rt' = new BY DEF new
<1> QED BY <1>2, <1>3 DEF Sends, SameTraffic

LEMMA FeedTraffic ==
  ASSUME Inv, NEW d \in DOMAIN rt, NEW pkts \in Seq(SentBy(rt)), rt' = Fed(rt, d, pkts) PROVE Takes(d, pkts)
<1> DEFINE new == Fed(rt, d, pkts)
           P == SentBy(rt)
           old == rt[d].got
           more == new[d].got
<1>1. RuntimesOK(rt, E0) /\ d \in DOMAIN rt /\ pkts \in Seq(P) BY DEF Inv, RoomTypes
<1>2. /\ RuntimesOK(new, E0) /\ Grows(rt, new) /\ SentBy(rt) \subseteq SentBy(new) /\ DOMAIN new = DOMAIN rt
      /\ new[d].got = IF rt[d].open THEN Received(rt[d].got, pkts) ELSE rt[d].got
      /\ new[d].got \in Seq(SentBy(rt)) /\ Len(rt[d].got) <= Len(new[d].got)
      /\ \A i \in DOMAIN rt :
            /\ new[i].src = rt[i].src /\ new[i].dst = rt[i].dst /\ new[i].plane = rt[i].plane
            /\ new[i].msgs = rt[i].msgs /\ new[i].open = rt[i].open
            /\ i # d => new[i] = rt[i]
  BY ONLY <1>1, InputOK
<1> HIDE DEF new
<1>3. rt' = new BY DEF new
<1>4. old \in Seq(P) /\ more \in Seq(P) BY <1>1, <1>2, RuntimeFields
<1>5. more = old \/ more = Received(old, pkts) BY <1>2
<1> HIDE DEF old, more, P
<1>6. ASSUME NEW n \in DOMAIN more
      PROVE  \/ n \in DOMAIN old /\ more[n] = old[n]
             \/ more[n][2] = n /\ \E k \in DOMAIN pkts : more[n] = pkts[k]
  <2>1. CASE more = old BY <2>1
  <2>2. CASE more = Received(old, pkts)
    <3>1. /\ \A k \in 1 .. Len(old) : more[k] = old[k]
          /\ \A k \in 1 .. Len(more) : k > Len(old) =>
                more[k][2] = k /\ \E j \in 1 .. Len(pkts) : more[k] = pkts[j]
      BY <1>1, <1>4, <2>2, ReceivedExtends
    <3>2. /\ DOMAIN old = 1 .. Len(old) /\ DOMAIN more = 1 .. Len(more) /\ DOMAIN pkts = 1 .. Len(pkts)
          /\ Len(old) \in Nat /\ Len(more) \in Nat
      BY <1>1, <1>4
    <3>3. n \in 1 .. Len(old) \/ n > Len(old) BY <3>2
    <3> QED BY <3>1, <3>2, <3>3
  <2> QED BY <1>5, <2>1, <2>2
<1> QED BY <1>2, <1>3, <1>6 DEF Takes, SameTraffic, old, more

LEMMA PlaneTraffic ==
  ASSUME NEW c, NEW p, NEW src, Replaced(c, p, src) PROVE Begins(plane'[c][p], p, src, 0)
BY DEF Replaced, Begins, SameTraffic

LEMMA LaunchTraffic ==
  ASSUME NEW ids, NEW p, NEW dst, Launched(ids, p, dst) PROVE Begins(Fresh(Server), p, epoch[Server], dst)
BY DEF Launched, Begins, SameTraffic, Runtime

LEMMA RestartTraffic ==
  ASSUME Inv, ServerRestarts PROVE NoTraffic
<1>1. rt' = [i \in DOMAIN rt |-> IF i[1] = Server THEN [rt[i] EXCEPT !.open = FALSE]
                                 ELSE [rt[i] EXCEPT !.acked = Max({@, Taken(i)})]]
  BY DEF ServerRestarts
<1>2. DOMAIN rt' = DOMAIN rt BY <1>1
<1>3. ASSUME NEW i \in DOMAIN rt PROVE SameTraffic(i)
  <2>1. rt[i] \in RuntimeType(E0, SentBy(rt)) BY RuntimeFields DEF Inv, RoomTypes
  <2>2. CASE i[1] = Server BY <1>1, <2>1, <2>2 DEF RuntimeType, SameTraffic
  <2>3. CASE i[1] # Server
    <3> DEFINE m == Max({rt[i].acked, Taken(i)})
    <3>1. rt'[i] = [rt[i] EXCEPT !.acked = m] BY <1>1, <2>3, ZenonT(30)
    <3> HIDE DEF m
    <3> QED BY <2>1, <3>1 DEF RuntimeType, SameTraffic
  <2> QED BY <2>2, <2>3
<1> QED BY <1>2, <1>3 DEF NoTraffic

\* ConfirmPeer gives the data plane the header the last control packet names.
LEMMA BindTraffic ==
  ASSUME Inv, NEW c \in Clients, ConfirmPeer(c)
  PROVE  /\ c \in scene.clients /\ plane[c]["data"] \in DOMAIN rt /\ plane[c]["control"] \in DOMAIN rt
         /\ mu[c] \in Goroutines /\ go[c][mu[c]].pc = "welcome"
         /\ \E n \in DOMAIN rt[plane[c]["control"]].got :
              LET pkt == rt[plane[c]["control"]].got[n]
                  server == rt[pkt[1]].msgs[pkt[2]]
              IN  /\ pkt \in SentBy(rt) /\ Binds(plane[c]["data"], epoch[c], server)
                  /\ peerEpoch' = [peerEpoch EXCEPT ![c] = server]
<1> DEFINE g == mu[c]
           i == plane[c]["control"]
           d0 == plane[c]["data"]
           n == Len(rt[i].got)
           pkt == rt[i].got[n]
           server == rt[pkt[1]].msgs[pkt[2]]
<1>0. g \in Goroutines /\ "data" \in Planes /\ "control" \in Planes BY DEF Inv, ClientTypes, ConfirmPeer, Planes
<1>1. ClientTypes /\ ClientInv /\ RoomTypes BY DEF Inv
<1>2. /\ g # "free" /\ At(c, g, "welcome") /\ n > go[c][g].hdr
      /\ rt' = [rt EXCEPT ![d0].src = epoch[c], ![d0].dst = server]
      /\ peerEpoch' = [peerEpoch EXCEPT ![c] = server]
  BY DEF ConfirmPeer
<1>3. c \in scene.clients /\ i \in DOMAIN rt /\ d0 \in DOMAIN rt
  <2>1. ClientInv /\ mu[c] # "free" BY <1>1, <1>2
  <2> QED BY ONLY <2>1, c \in Clients, ActiveClient
<1>4. rt[i].got \in Seq(SentBy(rt)) /\ go[c][g].hdr \in Nat
  BY <1>0, <1>1, <1>3, RuntimeFields DEF RoomTypes, ClientTypes
<1>5. n \in DOMAIN rt[i].got
  <2>1. n \in Nat /\ DOMAIN rt[i].got = 1 .. n BY <1>4
  <2>2. n > go[c][g].hdr BY <1>2
  <2> HIDE DEF n
  <2>3. n \in 1 .. n BY ONLY <1>4, <2>1, <2>2, SMT
  <2> QED BY <2>1, <2>3
<1>6. pkt \in SentBy(rt) BY <1>4, <1>5
<1> HIDE DEF server, d0
<1>7. /\ DOMAIN rt' = DOMAIN rt
      /\ \A j \in DOMAIN rt : j # d0 => rt'[j] = rt[j]
      /\ rt'[d0] = [rt[d0] EXCEPT !.src = epoch[c], !.dst = server]
  BY <1>1, <1>2, <1>3 DEF RoomTypes, RuntimesOK
<1>8. rt[d0] \in RuntimeType(E0, SentBy(rt)) BY <1>1, <1>3, RuntimeFields DEF RoomTypes
<1>9. Binds(d0, epoch[c], server) BY <1>3, <1>7, <1>8 DEF RuntimeType, Binds, SameTraffic
<1> HIDE DEF i, n
<1> QED BY <1>0, <1>2, <1>3, <1>5, <1>6, <1>9 DEF At, d0, server, i

------------------------------------------------------------------------------
(* Whose epoch is whose.                                                    *)

LEMMA LearnNothing ==
  ASSUME UNCHANGED <<epoch, drawn>>, RuntimesLearn, ClientsLearn PROVE NoNews
<1>0. Server \notin Clients BY ServerIsNoClient
<1>1. ASSUME NEW e, ServerKnows(e)' PROVE ServerKnows(e)
  <2>1. CASE epoch'[Server] = e BY <2>1 DEF ServerKnows
  <2>2. ASSUME NEW i \in DOMAIN rt', i[1] = Server, rt'[i].src = e PROVE ServerKnows(e)
    BY <2>2 DEF ServerKnows, RuntimesLearn
  <2>3. ASSUME NEW i \in DOMAIN rt', i[1] = Server, rt'[i].plane = "control",
               NEW n \in DOMAIN rt'[i].msgs, rt'[i].msgs[n] = e
        PROVE  ServerKnows(e)
    BY <2>3 DEF ServerKnows, RuntimesLearn
  <2>4. ASSUME NEW c \in Clients, confirmed'[c], peerEpoch'[c] = e PROVE ServerKnows(e)
    BY <2>4 DEF ClientsLearn, ServerKnows
  <2> QED BY <1>1, <2>1, <2>2, <2>3, <2>4 DEF ServerKnows
<1>2. ASSUME NEW c \in Clients, NEW e, ClientKnows(c, e)' PROVE ClientKnows(c, e)
  <2>1. CASE epoch'[c] = e BY <2>1 DEF ClientKnows
  <2>2. ASSUME NEW g \in Goroutines, go'[c][g].pc \in {"rotated", "header"}, go'[c][g].hdr = e
        PROVE  ClientKnows(c, e)
    BY <2>2 DEF ClientsLearn
  <2>3. ASSUME NEW i \in DOMAIN rt', i[1] = c, rt'[i].src = e PROVE ClientKnows(c, e)
    BY <1>0, <2>3 DEF RuntimesLearn, ClientKnows
  <2>4. ASSUME NEW k \in DOMAIN out'[c], out'[c][k].src = e PROVE ClientKnows(c, e) BY <2>4 DEF ClientsLearn
  <2> QED BY <1>2, <2>1, <2>2, <2>3, <2>4 DEF ClientKnows
<1> QED BY <1>1, <1>2 DEF NoNews

LEMMA KnownStays ==
  ASSUME Inv, KnownInv, NoNews, drawn' = drawn, scene' = scene PROVE KnownInv'
<1>1. scene.clients \subseteq Clients BY SceneFacts DEF Inv, RoomTypes
<1> QED BY <1>1 DEF KnownInv, NoNews

\* What each kind of traffic adds to the knowledge of the nodes.
LEMMA SameLearns ==
  ASSUME NoTraffic PROVE RuntimesLearn
BY DEF NoTraffic, SameTraffic, RuntimesLearn

LEMMA BeginLearns ==
  ASSUME NEW d, NEW p, NEW src, NEW dst, Begins(d, p, src, dst),
         IF d[1] = Server THEN src = epoch[Server] ELSE ClientKnows(d[1], src)
  PROVE  RuntimesLearn
<1>1. \A i \in DOMAIN rt' : i \in DOMAIN rt \/ i = d BY DEF Begins
<1>2. DOMAIN rt'[d].msgs = {} BY DEF Begins
<1> QED BY <1>1, <1>2 DEF Begins, SameTraffic, RuntimesLearn

LEMMA SendLearns ==
  ASSUME Inv, NEW d, NEW x, Sends(d, x), d[1] = Server /\ rt[d].plane = "control" => x = epoch[Server]
  PROVE  RuntimesLearn
<1>1. rt[d].msgs \in Seq(E0) BY RuntimeFields DEF Sends, Inv, RoomTypes
<1>2. ASSUME NEW n \in DOMAIN rt'[d].msgs
      PROVE  (n \in DOMAIN rt[d].msgs /\ rt'[d].msgs[n] = rt[d].msgs[n]) \/ rt'[d].msgs[n] = x
  <2>1. rt'[d].msgs = Append(rt[d].msgs, x) BY DEF Sends
  <2> DEFINE q == rt[d].msgs
  <2>2. q \in Seq(E0) /\ n \in DOMAIN Append(q, x) BY <1>1, <1>2, <2>1
  <2> HIDE DEF q
  <2>3. (n \in DOMAIN q /\ Append(q, x)[n] = q[n]) \/ Append(q, x)[n] = x BY <2>2
  <2> QED BY <2>1, <2>3 DEF q
<1> QED BY <1>2 DEF Sends, SameTraffic, RuntimesLearn

LEMMA TakeLearns ==
  ASSUME NEW d, NEW pkts, Takes(d, pkts) PROVE RuntimesLearn
BY DEF Takes, SameTraffic, RuntimesLearn

LEMMA BindLearns ==
  ASSUME NEW d, NEW src, NEW dst, Binds(d, src, dst), d[1] # Server, ClientKnows(d[1], src) PROVE RuntimesLearn
BY DEF Binds, SameTraffic, RuntimesLearn

------------------------------------------------------------------------------
(* Whose packets are where.                                                 *)

LEMMA SentBySomeone ==
  ASSUME NEW pkts \in Seq(SentBy(rt)), NEW k \in DOMAIN pkts
  PROVE  /\ pkts[k] \in SentBy(rt) /\ pkts[k][1] \in DOMAIN rt
         /\ pkts[k][2] \in 1 .. Len(rt[pkts[k][1]].msgs)
<1>1. pkts[k] \in SentBy(rt) OBVIOUS
<1> QED BY <1>1 DEF SentBy

LEMMA FramesStay ==
  ASSUME Inv, FrameInv, Steady, NoNews,
         \A f \in room' : FrameStep(f)
  PROVE  FrameInv'
<1> SUFFICES ASSUME NEW f \in room' PROVE FrameOK(f)' BY DEF FrameInv
<1>1. FrameOK(f) /\ \A k \in DOMAIN f.pkts : f.pkts[k][1] \in DOMAIN rt
  <2>1. CASE f \in room BY <2>1, SentBySomeone DEF Inv, RoomTypes, FrameType, FrameInv
  <2> QED BY <2>1 DEF FrameStep
<1>2. drawn \in Nat /\ drawn' \in Nat /\ drawn <= drawn' /\ f.src \in 1 .. drawn BY <1>1 DEF Steady, FrameOK
<1>3. f.src \in 1 .. drawn' /\ f.src # drawn + 1 BY ONLY <1>2, SMT
<1>4. ServerKnows(f.src)' => ServerKnows(f.src) BY <1>3 DEF NoNews
<1>5. ASSUME NEW k \in DOMAIN f.pkts PROVE PacketOK(f, f.pkts[k][1])'
  <2> DEFINE i == f.pkts[k][1]
  <2>1. i \in DOMAIN rt /\ PacketOK(f, i) BY <1>1 DEF FrameOK
  <2> HIDE DEF i
  <2>2. PacketOK(f, i)' BY <1>4, <2>1 DEF PacketOK, Steady, SteadyRuntime
  <2> QED BY <2>2 DEF i
<1> QED BY <1>3, <1>5 DEF FrameOK

LEMMA OutStays ==
  ASSUME Inv, OutInv, Steady,
         \A c \in Clients : \A k \in DOMAIN out'[c] : OutStep(c, k)
  PROVE  OutInv'
<1> SUFFICES ASSUME NEW c \in Clients, NEW k \in DOMAIN out'[c]
             PROVE  out'[c][k].pkt[1][1] = c /\ rt'[out'[c][k].pkt[1]].plane = "data"
  BY DEF OutInv
<1> DEFINE i == out'[c][k].pkt[1]
<1>1. i \in DOMAIN rt /\ i[1] = c /\ rt[i].plane = "data"
  <2>1. ASSUME NEW j \in DOMAIN out[c], out'[c][k] = out[c][j]
        PROVE  i \in DOMAIN rt /\ i[1] = c /\ rt[i].plane = "data"
    <3>1. out[c] \in Seq(Stamped(E0, SentBy(rt))) BY DEF Inv, ClientTypes
    <3>2. out[c][j] \in Stamped(E0, SentBy(rt)) BY <3>1
    <3>3. out[c][j].pkt[1] \in DOMAIN rt BY <3>2 DEF Stamped, SentBy
    <3> QED BY <2>1, <3>3 DEF OutInv
  <2> QED BY <2>1 DEF OutStep
<1> QED BY <1>1 DEF Steady, SteadyRuntime

LEMMA HoldsStay ==
  ASSUME Inv, HoldInv, Steady,
         \A w \in Readers : HoldStep(w) /\ HeldFor(reader[w])'
  PROVE  HoldInv'
<1> SUFFICES ASSUME NEW w \in Readers PROVE HoldsOK(reader[w])' BY DEF HoldInv
<1> DEFINE r == reader'[w]
<1>1. HoldsOK(r) /\ \A k \in DOMAIN r.pkts : r.pkts[k][1] \in DOMAIN rt
  <2>1. CASE r = reader[w] BY <2>1, SentBySomeone DEF Inv, ServerTypes, ReaderType, HoldInv
  <2> QED BY <2>1 DEF HoldStep
<1> HIDE DEF r
<1>2. drawn \in Nat /\ drawn' \in Nat /\ drawn <= drawn' /\ r.src \in 0 .. drawn BY <1>1 DEF Steady, HoldsOK
<1>3. r.src \in 0 .. drawn' /\ r.src # drawn + 1 BY ONLY <1>2, SMT
<1>4. r.src # epoch'[Server] BY <1>1, <1>3 DEF Steady, HoldsOK
<1>5. \A k \in DOMAIN r.pkts :
        /\ r.pkts[k][1][1] # Server
        /\ rt'[r.pkts[k][1]].plane = r.plane /\ (r.plane = "control" => rt'[r.pkts[k][1]].src = r.src)
  BY <1>1 DEF HoldsOK, FromClient, Steady, SteadyRuntime
<1>6. \A k \in DOMAIN r.pkts : FromClient(reader[w].pkts[k], reader[w].plane, reader[w].src)'
  BY <1>5 DEF FromClient, r
<1> QED BY <1>1, <1>3, <1>4, <1>6 DEF HoldsOK, r

\* The runtimes keep what they have, or get packets of the other side.
LEMMA OriginsStay ==
  ASSUME Inv, OriginInv, Steady,
         \A i \in DOMAIN rt' : OriginStep(i)
  PROVE  OriginInv'
<1> SUFFICES ASSUME NEW i \in DOMAIN rt'
             PROVE  Numbered(i)' /\ IF i[1] = Server THEN ServerRtOK(i)' ELSE ClientRtOK(i)'
  BY DEF OriginInv
<1>1. ASSUME NEW n \in DOMAIN rt'[i].got
      PROVE  /\ rt'[i].got[n][2] = n /\ rt'[i].got[n][1] \in DOMAIN rt
             /\ IF i[1] = Server THEN FromClient(rt'[i].got[n], rt'[i].plane, rt'[i].dst)
                ELSE rt'[i].got[n][1][1] = Server /\ rt[rt'[i].got[n][1]].plane = rt'[i].plane
  <2>1. CASE i \in DOMAIN rt /\ n \in DOMAIN rt[i].got /\ rt'[i].got[n] = rt[i].got[n]
    <3>1. rt[i].got \in Seq(SentBy(rt)) BY <2>1, RuntimeFields DEF Inv, RoomTypes
    <3>2. rt[i].got[n][1] \in DOMAIN rt BY <2>1, <3>1, SentBySomeone
    <3>3. /\ rt'[i].plane = rt[i].plane
          /\ i[1] = Server => rt'[i].dst = rt[i].dst
      BY <2>1 DEF Steady, SteadyRuntime
    <3>4. Numbered(i) /\ IF i[1] = Server THEN ServerRtOK(i) ELSE ClientRtOK(i) BY <2>1 DEF OriginInv
    <3> QED BY <2>1, <3>2, <3>3, <3>4 DEF Numbered, ServerRtOK, ClientRtOK
  <2> QED BY <1>1, <2>1 DEF OriginStep
<1>2. Numbered(i)' BY <1>1 DEF Numbered
<1>3. CASE i[1] = Server
  <2>1. rt'[i].dst \in 1 .. drawn /\ rt'[i].dst # epoch[Server]
    <3>1. CASE i \in DOMAIN rt BY <1>3, <3>1 DEF Steady, SteadyRuntime, OriginInv, ServerRtOK
    <3> QED BY <1>3, <3>1 DEF OriginStep
  <2>2. drawn \in Nat /\ drawn' \in Nat /\ drawn <= drawn' BY DEF Steady
  <2>3. rt'[i].dst \in 1 .. drawn' /\ rt'[i].dst # drawn + 1 BY ONLY <2>1, <2>2, SMT
  <2>4. rt'[i].dst # epoch'[Server] BY <2>1, <2>3 DEF Steady
  <2>5. \A n \in DOMAIN rt'[i].got : FromClient(rt[i].got[n], rt[i].plane, rt[i].dst)'
    <3> SUFFICES ASSUME NEW n \in DOMAIN rt'[i].got PROVE FromClient(rt[i].got[n], rt[i].plane, rt[i].dst)'
      OBVIOUS
    <3> DEFINE pkt == rt'[i].got[n]
               p == rt'[i].plane
               e == rt'[i].dst
    <3>1. pkt[1] \in DOMAIN rt /\ FromClient(pkt, p, e) BY <1>1, <1>3
    <3> HIDE DEF pkt, p, e
    <3>2. /\ pkt[1][1] # Server
          /\ rt'[pkt[1]].plane = p /\ (p = "control" => rt'[pkt[1]].src = e)
      BY <3>1 DEF FromClient, Steady, SteadyRuntime
    <3> QED BY <3>2 DEF FromClient, pkt, p, e
  <2> QED BY <1>2, <1>3, <2>3, <2>4, <2>5 DEF ServerRtOK
<1>4. CASE i[1] # Server
  <2>1. rt'[i].plane = "control" => rt'[i].dst = 0
    <3>1. CASE i \in DOMAIN rt BY <1>4, <3>1 DEF Steady, SteadyRuntime, OriginInv, ClientRtOK
    <3> QED BY <1>4, <3>1 DEF OriginStep
  <2>2. \A n \in DOMAIN rt'[i].got : rt'[i].got[n][1][1] = Server /\ rt'[rt'[i].got[n][1]].plane = rt'[i].plane
    BY <1>1, <1>4 DEF Steady, SteadyRuntime
  <2> QED BY <1>2, <1>4, <2>1, <2>2 DEF ClientRtOK
<1> QED BY <1>3, <1>4

\* Sessions keep their runtimes, or get one that is addressed to their epoch.
LEMMA AddressesStay ==
  ASSUME Inv, AddressInv, Steady,
         \A s \in DOMAIN sess' : AddressStep(s)
  PROVE  AddressInv'
<1> SUFFICES ASSUME NEW s \in DOMAIN sess' PROVE SessOK(s)' BY DEF AddressInv
<1>1. \A t \in DOMAIN sess : /\ sess[t].data \in DOMAIN rt /\ sess[t].data[1] = Server
                             /\ sess[t].control # None => sess[t].control \in DOMAIN rt /\ sess[t].control[1] = Server
  BY DEF Inv, SessionInv
<1>2. /\ rt'[sess'[s].data].plane = "data" /\ rt'[sess'[s].data].dst = sess'[s].epoch
      /\ sess'[s].epoch \in 1 .. drawn /\ sess'[s].epoch # epoch[Server]
  <2>1. CASE s \in DOMAIN sess /\ sess'[s].data = sess[s].data /\ sess'[s].epoch = sess[s].epoch
    BY <1>1, <2>1 DEF AddressInv, SessOK, Steady, SteadyRuntime
  <2> QED BY <2>1 DEF AddressStep
<1>3. sess'[s].control # None =>
        rt'[sess'[s].control].plane = "control" /\ rt'[sess'[s].control].dst = sess'[s].epoch
  <2>1. CASE s \in DOMAIN sess /\ sess'[s].control = sess[s].control /\ sess'[s].epoch = sess[s].epoch
    BY <1>1, <2>1 DEF AddressInv, SessOK, Steady, SteadyRuntime
  <2> QED BY <2>1 DEF AddressStep
<1>4. drawn \in Nat /\ drawn' \in Nat /\ drawn <= drawn' BY DEF Steady
<1>5. sess'[s].epoch \in 1 .. drawn' /\ sess'[s].epoch # drawn + 1 BY ONLY <1>2, <1>4, SMT
<1>6. sess'[s].epoch # epoch'[Server] BY <1>2, <1>5 DEF Steady
<1> QED BY <1>2, <1>3, <1>5, <1>6 DEF SessOK

LEMMA SameIsRegular ==
  ASSUME NoTraffic PROVE Regular
<1>1. \A i \in DOMAIN rt : SteadyRuntime(i) BY DEF NoTraffic, SameTraffic, SteadyRuntime
<1>2. \A i \in DOMAIN rt' : OriginStep(i) BY DEF NoTraffic, SameTraffic, OriginStep
<1> QED BY <1>1, <1>2, SameLearns DEF Regular

LEMMA BeginIsRegular ==
  ASSUME NEW d, NEW p, NEW src, NEW dst, Begins(d, p, src, dst),
         IF d[1] = Server THEN src = epoch[Server] /\ dst \in 1 .. drawn /\ dst # epoch[Server]
         ELSE dst = 0 /\ ClientKnows(d[1], src)
  PROVE  Regular
<1>1. \A i \in DOMAIN rt : SteadyRuntime(i) BY DEF Begins, SameTraffic, SteadyRuntime
<1>2. ASSUME NEW i \in DOMAIN rt' PROVE OriginStep(i)
  <2>1. CASE i \in DOMAIN rt BY <2>1 DEF Begins, SameTraffic, OriginStep
  <2>2. CASE i = d BY <2>2 DEF Begins, OriginStep
  <2> QED BY <2>1, <2>2 DEF Begins
<1> QED BY <1>1, <1>2, BeginLearns DEF Regular

LEMMA SendIsRegular ==
  ASSUME Inv, NEW d, NEW x, Sends(d, x), d[1] = Server /\ rt[d].plane = "control" => x = epoch[Server]
  PROVE  Regular
<1>1. rt'[d].msgs # <<>>
  <2>1. rt[d].msgs \in Seq(E0) BY RuntimeFields DEF Sends, Inv, RoomTypes
  <2> DEFINE q == rt[d].msgs
  <2>2. q \in Seq(E0) /\ rt'[d].msgs = Append(q, x) BY <2>1 DEF Sends
  <2> HIDE DEF q
  <2> QED BY <2>2
<1>2. \A i \in DOMAIN rt : SteadyRuntime(i) BY <1>1 DEF Sends, SameTraffic, SteadyRuntime
<1>3. \A i \in DOMAIN rt' : OriginStep(i) BY DEF Sends, SameTraffic, OriginStep
<1> QED BY <1>2, <1>3, SendLearns DEF Regular

LEMMA TakeIsRegular ==
  ASSUME Inv, NEW d, NEW pkts \in Seq(SentBy(rt)), Takes(d, pkts),
         \A k \in DOMAIN pkts :
            IF d[1] = Server THEN FromClient(pkts[k], rt[d].plane, rt[d].dst)
            ELSE pkts[k][1][1] = Server /\ rt[pkts[k][1]].plane = rt[d].plane
  PROVE  Regular
<1>1. \A i \in DOMAIN rt : SteadyRuntime(i) BY DEF Takes, SameTraffic, SteadyRuntime
<1>2. \A k \in DOMAIN pkts : pkts[k][1] \in DOMAIN rt BY SentBySomeone
<1>3. ASSUME NEW i \in DOMAIN rt' PROVE OriginStep(i)
  <2>1. CASE i # d BY <2>1 DEF Takes, SameTraffic, OriginStep
  <2>2. CASE i = d BY <1>2, <2>2 DEF Takes, OriginStep
  <2> QED BY <2>1, <2>2
<1> QED BY <1>1, <1>3, TakeLearns DEF Regular

LEMMA BindIsRegular ==
  ASSUME NEW d, NEW src, NEW dst, Binds(d, src, dst), d[1] # Server, rt[d].plane = "data", ClientKnows(d[1], src)
  PROVE  Regular
<1>1. \A i \in DOMAIN rt : SteadyRuntime(i) BY DEF Binds, SameTraffic, SteadyRuntime
<1>2. \A i \in DOMAIN rt' : OriginStep(i) BY DEF Binds, SameTraffic, OriginStep
<1> QED BY <1>1, <1>2, BindLearns DEF Regular

LEMMA DrawnFacts ==
  ASSUME Inv PROVE drawn \in Nat /\ drawn \in 1 .. scene.epochs /\ scene.epochs \in Nat
BY SceneFacts DEF Inv, RoomTypes, Epochs

\* A step that draws no epoch.
LEMMA GroundStep ==
  ASSUME Inv, Ground, scene' = scene, UNCHANGED <<epoch, drawn>>, Regular, ClientsLearn,
         \A f \in room' : FrameStep(f),
         \A c \in Clients : \A k \in DOMAIN out'[c] : OutStep(c, k),
         \A w \in Readers : HoldStep(w) /\ HeldFor(reader[w])',
         \A s \in DOMAIN sess' : AddressStep(s)
  PROVE  Ground' /\ Steady /\ NoNews
<1>1. NoNews BY LearnNothing DEF Regular
<1>2. Steady BY DrawnFacts DEF Steady, Regular
<1>3. KnownInv' BY <1>1, KnownStays DEF Ground
<1>4. FrameInv' BY <1>1, <1>2, FramesStay DEF Ground
<1>5. OutInv' BY <1>2, OutStays DEF Ground
<1>6. HoldInv' BY <1>2, HoldsStay DEF Ground
<1>7. AddressInv' BY <1>2, AddressesStay DEF Ground
<1>8. OriginInv' BY <1>2, OriginsStay DEF Ground, Regular
<1> QED BY <1>1, <1>2, <1>3, <1>4, <1>5, <1>6, <1>7, <1>8 DEF Ground

LEMMA ClientGround ==
  ASSUME Inv, Ground, UNCHANGED serverVars, UNCHANGED <<epoch, drawn>>, Regular,
         \A c \in Clients : GoStep(c),
         \A c \in Clients : confirmed'[c] =>
            (confirmed[c] /\ peerEpoch'[c] = peerEpoch[c]) \/ ServerKnows(peerEpoch'[c]),
         \A f \in room' : FrameStep(f),
         \A c \in Clients : \A k \in DOMAIN out'[c] : OutStep(c, k)
  PROVE  Ground' /\ Steady /\ NoNews
<1>1. scene' = scene /\ UNCHANGED <<sess, reader>> BY DEF serverVars
<1>2. ClientsLearn
  <2>1. ASSUME NEW c \in Clients, NEW g \in Goroutines, go'[c][g].pc \in {"rotated", "header"}
        PROVE  ClientKnows(c, go'[c][g].hdr)
    BY <2>1 DEF GoStep, ClientKnows
  <2>2. ASSUME NEW c \in Clients, NEW k \in DOMAIN out'[c] PROVE ClientKnows(c, out'[c][k].src)
    BY <2>2 DEF OutStep, ClientKnows
  <2> QED BY <2>1, <2>2 DEF ClientsLearn
<1>3. \A w \in Readers : HoldStep(w) /\ HeldFor(reader[w])' BY <1>1 DEF Ground, HoldInv, HeldFor, HoldStep
<1>4. \A s \in DOMAIN sess' : AddressStep(s) BY <1>1 DEF AddressStep
<1> QED BY <1>1, <1>2, <1>3, <1>4, GroundStep

LEMMA ServerGround ==
  ASSUME Inv, Ground, UNCHANGED clientVars, UNCHANGED <<epoch, drawn>>, Regular,
         \A f \in room' : FrameStep(f),
         \A w \in Readers : HoldStep(w) /\ HeldFor(reader[w])',
         \A s \in DOMAIN sess' : AddressStep(s)
  PROVE  Ground' /\ Steady /\ NoNews
<1>1. scene' = scene /\ UNCHANGED <<confirmed, peerEpoch, go, out>> BY DEF clientVars
<1>2. ClientsLearn BY <1>1 DEF ClientsLearn, ClientKnows
<1>3. \A c \in Clients : \A k \in DOMAIN out'[c] : OutStep(c, k) BY <1>1 DEF OutStep
<1> QED BY <1>1, <1>2, <1>3, GroundStep

LEMMA ToMoves ==
  ASSUME Inv, NEW c \in Clients, NEW g \in Goroutines, NEW pc \in PCs, To(c, g, pc)
  PROVE  go'[c][g].pc = pc /\ go'[c][g].hdr = go[c][g].hdr /\ Moved(c, g)
<1>1. ClientTypes BY DEF Inv
<1> QED BY <1>1, GoesTo DEF Moved

LEMMA MovedSteps ==
  ASSUME NEW c \in Clients, NEW g \in Goroutines, Moved(c, g),
         go'[c][g].pc \notin {"rotated", "header"} \/ go'[c][g].hdr = epoch[c]
  PROVE  \A d \in Clients : GoStep(d)
<1>1. GoStep(c) BY DEF GoStep, Moved
<1>2. \A d \in Clients : d # c => GoStep(d) BY DEF GoStep, Moved
<1> QED BY <1>1, <1>2

LEMMA RestartFacts ==
  ASSUME Inv, NEW c \in Clients, NEW g \in Goroutines, NEW p \in Planes, go[c][g].pc \in {"rotated", "header"},
         RestartPlane(c, p, go[c][g].hdr)
  PROVE  /\ c \in scene.clients
         /\ \/ closed[c] /\ UNCHANGED <<rt, plane>>
            \/ ~closed[c] /\ Replaced(c, p, go[c][g].hdr) /\ Begins(plane'[c][p], p, go[c][g].hdr, 0)
<1>1. ClientInv /\ MuInv(c) BY DEF Inv, ClientInv
<1>2. c \in scene.clients /\ go[c][g].hdr \in E0 \ {0} BY <1>1, ActiveClient DEF MuInv
<1>3. CASE closed[c] BY <1>2, <1>3 DEF RestartPlane
<1>4. CASE ~closed[c] BY <1>2, <1>4, RestartPlaneFacts, PlaneTraffic
<1> QED BY <1>3, <1>4

LEMMA RestartIsRegular ==
  ASSUME Inv, NEW c \in Clients, NEW g \in Goroutines, NEW p \in Planes, go[c][g].pc \in {"rotated", "header"},
         RestartPlane(c, p, go[c][g].hdr)
  PROVE  Regular
<1>1. CASE closed[c] BY <1>1, SameIsRegular DEF RestartPlane, NoTraffic, SameTraffic
<1>2. CASE ~closed[c]
  <2> DEFINE d == plane'[c][p]
             e == go[c][g].hdr
  <2>1. Replaced(c, p, e) /\ Begins(d, p, e, 0) BY <1>2, RestartFacts
  <2>2. d[1] = c /\ c # Server BY <2>1, ServerIsNoClient DEF Replaced
  <2>3. ClientKnows(c, e) BY DEF ClientKnows
  <2> HIDE DEF d, e
  <2> QED BY <2>1, <2>2, <2>3, BeginIsRegular
<1> QED BY <1>1, <1>2

LEMMA RestartDataGround ==
  ASSUME Inv, Ground, NEW c \in Clients, NEW g \in Goroutines, RestartData(c, g) PROVE GroundKept
<1>1. /\ go[c][g].pc = "rotated" /\ RestartPlane(c, "data", go[c][g].hdr) /\ To(c, g, "data")
      /\ out' = (IF closed[c] THEN out ELSE [out EXCEPT ![c] = <<>>])
      /\ UNCHANGED <<epoch, drawn, confirmed, peerEpoch, room>> /\ UNCHANGED serverVars
  BY DEF RestartData, At
<1>2. Regular BY <1>1, RestartIsRegular DEF Planes
<1>3. \A d \in Clients : GoStep(d) BY <1>1, ToMoves, MovedSteps DEF PCs
<1>4. ASSUME NEW d \in Clients, NEW k \in DOMAIN out'[d] PROVE OutStep(d, k)
  BY <1>1, <1>4 DEF Inv, ClientTypes, OutStep
<1>5. \A f \in room' : FrameStep(f) BY <1>1 DEF FrameStep
<1> QED BY <1>1, <1>2, <1>3, <1>4, <1>5, ClientGround DEF GroundKept

LEMMA RestartControlGround ==
  ASSUME Inv, Ground, NEW c \in Clients, NEW g \in Goroutines, RestartControl(c, g) PROVE GroundKept
<1>1. /\ go[c][g].pc = "header" /\ RestartPlane(c, "control", go[c][g].hdr) /\ To(c, g, "restarted")
      /\ UNCHANGED <<epoch, drawn, confirmed, peerEpoch, room, out>> /\ UNCHANGED serverVars
  BY DEF RestartControl, At
<1>2. Regular BY <1>1, RestartIsRegular DEF Planes
<1>3. \A d \in Clients : GoStep(d) BY <1>1, ToMoves, MovedSteps DEF PCs
<1>4. \A d \in Clients : \A k \in DOMAIN out'[d] : OutStep(d, k) BY <1>1 DEF OutStep
<1>5. \A f \in room' : FrameStep(f) BY <1>1 DEF FrameStep
<1> QED BY <1>1, <1>2, <1>3, <1>4, <1>5, ClientGround DEF GroundKept

\* Steps of a client's goroutines that touch no runtime, queue or frame.
LEMMA QuietGround ==
  ASSUME Inv, Ground, UNCHANGED serverVars, UNCHANGED <<epoch, drawn, confirmed, peerEpoch, room, out, rt>>,
         \A c \in Clients : GoStep(c)
  PROVE  GroundKept
<1>1. Regular BY SameIsRegular DEF NoTraffic, SameTraffic
<1>2. /\ \A d \in Clients : \A k \in DOMAIN out'[d] : OutStep(d, k)
      /\ \A f \in room' : FrameStep(f)
  BY DEF OutStep, FrameStep
<1> QED BY <1>1, <1>2, ClientGround DEF GroundKept

LEMMA HeaderMoves ==
  ASSUME Inv, NEW c \in Clients, NEW g \in Goroutines, ControlEpochHeader(c, g)
  PROVE  /\ c \in scene.clients /\ go[c][g].pc = "data"
         /\ go'[c][g].pc = "header" /\ go'[c][g].hdr = epoch[c] /\ Moved(c, g)
<1>1. /\ go[c][g].pc = "data" /\ go' = [go EXCEPT ![c][g] = [pc |-> "header", hdr |-> epoch[c]]]
  BY DEF ControlEpochHeader, At
<1>2. c \in scene.clients BY <1>1, ActiveClient DEF Inv
<1>3. go \in [Clients -> [Goroutines -> [pc : PCs, hdr : Nat]]] BY DEF Inv, ClientTypes
<1> QED BY <1>1, <1>2, <1>3 DEF Moved

LEMMA HelloMoves ==
  ASSUME Inv, NEW c \in Clients, SendHello(c)
  PROVE  /\ c \in scene.clients /\ mu[c] \in Goroutines /\ go[c][mu[c]].pc = "hello" /\ plane[c]["control"] \in DOMAIN rt
         /\ rt[plane[c]["control"]].open /\ Sends(plane[c]["control"], 0)
         /\ go'[c][mu[c]].pc = "welcome" /\ Moved(c, mu[c])
<1> DEFINE g == mu[c]
           i == plane[c]["control"]
<1>1. /\ g # "free" /\ go[c][g].pc = "hello" /\ rt[i].open /\ rt' = SendVia(rt, i, 0)
      /\ go' = [go EXCEPT ![c][g] = [pc |-> "welcome", hdr |-> Len(rt[i].got)]]
  BY DEF SendHello, At
<1>2. g \in Goroutines /\ ClientInv BY <1>1 DEF Inv, ClientTypes
<1>3. c \in scene.clients /\ i \in DOMAIN rt BY <1>1, <1>2, ActiveClient
<1>4. 0 \in E0 BY SceneFacts DEF Inv, RoomTypes, E0
<1>5. Sends(i, 0) BY <1>1, <1>3, <1>4, SendTraffic
<1>6. go \in [Clients -> [Goroutines -> [pc : PCs, hdr : Nat]]] BY DEF Inv, ClientTypes
<1> HIDE DEF i, g
<1>7. go'[c][g].pc = "welcome" /\ Moved(c, g) BY <1>1, <1>2, <1>6 DEF Moved
<1> QED BY <1>1, <1>2, <1>3, <1>5, <1>7 DEF i, g

LEMMA SendHelloGround ==
  ASSUME Inv, Ground, NEW c \in Clients, SendHello(c) PROVE GroundKept
<1>1. UNCHANGED <<epoch, drawn, confirmed, peerEpoch, room, out>> /\ UNCHANGED serverVars BY DEF SendHello
<1>2. Sends(plane[c]["control"], 0) /\ \A d \in Clients : GoStep(d) BY HelloMoves, MovedSteps
<1>3. plane[c]["control"][1] # Server BY ActiveClient DEF SendHello, Inv, Planes
<1>4. Regular BY <1>2, <1>3, SendIsRegular
<1>5. /\ \A d \in Clients : \A k \in DOMAIN out'[d] : OutStep(d, k)
      /\ \A f \in room' : FrameStep(f)
  BY <1>1 DEF OutStep, FrameStep
<1> QED BY <1>1, <1>2, <1>4, <1>5, ClientGround DEF GroundKept

LEMMA HeaderGround ==
  ASSUME Inv, Ground, NEW c \in Clients, NEW g \in Goroutines, ControlEpochHeader(c, g) PROVE GroundKept
<1>1. \A d \in Clients : GoStep(d) BY HeaderMoves, MovedSteps
<1> QED BY <1>1, QuietGround DEF ControlEpochHeader

\* A step of goroutine g that only moves it to pc.
LEMMA MoveGround ==
  ASSUME Inv, Ground, NEW c \in Clients, NEW g \in Goroutines, NEW pc \in PCs \ {"rotated", "header"}, To(c, g, pc),
         UNCHANGED serverVars, UNCHANGED <<epoch, drawn, confirmed, peerEpoch, room, out, rt>>
  PROVE  GroundKept
<1>1. \A d \in Clients : GoStep(d) BY ToMoves, MovedSteps
<1> QED BY <1>1, QuietGround

LEMMA ReconnectGround ==
  ASSUME Inv, Ground, NEW c \in Clients,
         ProviderReconnected(c) \/ ProviderLocks(c) \/ LinkDies(c) \/ ContinueReconnect(c) \/ HandshakeFails(c)
  PROVE  GroundKept
<1>0. /\ "restart" \in PCs \ {"rotated", "header"} /\ "hello" \in PCs \ {"rotated", "header"}
      /\ "idle" \in PCs \ {"rotated", "header"} /\ "provider" \in Goroutines /\ "session" \in Goroutines
  BY DEF PCs, Goroutines
<1>1. CASE ProviderReconnected(c) BY <1>0, <1>1, MoveGround DEF ProviderReconnected
<1>2. CASE ProviderLocks(c) BY <1>0, <1>2, MoveGround DEF ProviderLocks, LockReconnect
<1>3. CASE LinkDies(c) BY <1>0, <1>3, MoveGround DEF LinkDies, LockReconnect
<1>4. CASE ContinueReconnect(c) BY <1>0, <1>4, MoveGround DEF ContinueReconnect, AfterReset
<1>5. CASE HandshakeFails(c) BY <1>0, <1>5, MoveGround DEF HandshakeFails, Inv, ClientTypes
<1> QED BY <1>1, <1>2, <1>3, <1>4, <1>5

LEMMA ConfirmGround ==
  ASSUME Inv, Ground, NEW c \in Clients, ConfirmPeer(c) PROVE GroundKept
<1> DEFINE d0 == plane[c]["data"]
           i == plane[c]["control"]
<1>1. /\ c \in scene.clients /\ d0 \in DOMAIN rt /\ i \in DOMAIN rt /\ mu[c] \in Goroutines
      /\ \E n \in DOMAIN rt[i].got :
           LET pkt == rt[i].got[n]
               server == rt[pkt[1]].msgs[pkt[2]]
           IN  /\ pkt \in SentBy(rt) /\ Binds(d0, epoch[c], server)
               /\ peerEpoch' = [peerEpoch EXCEPT ![c] = server]
  BY BindTraffic
<1>2. PICK n \in DOMAIN rt[i].got :
         LET pkt == rt[i].got[n]
             server == rt[pkt[1]].msgs[pkt[2]]
         IN  /\ pkt \in SentBy(rt) /\ Binds(d0, epoch[c], server)
             /\ peerEpoch' = [peerEpoch EXCEPT ![c] = server]
  BY <1>1
<1> DEFINE pkt == rt[i].got[n]
           server == rt[pkt[1]].msgs[pkt[2]]
<1>3. /\ mu[c] # "free" /\ To(c, mu[c], "idle") /\ confirmed' = [confirmed EXCEPT ![c] = TRUE]
      /\ UNCHANGED <<epoch, drawn, room, out>> /\ UNCHANGED serverVars
  BY DEF ConfirmPeer
<1>4. \A p \in Planes : plane[c][p][1] = c /\ c # Server /\ rt[plane[c][p]].plane = p
  BY <1>3, ActiveClient DEF Inv
<1>5. i[1] # Server /\ rt[i].plane = "control" /\ d0[1] = c /\ d0[1] # Server /\ rt[d0].plane = "data"
  BY <1>4 DEF Planes
<1>6. pkt[1][1] = Server /\ rt[pkt[1]].plane = "control" /\ pkt[1] \in DOMAIN rt
  BY <1>1, <1>2, <1>5 DEF Ground, OriginInv, ClientRtOK, SentBy
<1>7. pkt[2] \in DOMAIN rt[pkt[1]].msgs
  <2>1. rt[pkt[1]].msgs \in Seq(E0) BY <1>6, RuntimeFields DEF Inv, RoomTypes
  <2>2. pkt[2] \in 1 .. Len(rt[pkt[1]].msgs) BY <1>2 DEF SentBy
  <2> HIDE DEF pkt
  <2> QED BY <2>1, <2>2
<1>8. ServerKnows(server) BY <1>6, <1>7 DEF ServerKnows
<1>9. Regular BY <1>2, <1>5, BindIsRegular DEF ClientKnows
<1> HIDE DEF server, pkt, d0, i
<1>10. \A d \in Clients : confirmed'[d] =>
         (confirmed[d] /\ peerEpoch'[d] = peerEpoch[d]) \/ ServerKnows(peerEpoch'[d])
  BY <1>2, <1>3, <1>8 DEF server, pkt, i, Inv, ClientTypes
<1>11. \A d \in Clients : GoStep(d) BY <1>1, <1>3, ToMoves, MovedSteps DEF PCs
<1>12. /\ \A d \in Clients : \A k \in DOMAIN out'[d] : OutStep(d, k)
       /\ \A f \in room' : FrameStep(f)
  BY <1>3 DEF OutStep, FrameStep
<1> QED BY <1>3, <1>9, <1>10, <1>11, <1>12, ClientGround DEF GroundKept

\* Steps that leave the goroutines and the bindings of the clients alone.
LEMMA WriteGround ==
  ASSUME Inv, Ground, UNCHANGED serverVars, UNCHANGED <<epoch, drawn, confirmed, peerEpoch, go>>, Regular,
         \A f \in room' : FrameStep(f),
         \A d \in Clients : \A k \in DOMAIN out'[d] : OutStep(d, k)
  PROVE  GroundKept
<1>1. \A d \in Clients : GoStep(d) BY DEF GoStep
<1> QED BY <1>1, ClientGround DEF GroundKept

LEMMA SendGround ==
  ASSUME Inv, Ground, NEW c \in Clients, Send(c) PROVE GroundKept
<1> DEFINE i == plane[c]["data"]
<1>1. /\ ~closed[c] /\ rt' = SendVia(rt, i, 0) /\ UNCHANGED serverVars
      /\ UNCHANGED <<epoch, drawn, confirmed, peerEpoch, go, room, out>>
  BY DEF Send, clientVars
<1>2. i \in DOMAIN rt /\ i[1] = c /\ c # Server BY <1>1, ActiveClient DEF Inv, Planes
<1>3. 0 \in E0 BY SceneFacts DEF Inv, RoomTypes, E0
<1>4. Sends(i, 0) BY <1>1, <1>2, <1>3, SendTraffic
<1>5. Regular BY <1>2, <1>4, SendIsRegular
<1>6. /\ \A d \in Clients : \A k \in DOMAIN out'[d] : OutStep(d, k)
      /\ \A f \in room' : FrameStep(f)
  BY <1>1 DEF OutStep, FrameStep
<1> QED BY <1>1, <1>5, <1>6, WriteGround

LEMMA QueuesFacts ==
  ASSUME Inv, NEW c \in Clients, NEW i \in DOMAIN rt, i[1] = c, rt[i].plane = "data",
         NEW sn \in 1 .. Len(rt[i].msgs), WriteTo(c, i, sn)
  PROVE  Queues(c, i, sn)
<1> DEFINE S == Stamped(E0, SentBy(rt))
           q == out[c]
           x == Queued(c, i, sn)
<1>1. out \in [Clients -> Seq(S)] /\ out' = [out EXCEPT ![c] = Append(q, x)] BY DEF Inv, ClientTypes, WriteTo
<1>2. q \in Seq(S) BY <1>1
<1> HIDE DEF q, x, S
<1>3. \A k \in DOMAIN Append(q, x) : (k \in DOMAIN q /\ Append(q, x)[k] = q[k]) \/ Append(q, x)[k] = x BY <1>2
<1>4. out'[c] = Append(q, x) /\ \A d \in Clients : d # c => out'[d] = out[d] BY <1>1
<1> QED BY <1>3, <1>4 DEF Queues, q, x

LEMMA QueuesGround ==
  ASSUME Inv, Ground, NEW c \in Clients, NEW i, NEW sn, Queues(c, i, sn), UNCHANGED serverVars,
         UNCHANGED <<epoch, drawn, confirmed, peerEpoch, go, room, rt>>
  PROVE  GroundKept
<1>1. Regular BY SameIsRegular DEF NoTraffic, SameTraffic
<1>2. ASSUME NEW d \in Clients, NEW k \in DOMAIN out'[d] PROVE OutStep(d, k)
  <2>1. CASE d # c BY <1>2, <2>1 DEF Queues, OutStep
  <2>2. CASE d = c /\ k \in DOMAIN out[c] /\ out'[c][k] = out[c][k] BY <2>2 DEF OutStep
  <2>3. CASE d = c /\ out'[c][k] = Queued(c, i, sn) BY <2>3 DEF Queued, Queues, OutStep
  <2> QED BY <1>2, <2>1, <2>2, <2>3 DEF Queues
<1>3. \A f \in room' : FrameStep(f) BY DEF FrameStep
<1> QED BY <1>1, <1>2, <1>3, WriteGround

LEMMA FlushFacts ==
  ASSUME Inv, NEW c \in Clients, Flush(c) PROVE ~closed[c] /\ \E sn : Queues(c, plane[c]["data"], sn)
<1>1. PICK sn \in 1 .. Len(rt[plane[c]["data"]].msgs) : WriteTo(c, plane[c]["data"], sn) BY DEF Flush
<1>2. ~closed[c] BY DEF Flush
<1>3. plane[c]["data"] \in DOMAIN rt /\ plane[c]["data"][1] = c /\ rt[plane[c]["data"]].plane = "data"
  BY <1>2, ActiveClient DEF Inv, Planes
<1> QED BY <1>1, <1>2, <1>3, QueuesFacts

LEMMA LateFacts ==
  ASSUME Inv, NEW c \in Clients, LateWriteTo(c) PROVE \E i, sn : Queues(c, i, sn) /\ ~rt[i].open
<1>1. PICK i \in DOMAIN rt : /\ ~rt[i].open /\ rt[i].plane = "data" /\ i[1] = c
                             /\ \E sn \in 1 .. Len(rt[i].msgs) : WriteTo(c, i, sn)
  BY DEF LateWriteTo
<1> QED BY <1>1, QueuesFacts

LEMMA QueueGround ==
  ASSUME Inv, Ground, NEW c \in Clients, Flush(c) \/ LateWriteTo(c) PROVE GroundKept
<1>1. \E i, sn : Queues(c, i, sn) BY FlushFacts, LateFacts
<1>2. UNCHANGED serverVars /\ UNCHANGED <<epoch, drawn, confirmed, peerEpoch, go, room, rt>>
  BY DEF Flush, LateWriteTo
<1> QED BY <1>1, <1>2, QueuesGround

LEMMA DrainFacts ==
  ASSUME Inv, NEW c \in Clients, DrainData(c) PROVE ~closed[c] /\ \E f, n : Drains(c, f, n)
<1> DEFINE q == out[c]
           n == Min({Len(out[c]), batchSize})
           batch == SubSeq(out[c], 1, n)
           rest == SubSeq(out[c], n + 1, Len(out[c]))
           S == Stamped(E0, SentBy(rt))
           f == BatchSampleFrom(batch)
<1>1. /\ out \in [Clients -> Seq(S)] /\ q \in Seq(S) /\ q # <<>> /\ Len(q) \in Nat /\ Len(q) # 0
  BY DEF Inv, ClientTypes, RoomTypes, DrainData
<1>2. /\ ~closed[c] /\ room' = room \cup {f}
      /\ out' = [out EXCEPT ![c] = rest]
      /\ mixed' = IF \E k \in 1 .. n : batch[k].src # batch[1].src THEN mixed \cup {batch[1].src} ELSE mixed
  BY DEF DrainData
<1>3. n \in 1 .. Len(q) BY <1>1, BoundsAssumption DEF Min
<1> HIDE DEF n
<1>4. /\ batch \in Seq(S) /\ Len(batch) = n /\ DOMAIN batch = 1 .. n
      /\ \A k \in 1 .. n : k \in DOMAIN q /\ batch[k] = q[k] /\ batch[k] \in S
  BY <1>1, <1>3
<1>5. \A k \in DOMAIN rest : \E j \in DOMAIN q : rest[k] = q[j]
  <2>1. n \in Nat /\ n <= Len(q) BY <1>1, <1>3
  <2> SUFFICES ASSUME NEW k \in DOMAIN rest PROVE \E j \in DOMAIN q : rest[k] = q[j] OBVIOUS
  <2>2. k + n \in DOMAIN q /\ rest[k] = q[k + n] BY <1>1, <2>1
  <2> QED BY <2>2
<1>6. 1 \in 1 .. n /\ n \in Nat BY <1>1, <1>3
<1> HIDE DEF batch, rest
<1>7. out'[c] = rest /\ \A d \in Clients : d # c => out'[d] = out[d] BY <1>1, <1>2
<1>8. /\ f.plane = "data" /\ f.src = batch[1].src /\ f.dst = batch[1].dst /\ f.pkts = [k \in 1 .. n |-> batch[k].pkt]
  BY <1>4 DEF BatchSampleFrom
<1> HIDE DEF f
<1>9. \A k \in 1 .. n : batch[k].pkt \in SentBy(rt) BY <1>4 DEF Stamped, S
<1>10. f.pkts \in Seq(SentBy(rt)) /\ DOMAIN f.pkts = 1 .. n /\ \A k \in 1 .. n : f.pkts[k] = batch[k].pkt
  BY <1>6, <1>8, <1>9
<1>11. batch[1] = q[1] /\ 1 \in DOMAIN q BY <1>4, <1>6
<1>12. mixed' = IF \E k \in 1 .. n : q[k].src # q[1].src THEN mixed \cup {f.src} ELSE mixed
  BY <1>2, <1>4, <1>8, <1>11
<1>13. Drains(c, f, n)
  <2>1. \A k \in 1 .. n : k \in DOMAIN out[c] /\ f.pkts[k] = out[c][k].pkt BY <1>4, <1>10
  <2>2. f.src = out[c][1].src /\ f.dst = out[c][1].dst BY <1>8, <1>11
  <2>3. \A k \in DOMAIN out'[c] : \E j \in DOMAIN out[c] : out'[c][k] = out[c][j] BY <1>5, <1>7
  <2>4. mixed' = IF \E k \in 1 .. n : out[c][k].src # out[c][1].src THEN mixed \cup {f.src} ELSE mixed BY <1>12
  <2>5. n \in 1 .. Len(out[c]) /\ 1 \in DOMAIN out[c] BY <1>3, <1>11
  <2> QED BY <1>2, <1>7, <1>8, <1>10, <2>1, <2>2, <2>3, <2>4, <2>5, Zenon DEF Drains
<1> QED BY <1>2, <1>13

LEMMA DrainGround ==
  ASSUME Inv, Ground, NEW c \in Clients, DrainData(c) PROVE GroundKept
<1>1. ~closed[c] /\ UNCHANGED serverVars /\ UNCHANGED <<epoch, drawn, confirmed, peerEpoch, go, rt>>
  BY DEF DrainData
<1>2. PICK f, n : Drains(c, f, n) BY DrainFacts
<1>3. c \in scene.clients /\ c # Server BY <1>1, ActiveClient DEF Inv
<1>4. ClientKnows(c, f.src) BY <1>2 DEF Drains, ClientKnows
<1>5. f.src \in 1 .. drawn /\ ~ServerKnows(f.src) BY <1>3, <1>4 DEF Ground, KnownInv
<1>6. ASSUME NEW k \in DOMAIN f.pkts PROVE PacketOK(f, f.pkts[k][1]) /\ f.pkts[k][1] \in DOMAIN rt
  <2> DEFINE i == f.pkts[k][1]
  <2>1. k \in DOMAIN out[c] /\ f.pkts[k] = out[c][k].pkt /\ f.pkts[k] \in SentBy(rt) BY <1>2 DEF Drains
  <2>2. i[1] = c /\ rt[i].plane = "data" /\ i \in DOMAIN rt BY <2>1 DEF Ground, OutInv, SentBy
  <2>3. f.plane = "data" BY <1>2 DEF Drains
  <2> HIDE DEF i
  <2>4. PacketOK(f, i) BY <1>3, <1>5, <2>2, <2>3 DEF PacketOK
  <2> QED BY <2>2, <2>4 DEF i
<1>7. \A ff \in room' : FrameStep(ff) BY <1>2, <1>5, <1>6 DEF FrameOK, Drains, FrameStep
<1>8. ASSUME NEW d \in Clients, NEW k \in DOMAIN out'[d] PROVE OutStep(d, k) BY <1>2, <1>8 DEF Drains, OutStep
<1>9. Regular BY <1>1, SameIsRegular DEF NoTraffic, SameTraffic
<1> QED BY <1>1, <1>7, <1>8, <1>9, WriteGround

LEMMA KeepaliveGround ==
  ASSUME Inv, Ground, NEW c \in Clients, ForceKeepalive(c) PROVE GroundKept
<1> DEFINE f == [plane |-> "data", src |-> epoch[c], dst |-> 0, pkts |-> <<>>]
<1>1. /\ ~closed[c] /\ room' = room \cup {f} /\ UNCHANGED serverVars
      /\ UNCHANGED <<epoch, drawn, confirmed, peerEpoch, go, rt, out>>
  BY DEF ForceKeepalive, clientVars
<1>2. c \in scene.clients BY <1>1, ActiveClient DEF Inv
<1>3. epoch[c] \in 1 .. drawn BY <1>2 DEF ClientKnows, Ground, KnownInv
<1>4. f.src = epoch[c] /\ DOMAIN f.pkts = {} OBVIOUS
<1> HIDE DEF f
<1>5. FrameOK(f) BY <1>3, <1>4 DEF FrameOK
<1>6. /\ \A ff \in room' : FrameStep(ff)
      /\ \A d \in Clients : \A k \in DOMAIN out'[d] : OutStep(d, k)
  BY <1>1, <1>4, <1>5 DEF FrameStep, OutStep
<1>7. Regular BY <1>1, SameIsRegular DEF NoTraffic, SameTraffic
<1> QED BY <1>1, <1>6, <1>7, WriteGround

\* A frame with one packet, under the header of its runtime.
LEMMA FrameOfFacts ==
  ASSUME NEW i, NEW sn
  PROVE  LET f == FrameOf(rt[i], <<<<i, sn>>>>)
         IN  /\ f.plane = rt[i].plane /\ f.src = rt[i].src /\ f.dst = rt[i].dst
             /\ DOMAIN f.pkts = {1} /\ f.pkts[1] = <<i, sn>> /\ f.pkts[1][1] = i
BY DEF FrameOf

LEMMA DrainControlGround ==
  ASSUME Inv, Ground, NEW c \in Clients, DrainControl(c) PROVE GroundKept
<1> DEFINE i == plane[c]["control"]
<1>1. /\ ~closed[c] /\ UNCHANGED serverVars /\ UNCHANGED <<epoch, drawn, confirmed, peerEpoch, go, rt, out>>
  BY DEF DrainControl, clientVars
<1>2. PICK sn \in 1 .. Len(rt[i].msgs) : room' = room \cup {FrameOf(rt[i], <<<<i, sn>>>>)} BY DEF DrainControl
<1>3. c \in scene.clients /\ i \in DOMAIN rt /\ i[1] = c /\ c # Server /\ rt[i].plane = "control"
  BY <1>1, ActiveClient DEF Inv, Planes
<1>4. rt[i].src \in 1 .. drawn /\ ~ServerKnows(rt[i].src) /\ rt[i].dst = 0
  BY <1>3 DEF ClientKnows, Ground, OriginInv, KnownInv, ClientRtOK
<1> DEFINE f == FrameOf(rt[i], <<<<i, sn>>>>)
<1> HIDE DEF i
<1>5. /\ f.plane = rt[i].plane /\ f.src = rt[i].src /\ f.dst = rt[i].dst
      /\ DOMAIN f.pkts = {1} /\ f.pkts[1][1] = i
  BY FrameOfFacts
<1> HIDE DEF f
<1>6. FrameOK(f) BY <1>3, <1>4, <1>5 DEF FrameOK, PacketOK
<1>7. room' = room \cup {f} BY <1>2 DEF f
<1>8. /\ \A ff \in room' : FrameStep(ff)
      /\ \A d \in Clients : \A k \in DOMAIN out'[d] : OutStep(d, k)
  BY <1>1, <1>3, <1>5, <1>6, <1>7 DEF FrameStep, OutStep
<1>9. Regular BY <1>1, SameIsRegular DEF NoTraffic, SameTraffic
<1> QED BY <1>1, <1>8, <1>9, WriteGround

LEMMA CloseGround ==
  ASSUME Inv, Ground, NEW c \in Clients, Close(c) PROVE GroundKept
<1>1. UNCHANGED serverVars /\ UNCHANGED <<epoch, drawn, confirmed, peerEpoch, go, out, room>> BY DEF Close
<1>2. NoTraffic BY ShutTraffic DEF Close
<1>3. Regular BY <1>2, SameIsRegular
<1>4. /\ \A ff \in room' : FrameStep(ff)
      /\ \A d \in Clients : \A k \in DOMAIN out'[d] : OutStep(d, k)
  BY <1>1 DEF FrameStep, OutStep
<1> QED BY <1>1, <1>3, <1>4, WriteGround

LEMMA PeerRestartGround ==
  ASSUME Inv, Ground, NEW c \in Clients, MaybePeerRestart(c) PROVE GroundKept
<1>1. UNCHANGED serverVars /\ UNCHANGED <<epoch, drawn, confirmed, peerEpoch, go, out, room, rt>>
  BY DEF MaybePeerRestart
<1>2. Regular BY <1>1, SameIsRegular DEF NoTraffic, SameTraffic
<1>3. /\ \A ff \in room' : FrameStep(ff)
      /\ \A d \in Clients : \A k \in DOMAIN out'[d] : OutStep(d, k)
  BY <1>1 DEF FrameStep, OutStep
<1> QED BY <1>1, <1>2, <1>3, WriteGround

\* A frame that a client takes has packets of the server, under their header.
LEMMA ClientTakes ==
  ASSUME Inv, Ground, NEW c \in Clients, HandleClientFrame(c)
  PROVE  /\ c \in scene.clients /\ ~closed[c]
         /\ \E f \in room :
              /\ ForClient(c, f) /\ f.plane \in Planes /\ f.pkts \in Seq(SentBy(rt))
              /\ Takes(plane[c][f.plane], f.pkts)
              /\ \A k \in DOMAIN f.pkts :
                   LET a == f.pkts[k][1]
                   IN  a \in DOMAIN rt /\ a[1] = Server /\ rt[a].plane = f.plane /\ rt[a].src = f.src /\ rt[a].dst = f.dst
<1>1. PICK f \in room : /\ ForClient(c, f) /\ ~closed[c]
                        /\ rt' = [rt EXCEPT ![plane[c][f.plane]] = Input(rt[plane[c][f.plane]], f.pkts)]
  BY DEF HandleClientFrame
<1>2. c \in scene.clients /\ \A p \in Planes : plane[c][p] \in DOMAIN rt BY <1>1, ActiveClient DEF Inv
<1>3. f.plane \in Planes /\ f.pkts \in Seq(SentBy(rt)) BY DEF Inv, RoomTypes, FrameType
<1>4. Takes(plane[c][f.plane], f.pkts) BY <1>1, <1>2, <1>3, FeedTraffic DEF Fed
<1>5. epoch[c] # 0 BY <1>2 DEF Inv, RoomTypes, EpochMap
<1>6. ASSUME NEW k \in DOMAIN f.pkts
      PROVE  LET a == f.pkts[k][1]
             IN  a \in DOMAIN rt /\ a[1] = Server /\ rt[a].plane = f.plane /\ rt[a].src = f.src /\ rt[a].dst = f.dst
  <2> DEFINE a == f.pkts[k][1]
  <2>1. a \in DOMAIN rt BY <1>3, SentBySomeone
  <2>2. PacketOK(f, a) BY DEF Ground, FrameInv, FrameOK
  <2>3. f.plane = "control" => f.dst = epoch[c] BY <1>1 DEF ForClient
  <2>4. f.plane # "control" => ServerKnows(f.src) BY <1>1 DEF ForClient, ServerKnows
  <2> HIDE DEF a
  <2>5. a[1] = Server BY <1>5, <2>2, <2>3, <2>4 DEF PacketOK
  <2>6. a \in DOMAIN rt /\ a[1] = Server /\ rt[a].plane = f.plane /\ rt[a].src = f.src /\ rt[a].dst = f.dst
    BY <2>1, <2>2, <2>5 DEF PacketOK
  <2> QED BY <2>6 DEF a
<1> QED BY <1>1, <1>2, <1>3, <1>4, <1>6

LEMMA HandleGround ==
  ASSUME Inv, Ground, NEW c \in Clients, HandleClientFrame(c) PROVE GroundKept
<1>1. UNCHANGED serverVars /\ UNCHANGED <<epoch, drawn, confirmed, peerEpoch, go, out, room>>
  BY DEF HandleClientFrame, clientVars
<1>2. c \in scene.clients /\ ~closed[c] BY ClientTakes
<1>3. PICK f \in room :
                /\ ForClient(c, f) /\ f.plane \in Planes /\ f.pkts \in Seq(SentBy(rt))
                /\ Takes(plane[c][f.plane], f.pkts)
                /\ \A k \in DOMAIN f.pkts :
                     LET a == f.pkts[k][1]
                     IN  a \in DOMAIN rt /\ a[1] = Server /\ rt[a].plane = f.plane /\ rt[a].src = f.src /\ rt[a].dst = f.dst
  BY ClientTakes
<1>4. plane[c][f.plane][1] # Server /\ rt[plane[c][f.plane]].plane = f.plane BY <1>2, <1>3, ActiveClient DEF Inv
<1>5. Regular BY <1>3, <1>4, TakeIsRegular
<1>6. /\ \A ff \in room' : FrameStep(ff)
      /\ \A d \in Clients : \A k \in DOMAIN out'[d] : OutStep(d, k)
  BY <1>1 DEF FrameStep, OutStep
<1> QED BY <1>1, <1>5, <1>6, WriteGround

LEMMA IdleHolds ==
  ASSUME Inv
  PROVE  /\ HoldsOK(IdleReader) /\ DOMAIN IdleReader.pkts = {} /\ IdleReader.pc = "idle"
         /\ IdleReader.plane = "data" /\ IdleReader.src = 0
<1>1. epoch[Server] # 0 /\ drawn \in Nat BY DrawnFacts DEF Inv, RoomTypes, EpochMap
<1>2. 0 \in 0 .. drawn BY ONLY <1>1, SMT
<1>3. IdleReader.pc = "idle" /\ IdleReader.src = 0 /\ DOMAIN IdleReader.pkts = {} /\ IdleReader.plane = "data"
  BY DEF IdleReader
<1> QED BY <1>1, <1>2, <1>3 DEF HoldsOK

\* A reader that has found the session s of its epoch, or that has nothing to
\* deliver.
LEMMA FoundHolds ==
  ASSUME Inv, NEW held \in ReaderType(E0, SentBy(rt)), HoldsOK(held), held.src # 0, NEW s
  PROVE  /\ HoldsOK(Found(held, s))
         /\ \A k \in DOMAIN Found(held, s).pkts : Found(held, s).pkts[k][1] \in DOMAIN rt
         /\ Found(held, s).pc \in {"data", "control"} => Found(held, s).sess = s /\ Found(held, s).src = held.src
         /\ Found(held, s) = IdleReader
            \/ (Found(held, s).plane = held.plane /\ Found(held, s).src = held.src /\ Found(held, s).pkts = held.pkts)
<1> DEFINE r == Found(held, s)
<1>1. CASE held.pkts = <<>> BY <1>1, IdleHolds DEF Found
<1>2. CASE held.pkts # <<>>
  <2>1. r = [held EXCEPT !.pc = held.plane, !.sess = s] BY <1>2 DEF Found
  <2>2. held.pkts \in Seq(SentBy(rt)) BY DEF ReaderType
  <2>3. /\ r.pc = held.plane /\ r.sess = s /\ r.plane = held.plane /\ r.src = held.src /\ r.pkts = held.pkts
    BY <2>1 DEF ReaderType
  <2>4. \A k \in DOMAIN held.pkts : held.pkts[k][1] \in DOMAIN rt BY <2>2, SentBySomeone
  <2> HIDE DEF r
  <2>5. HoldsOK(r) BY <2>3 DEF HoldsOK
  <2> QED BY <2>3, <2>4, <2>5 DEF r
<1> QED BY <1>1, <1>2

\* The frames the server accepts carry packets of clients.
LEMMA ServerAccepts ==
  ASSUME Inv, Ground, NEW f \in room, AcceptsDst(Server, f)
  PROVE  /\ f.plane \in Planes /\ f.pkts \in Seq(SentBy(rt)) /\ f.src \in E0
         /\ f.src \in 1 .. drawn /\ f.src # epoch[Server]
         /\ \A k \in DOMAIN f.pkts : f.pkts[k][1] \in DOMAIN rt /\ FromClient(f.pkts[k], f.plane, f.src)
<1>1. f.plane \in Planes /\ f.pkts \in Seq(SentBy(rt)) /\ f.src \in E0 BY DEF Inv, RoomTypes, FrameType
<1>2. f.src \in 1 .. drawn /\ f.src # epoch[Server] /\ f.dst \in {0, epoch[Server]}
  BY DEF AcceptsDst, Ground, FrameInv, FrameOK
<1>3. ASSUME NEW k \in DOMAIN f.pkts PROVE f.pkts[k][1] \in DOMAIN rt /\ FromClient(f.pkts[k], f.plane, f.src)
  <2> DEFINE i == f.pkts[k][1]
  <2>1. i \in DOMAIN rt BY <1>1, SentBySomeone
  <2>2. PacketOK(f, i) BY DEF Ground, FrameInv, FrameOK
  <2> HIDE DEF i
  <2>3. i[1] # Server
    <3> SUFFICES ASSUME i[1] = Server PROVE FALSE OBVIOUS
    <3>1. rt[i].dst = f.dst /\ rt[i].dst \in 1 .. drawn /\ rt[i].dst # epoch[Server]
      BY <2>1, <2>2 DEF PacketOK, Ground, OriginInv, ServerRtOK
    <3>2. 0 \notin 1 .. drawn BY DrawnFacts
    <3> QED BY <1>2, <3>1, <3>2
  <2>4. rt[i].plane = f.plane /\ (f.plane = "control" => rt[i].src = f.src) BY <2>2, <2>3 DEF PacketOK
  <2> QED BY <2>1, <2>3, <2>4 DEF FromClient, i
<1> QED BY <1>1, <1>2, <1>3

\* The reader w takes the frame f.
LEMMA TakesFrame ==
  ASSUME Inv, Ground, NEW w \in Readers, TakeFrame(w)
  PROVE  /\ Refreshed
         /\ \A v \in Readers : v # w => reader'[v] = reader[v]
         /\ \E f \in room :
              /\ AcceptsDst(Server, f)
              /\ HoldsOK(reader'[w]) /\ \A k \in DOMAIN reader'[w].pkts : reader'[w].pkts[k][1] \in DOMAIN rt
              /\ reader'[w].pc \in {"data", "control"} => sess[reader'[w].sess].epoch = reader'[w].src
              /\ \/ reader'[w] = IdleReader
                 \/ reader'[w].plane = f.plane /\ reader'[w].src = f.src /\ reader'[w].pkts = f.pkts
<1>1. PICK f \in room :
        /\ AcceptsDst(Server, f)
        /\ reader' = [reader EXCEPT ![w] =
                        LET held == [pc |-> "create", plane |-> f.plane, src |-> f.src, pkts |-> f.pkts, sess |-> 0]
                        IN  IF Has(f.src) THEN Found(held, Get(f.src)) ELSE held]
        /\ peers' = IF Has(f.src) THEN Touch(peers, Get(f.src)) ELSE peers
  BY DEF TakeFrame
<1> DEFINE held == [pc |-> "create", plane |-> f.plane, src |-> f.src, pkts |-> f.pkts, sess |-> 0]
           next == IF Has(f.src) THEN Found(held, Get(f.src)) ELSE held
<1>2. /\ f.plane \in Planes /\ f.pkts \in Seq(SentBy(rt)) /\ f.src \in E0
      /\ f.src \in 1 .. drawn /\ f.src # epoch[Server]
      /\ \A k \in DOMAIN f.pkts : f.pkts[k][1] \in DOMAIN rt /\ FromClient(f.pkts[k], f.plane, f.src)
  BY <1>1, ServerAccepts
<1>3. /\ held \in ReaderType(E0, SentBy(rt)) /\ held.pc = "create" /\ held.plane = f.plane /\ held.src = f.src
      /\ held.pkts = f.pkts
  BY <1>2 DEF ReaderType
<1>4. f.src \in 0 .. drawn /\ f.src # 0 BY <1>2, DrawnFacts
<1> HIDE DEF held
<1>5. HoldsOK(held) BY <1>2, <1>3, <1>4 DEF HoldsOK
<1>6. Has(f.src) => Get(f.src) \in DOMAIN sess /\ InTable(Get(f.src)) /\ sess[Get(f.src)].epoch = f.src
  BY GetOK DEF Inv
<1>7. /\ HoldsOK(next) /\ \A k \in DOMAIN next.pkts : next.pkts[k][1] \in DOMAIN rt
      /\ next.pc \in {"data", "control"} => sess[next.sess].epoch = next.src
      /\ \/ next = IdleReader
         \/ next.plane = f.plane /\ next.src = f.src /\ next.pkts = f.pkts
  <2>1. CASE Has(f.src)
    <3> DEFINE s == Get(f.src)
               r == Found(held, s)
    <3>1. /\ HoldsOK(r)
          /\ \A k \in DOMAIN r.pkts : r.pkts[k][1] \in DOMAIN rt
          /\ r.pc \in {"data", "control"} => r.sess = s /\ r.src = held.src
          /\ r = IdleReader \/ (r.plane = held.plane /\ r.src = held.src /\ r.pkts = held.pkts)
      BY <1>3, <1>4, <1>5, FoundHolds
    <3>2. next = r /\ sess[s].epoch = f.src BY <1>6, <2>1
    <3> HIDE DEF r, s, next
    <3> QED BY <1>3, <3>1, <3>2
  <2>2. CASE ~Has(f.src) BY <1>2, <1>3, <1>5, <2>2
  <2> QED BY <2>1, <2>2
<1>8. reader' = [reader EXCEPT ![w] = next] BY <1>1 DEF held
<1> HIDE DEF next
<1>9. reader'[w] = next /\ \A v \in Readers : v # w => reader'[v] = reader[v] BY <1>8 DEF Inv, ServerTypes
<1>10. Refreshed BY <1>1, <1>6 DEF Refreshed
<1> QED BY <1>1, <1>7, <1>9, <1>10

LEMMA TakeFrameGround ==
  ASSUME Inv, Ground, NEW w \in Readers, TakeFrame(w) PROVE GroundKept
<1>1. UNCHANGED <<epoch, drawn, rt, room, sess>> /\ UNCHANGED clientVars BY DEF TakeFrame
<1>2. /\ \A v \in Readers : v # w => reader'[v] = reader[v]
      /\ HoldsOK(reader'[w]) /\ \A k \in DOMAIN reader'[w].pkts : reader'[w].pkts[k][1] \in DOMAIN rt
      /\ reader'[w].pc \in {"data", "control"} => sess[reader'[w].sess].epoch = reader'[w].src
  BY TakesFrame
<1>3. ASSUME NEW v \in Readers PROVE HoldStep(v) /\ HeldFor(reader[v])'
  <2>1. CASE v = w BY <1>1, <1>2, <2>1 DEF HoldStep, HeldFor
  <2>2. CASE v # w BY <1>1, <1>2, <2>2 DEF HoldStep, HeldFor, Ground, HoldInv
  <2> QED BY <2>1, <2>2
<1>4. (\A s \in DOMAIN sess' : AddressStep(s)) /\ \A f \in room' : FrameStep(f) BY <1>1 DEF AddressStep, FrameStep
<1>5. Regular BY <1>1, SameIsRegular DEF NoTraffic, SameTraffic
<1> QED BY <1>1, <1>3, <1>4, <1>5, ServerGround DEF GroundKept

------------------------------------------------------------------------------
(* The sessions that leave the table and join it.                           *)

\* ClosedSession, and what is left of the table without the session at place k.
LEMMA DroppedOne ==
  ASSUME Inv, NEW k \in 1 .. Len(peers), NEW rest, NEW kept, kept = ClosedSession(sess, peers[k]),
         Cut(rest, kept, RuntimesOf(peers[k]))
  PROVE  /\ peers[k] \in DOMAIN sess /\ InTable(peers[k])
         /\ DOMAIN kept = DOMAIN sess
         /\ kept[peers[k]].epoch = sess[peers[k]].epoch /\ kept[peers[k]].data = sess[peers[k]].data
         /\ kept[peers[k]].closed /\ kept[peers[k]].control = None
         /\ \A s \in DOMAIN sess : s # peers[k] => kept[s] = sess[s]
         /\ \A s : (\E j \in DOMAIN rest : rest[j] = s) <=> (InTable(s) /\ s # peers[k])
<1> DEFINE t == peers[k]
<1>1. /\ sess \in Seq(SessionType(E0)) /\ t \in DOMAIN sess /\ InTable(t) BY DEF Inv, ServerTypes, InTable
<1>2. /\ DOMAIN kept = DOMAIN sess
      /\ kept[t].epoch = sess[t].epoch /\ kept[t].data = sess[t].data
      /\ kept[t].closed /\ kept[t].control = None
      /\ \A s \in DOMAIN sess : s # t => kept[s] = sess[s]
  <2> DEFINE r == [sess[t] EXCEPT !.control = None, !.closed = TRUE]
  <2>1. kept = [sess EXCEPT ![t] = r] BY <1>1 DEF ClosedSession
  <2>2. sess[t] \in SessionType(E0) BY <1>1
  <2>3. r.epoch = sess[t].epoch /\ r.data = sess[t].data /\ r.control = None /\ r.closed = TRUE
    BY <2>2 DEF SessionType
  <2> HIDE DEF r, t
  <2> QED BY <1>1, <2>1, <2>3
<1> HIDE DEF t
<1>3. \A i \in DOMAIN rest : InTable(rest[i]) /\ kept[rest[i]] = sess[rest[i]] /\ ~sess[rest[i]].closed BY DEF Cut
<1>4. \A s : InTable(s) => s \in DOMAIN sess /\ ~sess[s].closed BY DEF InTable, Inv, ServerTypes, TableInv
<1>5. \A j \in DOMAIN peers : (\E i \in DOMAIN rest : rest[i] = peers[j]) \/ kept[peers[j]].closed BY DEF Cut
<1>6. ASSUME NEW s PROVE (\E j \in DOMAIN rest : rest[j] = s) <=> (InTable(s) /\ s # t)
  <2>1. ASSUME NEW j \in DOMAIN rest, rest[j] = s PROVE InTable(s) /\ s # t BY <1>2, <1>3, <2>1
  <2>2. ASSUME InTable(s), s # t PROVE \E j \in DOMAIN rest : rest[j] = s BY <1>2, <1>4, <1>5, <2>2 DEF InTable
  <2> QED BY <2>1, <2>2
<1> QED BY <1>1, <1>2, <1>6 DEF t

LEMMA Appended ==
  ASSUME NEW S, NEW q \in Seq(S), NEW x
  PROVE  /\ DOMAIN Append(q, x) = DOMAIN q \cup {Len(q) + 1} /\ Append(q, x)[Len(q) + 1] = x
         /\ \A k \in DOMAIN q : Append(q, x)[k] = q[k]
         /\ Len(q) + 1 \notin DOMAIN q
         /\ \A s : (\E j \in DOMAIN Append(q, x) : Append(q, x)[j] = s) <=> (\E j \in DOMAIN q : q[j] = s) \/ s = x
<1> DEFINE a == Append(q, x)
<1>1. Len(a) = Len(q) + 1 /\ DOMAIN a = 1 .. Len(a) /\ DOMAIN q = 1 .. Len(q) /\ Len(q) \in Nat OBVIOUS
<1>2. a[Len(q) + 1] = x /\ \A k \in 1 .. Len(q) : a[k] = q[k] OBVIOUS
<1> HIDE DEF a
<1>3. DOMAIN a = DOMAIN q \cup {Len(q) + 1} /\ Len(q) + 1 \notin DOMAIN q BY <1>1
<1>4. \A s : (\E j \in DOMAIN a : a[j] = s) <=> (\E j \in DOMAIN q : q[j] = s) \/ s = x BY <1>1, <1>2, <1>3
<1> QED BY <1>1, <1>2, <1>3, <1>4 DEF a

LEMMA JoinFacts ==
  ASSUME Inv, NEW e \in E0, NEW rest, NEW kept, NEW gone, NEW D, Entering(e, rest, kept, gone, D)
  PROVE  Joins(Len(sess) + 1, e, D)
<1> USE DEF Entering
<1> DEFINE N == Len(sess) + 1
           x == [epoch |-> e, data |-> Fresh(Server), control |-> None, closed |-> FALSE]
<1>1. /\ DOMAIN sess' = DOMAIN kept \cup {N} /\ sess'[N] = x /\ N \notin DOMAIN kept
      /\ \A s \in DOMAIN kept : sess'[s] = kept[s]
  <2>1. /\ DOMAIN Append(kept, x) = DOMAIN kept \cup {Len(kept) + 1} /\ Append(kept, x)[Len(kept) + 1] = x
        /\ \A k \in DOMAIN kept : Append(kept, x)[k] = kept[k]
        /\ Len(kept) + 1 \notin DOMAIN kept
    BY Appended
  <2> HIDE DEF x
  <2>2. Len(kept) + 1 = N /\ sess' = Append(kept, x) BY DEF x
  <2> QED BY <2>1, <2>2
<1>2. DOMAIN kept = DOMAIN sess BY DEF Inv, ServerTypes
<1>3. \A s : InTable(s)' <=> (InTable(s) /\ s \notin D) \/ s = N
  <2>0. rest \in Seq(DOMAIN sess) /\ peers' = Append(rest, N) OBVIOUS
  <2> DEFINE a == Append(rest, N)
  <2> HIDE DEF N
  <2>1. /\ DOMAIN a = DOMAIN rest \cup {Len(rest) + 1} /\ a[Len(rest) + 1] = N
        /\ \A k \in DOMAIN rest : a[k] = rest[k]
        /\ Len(rest) + 1 \notin DOMAIN rest
        /\ \A s : (\E j \in DOMAIN a : a[j] = s) <=> (\E j \in DOMAIN rest : rest[j] = s) \/ s = N
    BY ONLY <2>0, Appended
  <2>2. peers' = a BY <2>0
  <2> HIDE DEF a
  <2> SUFFICES ASSUME NEW s PROVE InTable(s)' <=> (InTable(s) /\ s \notin D) \/ s = N OBVIOUS
  <2>3. InTable(s)' <=> \E k \in DOMAIN a : a[k] = s BY <2>2 DEF InTable
  <2>4. (\E j \in DOMAIN rest : rest[j] = s) <=> (InTable(s) /\ s \notin D) OBVIOUS
  <2> QED BY <2>1, <2>3, <2>4
<1>4. Begins(Fresh(Server), "data", epoch[Server], e) BY LaunchFacts, LaunchTraffic DEF Planes
<1>5. x.epoch = e /\ x.data = Fresh(Server) /\ x.control = None /\ ~x.closed OBVIOUS
<1> HIDE DEF x, N
<1>6. \A s \in DOMAIN sess :
        /\ s \in DOMAIN sess' /\ sess'[s].epoch = sess[s].epoch /\ sess'[s].data = sess[s].data
        /\ s \in D => sess'[s].closed /\ sess'[s].control = None
        /\ s \notin D => sess'[s] = sess[s]
  BY <1>1, <1>2
<1>7. Leaves(D) BY <1>6 DEF Leaves
<1>8. Joins(N, e, D) BY <1>1, <1>2, <1>3, <1>4, <1>5, <1>7 DEF Joins
<1> QED BY <1>8 DEF N

LEMMA AddFacts ==
  ASSUME Inv, NEW e \in E0, ~Has(e), Add(e) PROVE \E D : Joins(Len(sess) + 1, e, D)
<1>1. /\ peers \in Seq(DOMAIN sess) /\ sess \in Seq(SessionType(E0))
      /\ Len(peers) \in Nat /\ maxPeers \in Nat \ {0} /\ Len(peers) <= maxPeers
  BY BoundsAssumption DEF Inv, ServerTypes, TableInv
<1>2. CASE Len(peers) >= maxPeers
  <2> DEFINE rest == Tail(peers)
             kept == ClosedSession(sess, peers[1])
             gone == RuntimesOf(peers[1])
             D == {peers[1]}
  <2>1. Len(peers) = maxPeers /\ peers # <<>> /\ 1 \in 1 .. Len(peers) /\ Head(peers) = peers[1] BY <1>1, <1>2
  <2>2. /\ rest \in Seq(DOMAIN sess) /\ Len(rest) = Len(peers) - 1
        /\ \A j \in 1 .. (Len(peers) - 1) : rest[j] = peers[j + 1]
    BY <1>1, <2>1
  <2>7. /\ rt' = Started(Shut(rt, gone), Fresh(Server), Runtime("data", epoch[Server], e))
        /\ sess' = Append(kept, [epoch |-> e, data |-> Fresh(Server), control |-> None, closed |-> FALSE])
        /\ peers' = Append(rest, Len(sess) + 1)
        /\ lost' = lost \cup {sess[s].epoch : s \in D}
    BY <1>2, <2>1 DEF Add
  <2> HIDE DEF rest
  <2>3. \A j \in 1 .. (Len(peers) - 1) : rest[j] = IF j < 1 THEN peers[j] ELSE peers[j + 1]
    <3>1. \A j \in 1 .. (Len(peers) - 1) : ~(j < 1) BY ONLY <1>1, SMT
    <3> QED BY ONLY <2>2, <3>1, Zenon
  <2>4. Cut(rest, kept, gone) BY <2>1, <2>2, <2>3, DropOne
  <2>5. /\ peers[1] \in DOMAIN sess /\ InTable(peers[1])
        /\ DOMAIN kept = DOMAIN sess
        /\ kept[peers[1]].epoch = sess[peers[1]].epoch /\ kept[peers[1]].data = sess[peers[1]].data
        /\ kept[peers[1]].closed /\ kept[peers[1]].control = None
        /\ \A s \in DOMAIN sess : s # peers[1] => kept[s] = sess[s]
        /\ \A s : (\E j \in DOMAIN rest : rest[j] = s) <=> (InTable(s) /\ s # peers[1])
    BY <2>1, <2>4, DroppedOne
  <2>6. /\ kept \in Seq(SessionType(E0)) /\ Len(kept) = Len(sess) /\ \A i \in gone : i[1] = Server BY <2>4 DEF Cut
  <2> HIDE DEF kept, gone
  <2>8. /\ \A s \in D : s \in DOMAIN sess /\ InTable(s)
        /\ \A s \in DOMAIN sess :
              /\ kept[s].epoch = sess[s].epoch /\ kept[s].data = sess[s].data
              /\ s \in D => kept[s].closed /\ kept[s].control = None
              /\ s \notin D => kept[s] = sess[s]
        /\ \A s : (\E j \in DOMAIN rest : rest[j] = s) <=> (InTable(s) /\ s \notin D)
    BY <2>5
  <2> HIDE DEF D
  <2>9. Joins(Len(sess) + 1, e, D)
    <3>1. rest \in Seq(DOMAIN sess) BY <2>2
    <3>2. /\ rt' = Started(Shut(rt, gone), Fresh(Server), Runtime("data", epoch[Server], e))
          /\ sess' = Append(kept, [epoch |-> e, data |-> Fresh(Server), control |-> None, closed |-> FALSE])
          /\ peers' = Append(rest, Len(sess) + 1)
      BY <2>7
    <3>3. lost' = lost \cup {sess[s].epoch : s \in D} BY <2>7
    <3>4. Entering(e, rest, kept, gone, D) BY ONLY <3>1, <3>2, <3>3, <2>6, <2>8 DEF Entering
    <3> QED BY ONLY Inv, e \in E0, <3>4, JoinFacts
  <2> QED BY <2>9
<1>3. CASE ~(Len(peers) >= maxPeers)
  <2>3. UNION {RuntimesOf(s) : s \in {}} = {} /\ {sess[s].epoch : s \in {}} = {} OBVIOUS
  <2>4. /\ rt' = Started(Shut(rt, {}), Fresh(Server), Runtime("data", epoch[Server], e))
        /\ sess' = Append(sess, [epoch |-> e, data |-> Fresh(Server), control |-> None, closed |-> FALSE])
        /\ peers' = Append(peers, Len(sess) + 1)
        /\ lost' = lost \cup {sess[s].epoch : s \in {}}
    BY <1>3, <2>3 DEF Add
  <2>5. \A s : (\E j \in DOMAIN peers : peers[j] = s) <=> (InTable(s) /\ s \notin {}) BY DEF InTable
  <2> DEFINE D == {}
  <2>6. /\ \A s \in D : s \in DOMAIN sess /\ InTable(s)
        /\ \A s \in DOMAIN sess :
              /\ sess[s].epoch = sess[s].epoch /\ sess[s].data = sess[s].data
              /\ s \in D => sess[s].closed /\ sess[s].control = None
              /\ s \notin D => sess[s] = sess[s]
        /\ \A i \in D : i[1] = Server /\ Len(sess) = Len(sess)
    OBVIOUS
  <2> HIDE DEF D
  <2>7. Joins(Len(sess) + 1, e, D)
    <3>1. /\ rt' = Started(Shut(rt, D), Fresh(Server), Runtime("data", epoch[Server], e))
          /\ lost' = lost \cup {sess[s].epoch : s \in D}
          /\ \A s : (\E j \in DOMAIN peers : peers[j] = s) <=> (InTable(s) /\ s \notin D)
      BY <2>4, <2>5 DEF D
    <3>2. Entering(e, peers, sess, D, D) BY ONLY <1>1, <2>4, <2>6, <3>1 DEF Entering
    <3> QED BY ONLY Inv, e \in E0, <3>2, JoinFacts
  <2> QED BY <2>7
<1> QED BY <1>2, <1>3

LEMMA SweepFacts ==
  ASSUME Inv, Sweep
  PROVE  /\ NoTraffic /\ DOMAIN sess' = DOMAIN sess
         /\ \E s : /\ InTable(s) /\ Leaves({s}) /\ \A t : InTable(t)' <=> InTable(t) /\ t # s
                   /\ room' = {f \in room : f.src # sess[s].epoch}
<1>1. PICK k \in DOMAIN peers :
        /\ peers' = RemoveAt(peers, k)
        /\ rt' = Shut(rt, RuntimesOf(peers[k]))
        /\ sess' = ClosedSession(sess, peers[k])
        /\ lost' = lost \cup {sess[peers[k]].epoch}
        /\ room' = {f \in room : f.src # sess[peers[k]].epoch}
  BY DEF Sweep
<1>3. peers \in Seq(DOMAIN sess) BY DEF Inv, ServerTypes
<1>4. k \in 1 .. Len(peers) BY <1>3
<1> DEFINE rest == RemoveAt(peers, k)
           kept == ClosedSession(sess, peers[k])
<1>5. /\ rest \in Seq(DOMAIN sess) /\ Len(rest) = Len(peers) - 1
      /\ \A j \in 1 .. (Len(peers) - 1) : rest[j] = IF j < k THEN peers[j] ELSE peers[j + 1]
  BY ONLY <1>3, <1>4, RemoveAtFacts
<1>2. peers' = rest /\ sess' = kept BY <1>1
<1> HIDE DEF rest
<1>6. Cut(rest, kept, RuntimesOf(peers[k])) BY <1>4, <1>5, DropOne
<1>7. /\ peers[k] \in DOMAIN sess /\ InTable(peers[k])
      /\ DOMAIN kept = DOMAIN sess
      /\ kept[peers[k]].epoch = sess[peers[k]].epoch /\ kept[peers[k]].data = sess[peers[k]].data
      /\ kept[peers[k]].closed /\ kept[peers[k]].control = None
      /\ \A s \in DOMAIN sess : s # peers[k] => kept[s] = sess[s]
      /\ \A s : (\E j \in DOMAIN rest : rest[j] = s) <=> (InTable(s) /\ s # peers[k])
  BY <1>4, <1>6, DroppedOne
<1> HIDE DEF kept
<1>8. NoTraffic BY <1>1, ShutTraffic
<1> DEFINE s0 == peers[k]
<1>9. lost' = lost \cup {sess[s].epoch : s \in {s0}} BY <1>1
<1> HIDE DEF s0
<1>10. Leaves({s0}) BY <1>2, <1>7, <1>9 DEF Leaves, s0
<1>11. \A t : InTable(t)' <=> InTable(t) /\ t # s0 BY <1>2, <1>7 DEF InTable, s0
<1> QED BY <1>1, <1>2, <1>7, <1>8, <1>10, <1>11 DEF s0

LEMMA CloseFacts ==
  ASSUME Inv, ServerCloses
  PROVE  /\ NoTraffic /\ DOMAIN sess' = DOMAIN sess /\ Leaves({s \in DOMAIN sess : InTable(s)})
         /\ \A s : ~InTable(s)'
<1> DEFINE D == {s \in DOMAIN sess : InTable(s)}
<1>1. /\ rt' = Shut(rt, UNION {RuntimesOf(peers[k]) : k \in DOMAIN peers}) /\ peers' = <<>>
      /\ sess' = [s \in DOMAIN sess |->
                   IF \E k \in DOMAIN peers : peers[k] = s
                   THEN [sess[s] EXCEPT !.control = None, !.closed = TRUE] ELSE sess[s]]
      /\ lost' = lost \cup {sess[peers[k]].epoch : k \in DOMAIN peers}
  BY DEF ServerCloses
<1>2. sess \in Seq(SessionType(E0)) /\ \A k \in DOMAIN peers : peers[k] \in DOMAIN sess BY DEF Inv, ServerTypes
<1>3. NoTraffic BY <1>1, ShutTraffic
<1>4. lost' = lost \cup {sess[s].epoch : s \in D} BY <1>1, <1>2 DEF InTable
<1>5. ASSUME NEW s \in DOMAIN sess
      PROVE  /\ sess'[s].epoch = sess[s].epoch /\ sess'[s].data = sess[s].data
             /\ s \in D => sess'[s].closed /\ sess'[s].control = None
             /\ s \notin D => sess'[s] = sess[s]
  <2>1. sess[s] \in SessionType(E0) BY <1>2
  <2>2. CASE InTable(s) BY <1>1, <2>1, <2>2 DEF InTable, SessionType
  <2>3. CASE ~InTable(s) BY <1>1, <2>3 DEF InTable
  <2> QED BY <2>2, <2>3
<1>6. DOMAIN sess' = DOMAIN sess BY <1>1
<1>7. \A s \in D : s \in DOMAIN sess /\ InTable(s) OBVIOUS
<1> HIDE DEF D
<1>8. Leaves(D) BY <1>4, <1>5, <1>6, <1>7 DEF Leaves
<1>9. \A s : ~InTable(s)'
  <2>0. DOMAIN <<>> = {} OBVIOUS
  <2>1. DOMAIN peers' = {} BY <1>1, <2>0
  <2> SUFFICES ASSUME NEW s PROVE ~InTable(s)' OBVIOUS
  <2> QED BY <2>1 DEF InTable
<1> QED BY <1>3, <1>6, <1>8, <1>9 DEF D

\* A lookup keeps the table's entries.
LEMMA SameTable ==
  ASSUME Inv, Refreshed PROVE \A s : InTable(s)' <=> InTable(s)
<1>1. CASE peers' = peers BY <1>1 DEF InTable
<1>2. ASSUME NEW t \in DOMAIN sess, InTable(t), peers' = Touch(peers, t) PROVE \A s : InTable(s)' <=> InTable(s)
  <2>0. peers \in Seq(DOMAIN sess) BY DEF Inv, ServerTypes
  <2>1. PICK k \in 1 .. Len(peers) : peers[k] = t BY <1>2, <2>0 DEF InTable
  <2> DEFINE q == Touch(peers, t)
  <2>2. q \in Seq(DOMAIN sess) /\ Len(q) = Len(peers) /\ PartOf(q, peers) /\ Keeps(q, peers)
    BY ONLY <2>0, <2>1, k \in 1 .. Len(peers), TouchOK
  <2> HIDE DEF q
  <2>3. peers' = q BY <1>2 DEF q
  <2>4. DOMAIN q = 1 .. Len(peers) /\ DOMAIN peers = 1 .. Len(peers) BY <2>0, <2>2
  <2>5. \A j \in DOMAIN q : \E k1 \in DOMAIN peers : peers[k1] = q[j] BY <2>2, <2>4 DEF PartOf
  <2>6. \A j \in DOMAIN peers : \E k1 \in DOMAIN q : q[k1] = peers[j] BY <2>2, <2>4 DEF Keeps
  <2> SUFFICES ASSUME NEW s PROVE InTable(s)' <=> InTable(s) OBVIOUS
  <2>7. InTable(s)' <=> \E j \in DOMAIN q : q[j] = s BY <2>3 DEF InTable
  <2> QED BY <2>5, <2>6, <2>7 DEF InTable
<1> QED BY <1>1, <1>2 DEF Refreshed

\* What a reader that looks for the session of its epoch does to the table, and
\* what it holds then.
LEMMA PeerSessionFacts ==
  ASSUME Inv, Ground, NEW w \in Readers, PeerSessionFor(w)
  PROVE  /\ reader[w].src \in 1 .. drawn /\ reader[w].src # epoch[Server]
         /\ \A v \in Readers : v # w => reader'[v] = reader[v]
         /\ HoldsOK(reader'[w]) /\ \A k \in DOMAIN reader'[w].pkts : reader'[w].pkts[k][1] \in DOMAIN rt
         /\ reader'[w].pc \in {"data", "control"} => sess'[reader'[w].sess].epoch = reader'[w].src
         /\ \/ reader'[w] = IdleReader
            \/ /\ reader'[w].plane = reader[w].plane /\ reader'[w].src = reader[w].src
               /\ reader'[w].pkts = reader[w].pkts
         /\ \/ UNCHANGED <<rt, sess, lost>> /\ \A s : InTable(s)' <=> InTable(s)
            \/ ~Has(reader[w].src) /\ \E D : Joins(Len(sess) + 1, reader[w].src, D)
<1> DEFINE r == reader[w]
           e == reader[w].src
<1>1. r \in ReaderType(E0, SentBy(rt)) /\ r.pc = "create" /\ e \in E0 /\ ServerTypes
      /\ reader \in [Readers -> ReaderType(E0, SentBy(rt))]
  BY DEF PeerSessionFor, Inv, ServerTypes, ReaderType
<1>2. HoldsOK(r) /\ e # 0 /\ e \in 0 .. drawn /\ e # epoch[Server] BY <1>1 DEF Ground, HoldInv, HoldsOK
<1>3. e \in 1 .. drawn BY <1>2, DrawnFacts
<1>4. CASE /\ Has(e) /\ reader' = [reader EXCEPT ![w] = Found(r, Get(e))]
           /\ peers' = Touch(peers, Get(e)) /\ UNCHANGED <<rt, sess, lost>>
  <2> DEFINE s == Get(e)
             x == Found(r, s)
  <2>1. s \in DOMAIN sess /\ InTable(s) /\ sess[s].epoch = e BY <1>1, <1>4, GetOK
  <2>2. /\ HoldsOK(x) /\ \A k \in DOMAIN x.pkts : x.pkts[k][1] \in DOMAIN rt
        /\ x.pc \in {"data", "control"} => x.sess = s /\ x.src = e
        /\ x = IdleReader \/ (x.plane = r.plane /\ x.src = e /\ x.pkts = r.pkts)
    BY <1>1, <1>2, FoundHolds
  <2>3. reader'[w] = x /\ \A v \in Readers : v # w => reader'[v] = reader[v] BY <1>1, <1>4
  <2> HIDE DEF x
  <2>4. Refreshed BY <1>4, <2>1 DEF Refreshed
  <2>5. \A t : InTable(t)' <=> InTable(t) BY <2>4, SameTable
  <2> HIDE DEF s
  <2> QED BY <1>2, <1>3, <1>4, <2>1, <2>2, <2>3, <2>5
<1>5. CASE reader' = [reader EXCEPT ![w] = IdleReader] /\ UNCHANGED <<rt, sess, peers, lost>>
  BY <1>1, <1>2, <1>3, <1>5, IdleHolds DEF InTable
<1>6. CASE ~Has(e) /\ Add(e) /\ reader' = [reader EXCEPT ![w] = Found(r, Len(sess) + 1)]
  <2> DEFINE N == Len(sess) + 1
             x == Found(r, N)
  <2>1. \E D : Joins(N, e, D) BY <1>1, <1>6, AddFacts
  <2>2. /\ HoldsOK(x) /\ \A k \in DOMAIN x.pkts : x.pkts[k][1] \in DOMAIN rt
        /\ x.pc \in {"data", "control"} => x.sess = N /\ x.src = e
        /\ x = IdleReader \/ (x.plane = r.plane /\ x.src = e /\ x.pkts = r.pkts)
    BY <1>1, <1>2, FoundHolds
  <2>3. reader'[w] = x /\ \A v \in Readers : v # w => reader'[v] = reader[v] BY <1>1, <1>6
  <2> HIDE DEF x
  <2>4. sess'[N].epoch = e BY <2>1 DEF Joins
  <2> HIDE DEF N
  <2>5. \E D : Joins(Len(sess) + 1, e, D) BY <2>1 DEF N
  <2> QED BY <1>2, <1>3, <1>6, <2>2, <2>3, <2>4, <2>5
<1> QED BY <1>4, <1>5, <1>6 DEF PeerSessionFor

\* Sessions that leave and join keep the addresses.
LEMMA LeavesAddresses ==
  ASSUME NEW D, Leaves(D), NEW s \in DOMAIN sess PROVE AddressStep(s)
BY DEF Leaves, AddressStep

LEMMA PeerSessionGround ==
  ASSUME Inv, Ground, NEW w \in Readers, PeerSessionFor(w) PROVE GroundKept
<1> DEFINE e == reader[w].src
<1>1. UNCHANGED <<epoch, drawn, room>> /\ UNCHANGED clientVars BY DEF PeerSessionFor
<1>2. /\ e \in 1 .. drawn /\ e # epoch[Server]
      /\ \A v \in Readers : v # w => reader'[v] = reader[v]
      /\ HoldsOK(reader'[w]) /\ \A k \in DOMAIN reader'[w].pkts : reader'[w].pkts[k][1] \in DOMAIN rt
      /\ reader'[w].pc \in {"data", "control"} => sess'[reader'[w].sess].epoch = reader'[w].src
      /\ \/ UNCHANGED <<rt, sess, lost>> /\ \A s : InTable(s)' <=> InTable(s)
         \/ ~Has(e) /\ \E D : Joins(Len(sess) + 1, e, D)
  BY PeerSessionFacts
<1>3. /\ \A s \in DOMAIN sess : sess'[s].epoch = sess[s].epoch
      /\ Regular
      /\ \A s \in DOMAIN sess' : AddressStep(s)
  <2>1. CASE UNCHANGED <<rt, sess, lost>> BY <2>1, SameIsRegular DEF NoTraffic, SameTraffic, AddressStep
  <2>2. ASSUME NEW D, Joins(Len(sess) + 1, e, D)
        PROVE  /\ \A s \in DOMAIN sess : sess'[s].epoch = sess[s].epoch
               /\ Regular
               /\ \A s \in DOMAIN sess' : AddressStep(s)
    <3> DEFINE d == Fresh(Server)
               N == Len(sess) + 1
    <3>1. d[1] = Server /\ Begins(d, "data", epoch[Server], e) BY <2>2 DEF Joins, Fresh
    <3>2. Regular BY <1>2, <3>1, BeginIsRegular
    <3>3. rt'[d].plane = "data" /\ rt'[d].dst = e BY <3>1 DEF Begins
    <3> HIDE DEF d, N
    <3>4. Leaves(D) /\ DOMAIN sess' = DOMAIN sess \cup {N} /\ sess'[N].epoch = e /\ sess'[N].data = d /\ sess'[N].control = None
      BY <2>2 DEF Joins, d, N
    <3>5. AddressStep(N) BY <1>2, <3>3, <3>4 DEF AddressStep
    <3>6. \A s \in DOMAIN sess : AddressStep(s) BY <3>4, LeavesAddresses
    <3>7. \A s \in DOMAIN sess : sess'[s].epoch = sess[s].epoch BY <3>4 DEF Leaves
    <3> QED BY <3>2, <3>4, <3>5, <3>6, <3>7
  <2> QED BY <1>2, <2>1, <2>2
<1>4. ASSUME NEW v \in Readers PROVE HoldStep(v) /\ HeldFor(reader[v])'
  <2>1. CASE v = w BY <1>2, <2>1 DEF HoldStep, HeldFor
  <2>2. CASE v # w BY <1>2, <1>3, <2>2 DEF Inv, ReaderInv, HoldStep, HeldFor, Ground, HoldInv
  <2> QED BY <2>1, <2>2
<1>5. \A f \in room' : FrameStep(f) BY <1>1 DEF FrameStep
<1> QED BY <1>1, <1>3, <1>4, <1>5, ServerGround DEF GroundKept

\* What is new of a sequence, put after what it extends.
LEMMA WithItsRest ==
  ASSUME NEW P, NEW old \in Seq(P), NEW new \in Seq(P), Len(old) <= Len(new),
         \A k \in 1 .. Len(old) : new[k] = old[k]
  PROVE  /\ SubSeq(new, Len(old) + 1, Len(new)) \in Seq(P) /\ old \o SubSeq(new, Len(old) + 1, Len(new)) = new
         /\ \A k \in DOMAIN SubSeq(new, Len(old) + 1, Len(new)) :
              k + Len(old) \in DOMAIN new /\ SubSeq(new, Len(old) + 1, Len(new))[k] = new[k + Len(old)]
<1> DEFINE a == Len(old)
           b == Len(new)
           part == SubSeq(new, a + 1, b)
<1>1. a \in Nat /\ b \in Nat /\ a <= b /\ DOMAIN new = 1 .. b OBVIOUS
<1>2. \A k \in (a + 1) .. b : new[k] \in P BY <1>1
<1>3. /\ part \in Seq(P) /\ Len(part) = (IF a + 1 <= b THEN b - (a + 1) + 1 ELSE 0)
      /\ \A i \in 1 .. b - (a + 1) + 1 : part[i] = new[(a + 1) + i - 1]
  BY <1>1, <1>2, SubSeqProperties
<1> HIDE DEF a, b, part
<1>4. /\ Len(part) = b - a
      /\ \A k \in 1 .. (b - a) : part[k] = new[k + a] /\ k + a \in 1 .. b
  BY <1>1, <1>3
<1>5. /\ old \o part \in Seq(P) /\ Len(old \o part) = Len(old) + Len(part)
      /\ \A i \in 1 .. Len(old) + Len(part) : (old \o part)[i] = IF i <= Len(old) THEN old[i] ELSE part[i - Len(old)]
  BY <1>3, ConcatProperties
<1>6. Len(old \o part) = b BY <1>1, <1>4, <1>5 DEF a
<1>7. \A i \in 1 .. b : (old \o part)[i] = new[i]
  <2> SUFFICES ASSUME NEW i \in 1 .. b PROVE (old \o part)[i] = new[i] OBVIOUS
  <2>0. Len(old) + Len(part) = b /\ Len(old) = a BY <1>1, <1>4 DEF a
  <2>1. (old \o part)[i] = IF i <= a THEN old[i] ELSE part[i - a] BY <1>5, <2>0
  <2>2. CASE i <= a BY <1>1, <2>0, <2>1, <2>2
  <2>3. CASE ~(i <= a) BY <1>1, <1>4, <2>1, <2>3
  <2> QED BY <2>2, <2>3
<1>8. old \o part = new BY <1>1, <1>5, <1>6, <1>7, SeqEqual DEF b
<1>9. \A k \in DOMAIN part : k + a \in DOMAIN new /\ part[k] = new[k + a] BY <1>1, <1>3, <1>4
<1> QED BY <1>3, <1>8, <1>9 DEF a, b, part

LEMMA DeliverToDelivers ==
  ASSUME Inv, NEW i \in DOMAIN rt, NEW e \in Epochs, NEW p \in Planes, NEW pkts \in Seq(SentBy(rt)),
         DeliverTo(i, e, p, pkts)
  PROVE  Delivers(i, e, p, pkts)
<1> DEFINE new == Fed(rt, i, pkts)
           P == SentBy(rt)
           old == rt[i].got
           more == new[i].got
           part == SubSeq(more, Len(old) + 1, Len(more))
           u == upper[p][e]
<1>1. RuntimesOK(rt, E0) /\ i \in DOMAIN rt /\ pkts \in Seq(P) BY DEF Inv, RoomTypes
<1>2. /\ DOMAIN new = DOMAIN rt
      /\ new[i].got = IF rt[i].open THEN Received(rt[i].got, pkts) ELSE rt[i].got
      /\ new[i].got \in Seq(SentBy(rt)) /\ Len(rt[i].got) <= Len(new[i].got)
  BY ONLY <1>1, InputOK
<1>3. rt' = new /\ new[i] = Input(rt[i], pkts) BY <1>1 DEF DeliverTo, Fed
<1>4. Takes(i, pkts) BY <1>3, FeedTraffic
<1>5. old \in Seq(P) /\ more \in Seq(P) /\ Len(old) <= Len(more) BY <1>1, <1>2, RuntimeFields
<1>6. (more = old \/ more = Received(old, pkts)) /\ rt'[i].got = more BY <1>2, <1>3
<1>7. upper' = [upper EXCEPT ![p][e] = u \o part] BY <1>3 DEF DeliverTo
<1>8. upper \in [Planes -> [Epochs -> Seq(P)]] /\ u \in Seq(P) BY DEF Inv, ServerTypes
<1> HIDE DEF new, old, more, P
<1>9. \A k \in 1 .. Len(old) : more[k] = old[k]
  <2>1. CASE more = Received(old, pkts) BY <1>1, <1>5, <2>1, ReceivedExtends
  <2> QED BY <1>6, <2>1
<1>10. /\ part \in Seq(P) /\ old \o part = more
       /\ \A k \in DOMAIN part : k + Len(old) \in DOMAIN more /\ part[k] = more[k + Len(old)]
  BY ONLY <1>5, <1>9, WithItsRest
<1> HIDE DEF part, u
<1>11. /\ upper'[p][e] = u \o part
       /\ \A q \in Planes, x \in Epochs : (q # p \/ x # e) => upper'[q][x] = upper[q][x]
  BY <1>7, <1>8
<1>12. u = old => upper'[p][e] = more BY <1>10, <1>11
<1>13. \A k \in DOMAIN part : \E j \in DOMAIN pkts : part[k] = pkts[j]
  <2> SUFFICES ASSUME NEW k \in DOMAIN part PROVE \E j \in DOMAIN pkts : part[k] = pkts[j] OBVIOUS
  <2>1. /\ k + Len(old) \in 1 .. Len(more) /\ part[k] = more[k + Len(old)] /\ k \in Nat /\ k > 0 /\ Len(old) \in Nat
    BY <1>5, <1>10
  <2>2. k + Len(old) > Len(old) BY ONLY <2>1, SMT
  <2>3. CASE more = Received(old, pkts) BY <1>1, <1>5, <2>1, <2>2, <2>3, ReceivedExtends
  <2>4. CASE more = old
    <3>1. k + Len(old) \in 1 .. Len(old) BY <2>1, <2>4
    <3> QED BY ONLY <2>1, <2>2, <3>1, SMT
  <2> QED BY <1>6, <2>3, <2>4
<1>14. ASSUME NEW n \in DOMAIN upper'[p][e]
       PROVE  \/ n \in DOMAIN u /\ upper'[p][e][n] = u[n]
              \/ \E k \in DOMAIN pkts : upper'[p][e][n] = pkts[k]
  <2>1. /\ u \o part \in Seq(P) /\ Len(u \o part) = Len(u) + Len(part)
        /\ \A j \in 1 .. Len(u) + Len(part) : (u \o part)[j] = IF j <= Len(u) THEN u[j] ELSE part[j - Len(u)]
    BY <1>8, <1>10, ConcatProperties
  <2>2. n \in 1 .. Len(u) + Len(part) BY <1>11, <2>1
  <2>3. Len(u) \in Nat /\ Len(part) \in Nat /\ DOMAIN u = 1 .. Len(u) /\ DOMAIN part = 1 .. Len(part)
    BY <1>8, <1>10
  <2>4. CASE n <= Len(u) BY <1>11, <2>1, <2>2, <2>3, <2>4
  <2>5. CASE ~(n <= Len(u))
    <3>1. n - Len(u) \in DOMAIN part BY <2>2, <2>3, <2>5
    <3>2. upper'[p][e][n] = part[n - Len(u)] BY <1>11, <2>1, <2>2, <2>5
    <3> QED BY <1>13, <3>1, <3>2
  <2> QED BY <2>4, <2>5
<1> QED BY <1>4, <1>6, <1>11, <1>12, <1>14 DEF Delivers, old, u

\* A reader hands its packets to a runtime of the session it holds.
LEMMA HandsOver ==
  ASSUME Inv, Ground, NEW w \in Readers, NEW i \in DOMAIN rt, NEW p \in Planes, i[1] = Server,
         reader[w].pc = p, rt[i].plane = p, rt[i].dst = reader[w].src,
         DeliverTo(i, reader[w].src, p, reader[w].pkts)
  PROVE  /\ reader[w].src \in Epochs /\ reader[w].pkts \in Seq(SentBy(rt)) /\ reader[w].plane = p
         /\ Delivers(i, reader[w].src, p, reader[w].pkts) /\ Regular
         /\ \A k \in DOMAIN reader[w].pkts : FromClient(reader[w].pkts[k], p, reader[w].src)
<1> DEFINE r == reader[w]
<1>1. r \in ReaderType(E0, SentBy(rt)) /\ r.pkts \in Seq(SentBy(rt)) /\ r.src \in E0
  BY DEF Inv, ServerTypes, ReaderType
<1>2. /\ \A k \in DOMAIN r.pkts : FromClient(r.pkts[k], r.plane, r.src)
      /\ r.plane = p /\ r.src # 0
  BY DEF Ground, HoldInv, HoldsOK, Planes
<1>3. r.src \in Epochs BY <1>1, <1>2, DrawnFacts DEF E0, Epochs
<1>4. Delivers(i, r.src, p, r.pkts) BY <1>1, <1>3, DeliverToDelivers
<1>5. Takes(i, r.pkts) BY <1>4 DEF Delivers
<1> DEFINE pkts == r.pkts
<1>6. \A k \in DOMAIN pkts : IF i[1] = Server THEN FromClient(pkts[k], rt[i].plane, rt[i].dst)
              ELSE pkts[k][1][1] = Server /\ rt[pkts[k][1]].plane = rt[i].plane
  BY <1>2
<1>7. pkts \in Seq(SentBy(rt)) /\ Takes(i, pkts) BY <1>1, <1>5
<1> HIDE DEF pkts
<1>8. Regular BY ONLY Inv, <1>6, <1>7, TakeIsRegular
<1> QED BY <1>1, <1>2, <1>3, <1>4, <1>8

LEMMA ReaderGround ==
  ASSUME Inv, Ground, NEW w \in Readers, reader' = [reader EXCEPT ![w] = IdleReader], Regular,
         UNCHANGED <<epoch, drawn, room, sess>>, UNCHANGED clientVars
  PROVE  GroundKept
<1>1. reader'[w] = IdleReader /\ \A v \in Readers : v # w => reader'[v] = reader[v] BY DEF Inv, ServerTypes
<1>2. ASSUME NEW v \in Readers PROVE HoldStep(v) /\ HeldFor(reader[v])'
  <2>1. CASE v = w BY <1>1, <2>1, IdleHolds DEF HoldStep, HeldFor
  <2>2. CASE v # w BY <1>1, <2>2 DEF HoldStep, HeldFor, Ground, HoldInv
  <2> QED BY <2>1, <2>2
<1>3. (\A s \in DOMAIN sess' : AddressStep(s)) /\ \A f \in room' : FrameStep(f) BY DEF AddressStep, FrameStep
<1> QED BY <1>2, <1>3, ServerGround DEF GroundKept

LEMMA DeliverDataFacts ==
  ASSUME Inv, Ground, NEW w \in Readers, DeliverData(w)
  PROVE  LET r == reader[w]
             i == sess[r.sess].data
         IN  /\ r.sess \in DOMAIN sess /\ (sess[r.sess].closed \/ InTable(r.sess)) /\ sess[r.sess].epoch = r.src
             /\ i \in DOMAIN rt /\ i[1] = Server /\ rt[i].plane = "data" /\ rt[i].dst = r.src
             /\ r.src \in Epochs /\ r.pkts \in Seq(SentBy(rt)) /\ r.plane = "data"
             /\ Delivers(i, r.src, "data", r.pkts) /\ Regular
             /\ \A k \in DOMAIN r.pkts : FromClient(r.pkts[k], "data", r.src)
<1> DEFINE r == reader[w]
           i == sess[r.sess].data
<1>1. /\ r.pc = "data" /\ DeliverTo(i, r.src, "data", r.pkts) BY DEF DeliverData
<1>2. r.sess \in DOMAIN sess /\ (sess[r.sess].closed \/ InTable(r.sess)) /\ sess[r.sess].epoch = r.src
  BY <1>1 DEF Inv, ReaderInv, Ground, HoldInv, HeldFor
<1>3. i \in DOMAIN rt /\ i[1] = Server /\ rt[i].plane = "data" /\ rt[i].dst = r.src
  BY <1>2 DEF Inv, SessionInv, Ground, AddressInv, SessOK
<1>4. "data" \in Planes BY DEF Planes
<1> HIDE DEF i
<1>5. /\ r.src \in Epochs /\ r.pkts \in Seq(SentBy(rt)) /\ r.plane = "data"
      /\ Delivers(i, r.src, "data", r.pkts) /\ Regular
      /\ \A k \in DOMAIN r.pkts : FromClient(r.pkts[k], "data", r.src)
  BY <1>1, <1>3, <1>4, HandsOver
<1> QED BY <1>2, <1>3, <1>5 DEF i

LEMMA DeliverDataGround ==
  ASSUME Inv, Ground, NEW w \in Readers, DeliverData(w) PROVE GroundKept
<1>1. Regular BY DeliverDataFacts
<1> QED BY <1>1, ReaderGround DEF DeliverData

LEMMA PeerControlFacts ==
  ASSUME Inv, Ground, NEW w \in Readers, PeerControlFor(w)
  PROVE  LET r == reader[w]
             i == sess[r.sess].control
         IN  /\ r.sess \in DOMAIN sess /\ (sess[r.sess].closed \/ InTable(r.sess)) /\ sess[r.sess].epoch = r.src
             /\ r.src \in 1 .. drawn /\ r.src # epoch[Server] /\ r.src \in Epochs
             /\ \/ Opens(r.sess) /\ UNCHANGED <<reader, upper>>
                \/ /\ i # None /\ i \in DOMAIN rt /\ i[1] = Server /\ rt[i].plane = "control" /\ rt[i].dst = r.src
                   /\ r.pkts \in Seq(SentBy(rt)) /\ r.plane = "control"
                   /\ Delivers(i, r.src, "control", r.pkts) /\ Regular
                   /\ \A k \in DOMAIN r.pkts : FromClient(r.pkts[k], "control", r.src)
                   /\ reader' = [reader EXCEPT ![w] = IdleReader] /\ UNCHANGED sess
<1> DEFINE r == reader[w]
           s == r.sess
           i == sess[s].control
           d == Fresh(Server)
<1>1. r.pc = "control" BY DEF PeerControlFor
<1>2. s \in DOMAIN sess /\ (sess[s].closed \/ InTable(s)) /\ sess[s].epoch = r.src
  BY <1>1 DEF Inv, ReaderInv, Ground, HoldInv, HeldFor
<1>3. r.src \in 1 .. drawn /\ r.src # epoch[Server] BY <1>2 DEF Ground, AddressInv, SessOK
<1>4. r.src \in Epochs BY <1>3, DrawnFacts DEF Epochs
<1>5. "control" \in Planes BY DEF Planes
<1>6. CASE /\ i # None /\ DeliverTo(i, r.src, "control", r.pkts)
           /\ reader' = [reader EXCEPT ![w] = IdleReader] /\ UNCHANGED sess
  <2>1. i \in DOMAIN rt /\ i[1] = Server /\ rt[i].plane = "control" /\ rt[i].dst = r.src
    BY <1>2, <1>6 DEF Inv, SessionInv, Ground, AddressInv, SessOK
  <2> HIDE DEF i
  <2>2. /\ r.src \in Epochs /\ r.pkts \in Seq(SentBy(rt)) /\ r.plane = "control"
        /\ Delivers(i, r.src, "control", r.pkts) /\ Regular
        /\ \A k \in DOMAIN r.pkts : FromClient(r.pkts[k], "control", r.src)
    BY <1>1, <1>5, <1>6, <2>1, HandsOver
  <2> QED BY <1>2, <1>3, <1>6, <2>1, <2>2 DEF i
<1>7. CASE /\ i = None /\ rt' = Started(rt, d, Runtime("control", epoch[Server], sess[s].epoch))
           /\ sess' = [sess EXCEPT ![s].control = d]
           /\ UNCHANGED <<reader, upper>>
  <2>1. sess \in Seq(SessionType(E0)) /\ sess[s] \in SessionType(E0) /\ sess[s].epoch \in E0
    <3>1. sess \in Seq(SessionType(E0)) BY DEF Inv, ServerTypes
    <3>2. sess[s] \in SessionType(E0) BY <1>2, <3>1
    <3> QED BY <3>1, <3>2 DEF SessionType
  <2>2. Shut(rt, {}) = rt BY DEF Inv, RoomTypes, RuntimesOK, Shut
  <2>3. Launched({}, "control", sess[s].epoch) BY <1>5, <1>7, <2>1, <2>2, LaunchFacts
  <2>4. Begins(d, "control", epoch[Server], sess[s].epoch) BY <2>3, LaunchTraffic
  <2>5. d \in Ids /\ d # None /\ d[1] = Server BY <2>3 DEF Launched, Ids, None
  <2>6. sess[s].control = None BY <1>7
  <2> HIDE DEF d, s, i
  <2>7. /\ DOMAIN sess' = DOMAIN sess /\ \A t \in DOMAIN sess : t # s => sess'[t] = sess[t]
        /\ sess'[s].epoch = sess[s].epoch /\ sess'[s].data = sess[s].data /\ sess'[s].control = d
        /\ sess'[s].closed = sess[s].closed
    <3> DEFINE x == [sess[s] EXCEPT !.control = d]
    <3>1. sess' = [sess EXCEPT ![s] = x] BY <1>2, <1>7 DEF d, s
    <3>2. x.epoch = sess[s].epoch /\ x.data = sess[s].data /\ x.control = d /\ x.closed = sess[s].closed
      BY <2>1, <2>5 DEF SessionType
    <3> HIDE DEF x
    <3> QED BY <1>2, <2>1, <3>1, <3>2
  <2>8. Opens(s) BY <2>4, <2>5, <2>6, <2>7 DEF Opens, d
  <2> QED BY <1>2, <1>3, <1>4, <1>7, <2>8 DEF s
<1> QED BY <1>6, <1>7 DEF PeerControlFor

LEMMA PeerControlGround ==
  ASSUME Inv, Ground, NEW w \in Readers, PeerControlFor(w) PROVE GroundKept
<1> DEFINE r == reader[w]
           s == r.sess
<1>1. UNCHANGED <<epoch, drawn, room>> /\ UNCHANGED clientVars BY DEF PeerControlFor
<1>2. /\ s \in DOMAIN sess /\ sess[s].epoch = r.src /\ r.src \in 1 .. drawn /\ r.src # epoch[Server]
      /\ \/ Opens(s) /\ UNCHANGED <<reader, upper>>
         \/ Regular /\ reader' = [reader EXCEPT ![w] = IdleReader] /\ UNCHANGED sess
  BY PeerControlFacts
<1>3. CASE Regular /\ reader' = [reader EXCEPT ![w] = IdleReader] /\ UNCHANGED sess BY <1>1, <1>3, ReaderGround
<1>4. CASE Opens(s) /\ UNCHANGED <<reader, upper>>
  <2> DEFINE d == Fresh(Server)
             e == sess[s].epoch
  <2>1. Begins(d, "control", epoch[Server], e) /\ d[1] = Server /\ e \in 1 .. drawn /\ e # epoch[Server]
    BY <1>2, <1>4 DEF Opens
  <2>2. Regular BY <2>1, BeginIsRegular
  <2>3. rt'[d].plane = "control" /\ rt'[d].dst = e BY <2>1 DEF Begins
  <2> HIDE DEF s
  <2>4. \A t \in DOMAIN sess' : AddressStep(t) BY <1>2, <1>4, <2>3 DEF AddressStep, Opens
  <2>5. \A t \in DOMAIN sess : sess'[t].epoch = sess[t].epoch BY <1>4 DEF Opens
  <2>6. ASSUME NEW v \in Readers PROVE HoldStep(v) /\ HeldFor(reader[v])'
    BY <1>4, <2>5 DEF Inv, ReaderInv, HoldStep, HeldFor, Ground, HoldInv
  <2>7. \A f \in room' : FrameStep(f) BY <1>1 DEF FrameStep
  <2> QED BY <1>1, <2>2, <2>4, <2>6, <2>7, ServerGround DEF GroundKept
<1> QED BY <1>2, <1>3, <1>4

LEMMA AnswersFacts ==
  ASSUME Inv, NEW e, Has(e), NEW i \in DOMAIN rt, i[1] = Server, rt[i].dst = e, NEW x \in E0, rt' = SendVia(rt, i, x),
         room' = room \cup {FrameOf(rt[i], <<<<i, Len(rt[i].msgs) + 1>>>>)}, peers' = Touch(peers, Get(e))
  PROVE  \E f : Answers(e, i, x, f)
<1> DEFINE f == FrameOf(rt[i], <<<<i, Len(rt[i].msgs) + 1>>>>)
<1>1. Sends(i, x) BY SendTraffic
<1>2. /\ f.plane = rt[i].plane /\ f.src = rt[i].src /\ f.dst = rt[i].dst
      /\ DOMAIN f.pkts = {1} /\ f.pkts[1][1] = i
  BY FrameOfFacts
<1>3. Refreshed BY GetOK DEF Inv, Refreshed
<1>4. \A s : InTable(s)' <=> InTable(s) BY <1>3, SameTable
<1>5. room' = room \cup {f} OBVIOUS
<1> HIDE DEF f
<1>6. Answers(e, i, x, f) BY <1>1, <1>2, <1>4, <1>5 DEF Answers
<1> QED BY <1>6

LEMMA AnswersGround ==
  ASSUME Inv, Ground, NEW e, NEW i, NEW x, NEW f, Answers(e, i, x, f), rt[i].plane = "control" => x = epoch[Server],
         UNCHANGED <<epoch, drawn, sess, reader>>, UNCHANGED clientVars
  PROVE  GroundKept
<1>1. Regular BY SendIsRegular DEF Answers
<1>2. FrameStep(f)
  <2>1. ServerKnows(rt[i].src) BY DEF ServerKnows, Answers
  <2>2. f.src \in 1 .. drawn BY <2>1 DEF Ground, KnownInv, Answers
  <2>3. FrameOK(f) BY <2>2 DEF FrameOK, PacketOK, Answers
  <2> QED BY <2>3 DEF FrameStep, Answers
<1>3. \A g \in room' : FrameStep(g) BY <1>2 DEF FrameStep, Answers
<1>4. \A w \in Readers : HoldStep(w) /\ HeldFor(reader[w])' BY DEF HoldStep, HeldFor, Ground, HoldInv
<1>5. \A s \in DOMAIN sess' : AddressStep(s) BY DEF AddressStep
<1> QED BY <1>1, <1>3, <1>4, <1>5, ServerGround DEF GroundKept

LEMMA WelcomeFacts ==
  ASSUME Inv, Ground, NEW e, Welcome(e)
  PROVE  /\ Has(e) /\ Get(e) \in DOMAIN sess /\ InTable(Get(e)) /\ sess[Get(e)].epoch = e
         /\ sess[Get(e)].control # None /\ rt[sess[Get(e)].control].plane = "control"
         /\ \E f : Answers(e, sess[Get(e)].control, epoch[Server], f)
<1> DEFINE s == Get(e)
           i == sess[s].control
<1>1. Has(e) /\ i # None BY DEF Welcome
<1>2. s \in DOMAIN sess /\ InTable(s) /\ sess[s].epoch = e BY <1>1, GetOK DEF Inv
<1>3. i \in DOMAIN rt /\ i[1] = Server /\ rt[i].plane = "control" /\ rt[i].dst = e
  BY <1>1, <1>2 DEF Inv, SessionInv, Ground, AddressInv, SessOK
<1>4. epoch[Server] \in E0 BY HeldEpochs DEF Inv
<1>5. /\ rt' = SendVia(rt, i, epoch[Server]) /\ peers' = Touch(peers, s)
      /\ room' = room \cup {FrameOf(rt[i], <<<<i, Len(rt[i].msgs) + 1>>>>)}
  BY DEF Welcome
<1> HIDE DEF i
<1>6. \E f : Answers(e, i, epoch[Server], f) BY <1>1, <1>3, <1>4, <1>5, AnswersFacts
<1> QED BY <1>1, <1>2, <1>3, <1>6 DEF i

LEMMA SendToFacts ==
  ASSUME Inv, Ground, NEW e, SendTo(e)
  PROVE  /\ Has(e) /\ Get(e) \in DOMAIN sess /\ InTable(Get(e)) /\ sess[Get(e)].epoch = e
         /\ rt[sess[Get(e)].data].plane = "data"
         /\ \E f : Answers(e, sess[Get(e)].data, 0, f)
<1> DEFINE s == Get(e)
           i == sess[s].data
<1>1. Has(e) BY DEF SendTo
<1>2. s \in DOMAIN sess /\ InTable(s) /\ sess[s].epoch = e BY <1>1, GetOK DEF Inv
<1>3. i \in DOMAIN rt /\ i[1] = Server /\ rt[i].plane = "data" /\ rt[i].dst = e
  BY <1>1, <1>2 DEF Inv, SessionInv, Ground, AddressInv, SessOK
<1>4. 0 \in E0 BY SceneFacts DEF Inv, RoomTypes, E0
<1>5. /\ rt' = SendVia(rt, i, 0) /\ peers' = Touch(peers, s)
      /\ room' = room \cup {FrameOf(rt[i], <<<<i, Len(rt[i].msgs) + 1>>>>)}
  BY DEF SendTo, PeerWriterPump
<1> HIDE DEF i
<1>6. \E f : Answers(e, i, 0, f) BY <1>1, <1>3, <1>4, <1>5, AnswersFacts
<1> QED BY <1>1, <1>2, <1>3, <1>6 DEF i

LEMMA AnswerGround ==
  ASSUME Inv, Ground, NEW e, Welcome(e) \/ SendTo(e) PROVE GroundKept
<1>1. CASE Welcome(e)
  <2>1. UNCHANGED <<epoch, drawn, sess, reader>> /\ UNCHANGED clientVars BY <1>1 DEF Welcome
  <2>2. PICK f : Answers(e, sess[Get(e)].control, epoch[Server], f) BY <1>1, WelcomeFacts
  <2> QED BY <2>1, <2>2, AnswersGround
<1>2. CASE SendTo(e)
  <2>1. UNCHANGED <<epoch, drawn, sess, reader>> /\ UNCHANGED clientVars BY <1>2 DEF SendTo
  <2>2. PICK f : rt[sess[Get(e)].data].plane = "data" /\ Answers(e, sess[Get(e)].data, 0, f) BY <1>2, SendToFacts
  <2> QED BY <2>1, <2>2, AnswersGround
<1> QED BY <1>1, <1>2

\* Sessions leave the table: swept, or with the server.
LEMMA LeaveGround ==
  ASSUME Inv, Ground, Sweep \/ ServerCloses PROVE GroundKept
<1>1. /\ UNCHANGED <<epoch, drawn, reader>> /\ UNCHANGED clientVars /\ room' \subseteq room
  BY DEF Sweep, ServerCloses
<1>2. NoTraffic /\ DOMAIN sess' = DOMAIN sess /\ \E D : Leaves(D) BY SweepFacts, CloseFacts
<1>3. PICK D : Leaves(D) BY <1>2
<1>4. \A s \in DOMAIN sess' : AddressStep(s) BY <1>2, <1>3, LeavesAddresses
<1>5. \A w \in Readers : HoldStep(w) /\ HeldFor(reader[w])'
  <2> SUFFICES ASSUME NEW w \in Readers PROVE HoldStep(w) /\ HeldFor(reader[w])' OBVIOUS
  <2>1. reader[w].pc \in {"data", "control"} => reader[w].sess \in DOMAIN sess BY DEF Inv, ReaderInv
  <2>2. \A t \in DOMAIN sess : sess'[t].epoch = sess[t].epoch BY <1>3 DEF Leaves
  <2> QED BY <1>1, <2>1, <2>2 DEF HoldStep, HeldFor, Ground, HoldInv
<1>6. \A f \in room' : FrameStep(f) BY <1>1 DEF FrameStep
<1>7. Regular BY <1>2, SameIsRegular
<1> QED BY <1>1, <1>4, <1>5, <1>6, <1>7, ServerGround DEF GroundKept

------------------------------------------------------------------------------
(* The steps that draw an epoch.                                            *)

\* Nobody knows the epoch e before node n draws it, and n alone knows it then.
LEMMA DrawKnown ==
  ASSUME Inv, KnownInv, NoNews, NEW e, e = drawn + 1, drawn' = drawn + 1, scene' = scene, NEW n,
         ServerKnows(e)' => n = Server, \A c \in scene.clients : ClientKnows(c, e)' => n = c
  PROVE  KnownInv'
<1>1. drawn \in Nat /\ drawn' \in Nat /\ e = drawn + 1 /\ drawn' = drawn + 1 BY DrawnFacts
<1>2. e \in 1 .. drawn' /\ e \notin 1 .. drawn /\ 1 .. drawn \subseteq 1 .. drawn' BY ONLY <1>1, SMT
<1>3. scene.clients \subseteq Clients /\ Server \notin Clients BY SceneFacts, ServerIsNoClient DEF Inv, RoomTypes
<1>4. ASSUME NEW x, ServerKnows(x)' PROVE x \in 1 .. drawn'
  <2>1. CASE x = e BY <1>2, <2>1
  <2>2. CASE x # e BY <1>2, <1>4, <2>2 DEF NoNews, KnownInv
  <2> QED BY <2>1, <2>2
<1>5. ASSUME NEW c \in scene.clients, NEW x, ClientKnows(c, x)'
      PROVE  /\ x \in 1 .. drawn' /\ ~ServerKnows(x)'
             /\ \A d \in scene.clients : ClientKnows(d, x)' => d = c
  <2>1. CASE x = e BY <1>2, <1>3, <1>5, <2>1
  <2>2. CASE x # e BY <1>2, <1>3, <1>5, <2>2 DEF NoNews, KnownInv
  <2> QED BY <2>1, <2>2
<1> QED BY <1>4, <1>5 DEF KnownInv

LEMMA DrawGround ==
  ASSUME Inv, Ground, scene' = scene, NoTraffic, drawn' = drawn + 1, NoNews, KnownInv',
         epoch'[Server] = epoch[Server] \/ epoch'[Server] = drawn + 1,
         \A f \in room' : f \in room,
         UNCHANGED <<out, sess>>,
         \A w \in Readers : HoldStep(w) /\ HeldFor(reader[w])'
  PROVE  GroundKept
<1>1. drawn \in Nat /\ drawn' \in Nat /\ drawn <= drawn' BY DrawnFacts
<1>2. Regular BY SameIsRegular
<1>3. Steady BY <1>1, <1>2 DEF Steady, Regular
<1> USE <1>3 DEF Ground
<1>4. FrameInv' BY FramesStay DEF FrameStep
<1>5. OutInv' BY OutStays DEF OutStep
<1>6. HoldInv' BY HoldsStay
<1>7. AddressInv' BY AddressesStay DEF AddressStep
<1>8. OriginInv' BY <1>2, OriginsStay DEF Regular
<1> QED BY <1>3, <1>4, <1>5, <1>6, <1>7, <1>8 DEF Ground, GroundKept

LEMMA Unknown ==
  ASSUME Inv, KnownInv PROVE ~ServerKnows(drawn + 1) /\ \A c \in scene.clients : ~ClientKnows(c, drawn + 1)
<1>1. drawn + 1 \notin 1 .. drawn BY DrawnFacts
<1> QED BY <1>1 DEF KnownInv

\* A node in the room knows nothing but what it had.
LEMMA RotateFacts ==
  ASSUME Inv, NEW c \in Clients, NEW g \in Goroutines, RotateEpochHeader(c, g)
  PROVE  /\ c \in scene.clients /\ go[c][g].pc = "restart" /\ scene' = scene
         /\ drawn' = drawn + 1 /\ epoch'[c] = drawn + 1 /\ \A m \in Nodes : m # c => epoch'[m] = epoch[m]
         /\ ~confirmed'[c] /\ \A d \in Clients : d # c => confirmed'[d] = confirmed[d] /\ peerEpoch'[d] = peerEpoch[d]
         /\ go'[c][g].pc = "rotated" /\ go'[c][g].hdr = drawn + 1 /\ Moved(c, g)
         /\ \A f \in room' : f \in room
<1>1. /\ go[c][g].pc = "restart" /\ drawn < scene.epochs
      /\ confirmed' = [confirmed EXCEPT ![c] = FALSE]
      /\ peerEpoch' = [peerEpoch EXCEPT ![c] = 0]
      /\ drawn' = drawn + 1
      /\ epoch' = [epoch EXCEPT ![c] = drawn + 1]
      /\ go' = [go EXCEPT ![c][g] = [pc |-> "rotated", hdr |-> drawn + 1]]
      /\ room' = {f \in room : f.dst # epoch[c]} /\ scene' = scene
  BY DEF RotateEpochHeader, At, serverVars
<1>2. c \in scene.clients /\ c \in Nodes BY <1>1, ActiveClient DEF Inv, Nodes
<1>3. epoch'[c] = drawn + 1 /\ \A m \in Nodes : m # c => epoch'[m] = epoch[m] BY <1>1, <1>2, NewEpoch DEF Inv
<1>4. /\ confirmed \in [Clients -> BOOLEAN] /\ peerEpoch \in [Clients -> E0]
      /\ go \in [Clients -> [Goroutines -> [pc : PCs, hdr : Nat]]]
  BY DEF Inv, ClientTypes
<1>5. ~confirmed'[c] /\ \A d \in Clients : d # c => confirmed'[d] = confirmed[d] /\ peerEpoch'[d] = peerEpoch[d]
  BY <1>1, <1>4
<1>6. go'[c][g].pc = "rotated" /\ go'[c][g].hdr = drawn + 1 /\ Moved(c, g) BY <1>1, <1>4 DEF Moved
<1>7. \A f \in room' : f \in room BY <1>1
<1> QED BY <1>1, <1>2, <1>3, <1>5, <1>6, <1>7

LEMMA RotateGround ==
  ASSUME Inv, Ground, NEW c \in Clients, NEW g \in Goroutines, RotateEpochHeader(c, g) PROVE GroundKept
<1>1. /\ UNCHANGED <<rt, out>> /\ UNCHANGED serverVars BY DEF RotateEpochHeader
<1>2. /\ c \in scene.clients /\ go[c][g].pc = "restart" /\ scene' = scene
      /\ drawn' = drawn + 1 /\ epoch'[c] = drawn + 1 /\ \A m \in Nodes : m # c => epoch'[m] = epoch[m]
      /\ ~confirmed'[c] /\ \A d \in Clients : d # c => confirmed'[d] = confirmed[d] /\ peerEpoch'[d] = peerEpoch[d]
      /\ go'[c][g].pc = "rotated" /\ go'[c][g].hdr = drawn + 1 /\ Moved(c, g)
      /\ \A f \in room' : f \in room
  BY RotateFacts
<1>3. NoTraffic BY <1>1 DEF NoTraffic, SameTraffic
<1>4. epoch'[Server] = epoch[Server] /\ Server \in Nodes /\ \A d \in Clients : d # Server /\ d \in Nodes
  BY <1>2, ServerIsNoClient DEF Nodes
<1>5. ASSUME NEW e, ServerKnows(e)' PROVE ServerKnows(e)
  <2>1. CASE epoch'[Server] = e BY <1>4, <2>1 DEF ServerKnows
  <2>2. CASE \E i \in DOMAIN rt : i[1] = Server /\ rt[i].src = e BY <2>2 DEF ServerKnows
  <2>3. CASE \E i \in DOMAIN rt : i[1] = Server /\ rt[i].plane = "control" /\ \E n \in DOMAIN rt[i].msgs : rt[i].msgs[n] = e
    BY <2>3 DEF ServerKnows
  <2>4. CASE \E d \in Clients : confirmed'[d] /\ peerEpoch'[d] = e BY <1>2, <2>4 DEF ServerKnows
  <2> QED BY <1>1, <1>5, <2>1, <2>2, <2>3, <2>4 DEF ServerKnows
<1>6. ASSUME NEW d \in Clients, NEW e, ClientKnows(d, e)', d # c \/ e # drawn + 1 PROVE ClientKnows(d, e)
  <2>1. CASE epoch'[d] = e BY <1>2, <1>4, <1>6, <2>1 DEF ClientKnows
  <2>2. CASE \E h \in Goroutines : go'[d][h].pc \in {"rotated", "header"} /\ go'[d][h].hdr = e
    BY <1>2, <1>6, <2>2 DEF ClientKnows, Moved
  <2>3. CASE \E i \in DOMAIN rt : i[1] = d /\ rt[i].src = e BY <2>3 DEF ClientKnows
  <2>4. CASE \E k \in DOMAIN out[d] : out[d][k].src = e BY <2>4 DEF ClientKnows
  <2> QED BY <1>1, <1>6, <2>1, <2>2, <2>3, <2>4 DEF ClientKnows
<1>7. NoNews BY <1>2, <1>5, <1>6, DrawnFacts DEF NoNews
<1> DEFINE x == drawn + 1
<1>8. /\ (ServerKnows(x) => FALSE)
      /\ \A d \in Clients : d \in scene.clients => ~ClientKnows(d, x)
  BY Unknown DEF Ground
<1>9. ASSUME NEW e, e = drawn + 1 PROVE KnownInv'
  <2>1. ServerKnows(e)' => c = Server BY <1>5, <1>8, <1>9
  <2>2. ASSUME NEW d \in scene.clients, ClientKnows(d, e)', d # c PROVE FALSE
    BY <1>6, <1>8, <1>9, <2>2, SceneFacts DEF Inv, RoomTypes
  <2> QED BY <1>2, <1>7, <1>9, <2>1, <2>2, DrawKnown DEF Ground
<1>10. KnownInv' BY <1>9
<1>11. \A w \in Readers : HoldStep(w) /\ HeldFor(reader[w])'
  BY <1>1 DEF serverVars, HoldStep, HeldFor, Ground, HoldInv
<1>12. UNCHANGED <<out, sess>> BY <1>1 DEF serverVars
<1> QED BY <1>2, <1>3, <1>4, <1>7, <1>10, <1>11, <1>12, DrawGround

\* The server draws an epoch, and its readers keep what they hold or start anew.
LEMMA ServerDraws ==
  ASSUME Inv, Ground, ServerReconnects \/ ServerRestarts
  PROVE  GroundKept /\ NoTraffic /\ drawn' = drawn + 1 /\ epoch'[Server] = drawn + 1
         /\ (\A c \in Clients : epoch'[c] = epoch[c]) /\ \A f \in room' : f \in room
<1>1. /\ drawn < scene.epochs /\ drawn' = drawn + 1 /\ epoch' = [epoch EXCEPT ![Server] = drawn + 1]
      /\ UNCHANGED clientVars /\ UNCHANGED sess
  BY DEF ServerReconnects, ServerRestarts, serverVars
<1>2. Server \in Nodes /\ \A d \in Clients : d # Server /\ d \in Nodes BY ServerIsNoClient DEF Nodes
<1>3. epoch'[Server] = drawn + 1 /\ \A c \in Clients : epoch'[c] = epoch[c] BY <1>1, <1>2, NewEpoch DEF Inv
<1>4. NoTraffic
  <2>1. CASE ServerReconnects BY <2>1 DEF ServerReconnects, NoTraffic, SameTraffic
  <2>2. CASE ServerRestarts BY <2>2, RestartTraffic
  <2> QED BY <2>1, <2>2
<1>5. /\ scene' = scene /\ UNCHANGED <<confirmed, peerEpoch, go, out>> BY <1>1 DEF clientVars
<1>6. \A f \in room' : f \in room BY DEF ServerReconnects, ServerRestarts
<1>7. ASSUME NEW e, ServerKnows(e)', e # drawn + 1 PROVE ServerKnows(e)
  <2>1. CASE epoch'[Server] = e BY <1>3, <1>7, <2>1
  <2>2. CASE \E i \in DOMAIN rt' : i[1] = Server /\ rt'[i].src = e
    BY <1>4, <2>2 DEF ServerKnows, NoTraffic, SameTraffic
  <2>3. CASE \E i \in DOMAIN rt' : i[1] = Server /\ rt'[i].plane = "control" /\ \E n \in DOMAIN rt'[i].msgs : rt'[i].msgs[n] = e
    BY <1>4, <2>3 DEF ServerKnows, NoTraffic, SameTraffic
  <2>4. CASE \E d \in Clients : confirmed'[d] /\ peerEpoch'[d] = e BY <1>5, <2>4 DEF ServerKnows
  <2> QED BY <1>7, <2>1, <2>2, <2>3, <2>4 DEF ServerKnows
<1>8. ASSUME NEW d \in Clients, NEW e, ClientKnows(d, e)' PROVE ClientKnows(d, e)
  <2>1. CASE \E i \in DOMAIN rt' : i[1] = d /\ rt'[i].src = e
    BY <1>4, <2>1 DEF ClientKnows, NoTraffic, SameTraffic
  <2>2. CASE epoch[d] = e BY <2>2 DEF ClientKnows
  <2>3. CASE \E h \in Goroutines : go[d][h].pc \in {"rotated", "header"} /\ go[d][h].hdr = e
    BY <2>3 DEF ClientKnows
  <2>4. CASE \E k \in DOMAIN out[d] : out[d][k].src = e BY <2>4 DEF ClientKnows
  <2> QED BY <1>3, <1>5, <1>8, <2>1, <2>2, <2>3, <2>4 DEF ClientKnows
<1>9. NoNews BY <1>1, <1>7, <1>8, DrawnFacts DEF NoNews
<1>10. \A d \in scene.clients : d \in Clients /\ ~ClientKnows(d, drawn + 1)
  BY Unknown, SceneFacts DEF Ground, Inv, RoomTypes
<1>11. ASSUME NEW e, e = drawn + 1 PROVE KnownInv' BY <1>1, <1>5, <1>8, <1>9, <1>10, <1>11, DrawKnown DEF Ground
<1>12. KnownInv' BY <1>11
<1>13. \A w \in Readers : HoldStep(w) /\ HeldFor(reader[w])'
  <2>1. CASE ServerReconnects BY <2>1 DEF ServerReconnects, serverVars, HoldStep, HeldFor, Ground, HoldInv
  <2>2. CASE ServerRestarts
    <3>1. reader' = Reading BY <2>2 DEF ServerRestarts
    <3> SUFFICES ASSUME NEW w \in Readers PROVE HoldStep(w) /\ HeldFor(reader[w])' OBVIOUS
    <3>2. reader'[w] = IdleReader \/ reader'[w] = [IdleReader EXCEPT !.pc = "ended"] BY <3>1 DEF Reading
    <3> DEFINE z == [IdleReader EXCEPT !.pc = "ended"]
    <3>3. z.pc = "ended" /\ z.src = IdleReader.src /\ z.pkts = IdleReader.pkts /\ z.plane = IdleReader.plane
      BY DEF IdleReader
    <3> HIDE DEF z
    <3>4. HoldsOK(z) /\ DOMAIN z.pkts = {} BY <3>3, IdleHolds DEF HoldsOK
    <3> QED BY <3>2, <3>3, <3>4, IdleHolds DEF HoldStep, HeldFor, z
  <2> QED BY <2>1, <2>2
<1>14. UNCHANGED <<out, sess>> BY <1>1, <1>5
<1>15. GroundKept BY <1>1, <1>3, <1>4, <1>5, <1>6, <1>9, <1>12, <1>13, <1>14, DrawGround
<1> QED BY <1>1, <1>3, <1>4, <1>6, <1>15

LEMMA StutterGround ==
  ASSUME Inv, Ground, UNCHANGED vars PROVE GroundKept
<1>1. /\ UNCHANGED clientVars /\ UNCHANGED <<epoch, drawn, rt, room, sess, reader>> BY DEF vars, clientVars
<1>2. Regular BY <1>1, SameIsRegular DEF NoTraffic, SameTraffic
<1>3. /\ \A f \in room' : FrameStep(f)
      /\ \A w \in Readers : HoldStep(w) /\ HeldFor(reader[w])'
      /\ \A s \in DOMAIN sess' : AddressStep(s)
  BY <1>1 DEF FrameStep, HoldStep, HeldFor, AddressStep, Ground, HoldInv
<1> QED BY <1>1, <1>2, <1>3, ServerGround DEF GroundKept

\* The packets stay where they belong, whatever step is taken.
LEMMA NextGround ==
  ASSUME Inv, Ground, [Next]_vars PROVE GroundKept
<1>1. ASSUME NEW c \in Clients, NEW g \in Goroutines, Restart(c, g) PROVE GroundKept
  BY <1>1, RotateGround, RestartDataGround, HeaderGround, RestartControlGround DEF Restart
<1>2. ASSUME NEW c \in Clients, ClientStep(c) PROVE GroundKept
  BY <1>2, ReconnectGround, SendHelloGround, ConfirmGround, SendGround, QueueGround, DrainGround, KeepaliveGround,
     DrainControlGround, CloseGround, HandleGround, PeerRestartGround
  DEF ClientStep
<1>3. ASSUME NEW w \in Readers, ReaderStep(w) PROVE GroundKept
  BY <1>3, TakeFrameGround, PeerSessionGround, DeliverDataGround, PeerControlGround DEF ReaderStep
<1>4. ASSUME NEW e \in AllEpochs, Welcome(e) \/ SendTo(e) PROVE GroundKept BY <1>4, AnswerGround
<1>5. CASE Sweep \/ ServerReconnects \/ ServerCloses \/ ServerRestarts BY <1>5, LeaveGround, ServerDraws
<1>6. CASE UNCHANGED vars BY <1>6, StutterGround
<1> QED BY <1>1, <1>2, <1>3, <1>4, <1>5, <1>6 DEF Next, ClientStep, ReaderStep

\* At the start every client knows its own epoch, and nothing has been sent.
LEMMA InitFacts ==
  ASSUME Init
  PROVE  /\ \A i \in DOMAIN rt : i[1] \in scene.clients /\ i[1] # Server /\ rt[i].msgs = <<>> /\ rt[i].got = <<>>
                                 /\ rt[i].src = epoch[i[1]] /\ rt[i].dst = 0
         /\ \A c \in scene.clients : \A p \in Planes :
              plane[c][p] \in DOMAIN rt /\ plane[c][p][1] = c /\ rt[plane[c][p]].plane = p
         /\ \A i \in DOMAIN rt : rt[i].plane = "data" => i = plane[i[1]]["data"]
         /\ epoch[Server] = 1 /\ drawn \in Nat /\ 1 \in 1 .. drawn
         /\ \A c \in scene.clients : epoch[c] \in 1 .. drawn /\ epoch[c] # 1
         /\ \A c, d \in scene.clients : epoch[c] = epoch[d] => c = d
         /\ \A c \in Clients : ~confirmed[c] /\ out[c] = <<>>
         /\ \A c \in scene.clients : mu[c] = "session" /\ ~closed[c]
         /\ \A c \in scene.clients : go[c]["provider"].pc = "idle" /\ go[c]["session"].pc = "hello"
         /\ room = {} /\ sess = <<>> /\ peers = <<>> /\ lost = {}
         /\ \A w \in Readers : reader[w].src = 0 /\ reader[w].pkts = <<>> /\ reader[w].pc \in {"idle", "ended"}
         /\ answered = [e \in Epochs |-> 0] /\ upper = [p \in Planes |-> [e \in Epochs |-> <<>>]]
<1>1. scene \in Scenes BY DEF Init
<1> DEFINE n == Cardinality(scene.clients)
<1>2. /\ IsFiniteSet(scene.clients) /\ Server \notin scene.clients /\ scene.clients \subseteq Clients
      /\ scene.epochs \in Nat /\ n \in Nat /\ scene.epochs > n
  BY <1>1, SceneFacts
<1>3. PICK order \in Bijection(scene.clients, 1 .. n) :
        /\ epoch = [m \in Nodes |-> IF m = Server THEN 1 ELSE IF Here(m) THEN order[m] + 1 ELSE 0]
        /\ drawn = n + 1
        /\ rt = [i \in scene.clients \X {1, 2} |->
                    Runtime(IF i[2] = 1 THEN "data" ELSE "control", order[i[1]] + 1, 0)]
  BY DEF Init
<1>4. \A c \in scene.clients : order[c] \in 1 .. n /\ \A d \in scene.clients : order[c] = order[d] => c = d
  BY <1>3 DEF Bijection, Injection, IsInjective
<1> HIDE DEF n
<1>5. /\ plane = [c \in Clients |-> [p \in Planes |-> IF Here(c) THEN <<c, IF p = "data" THEN 1 ELSE 2>> ELSE None]]
      /\ closed = [c \in Clients |-> ~Here(c)]
      /\ confirmed = [c \in Clients |-> FALSE]
      /\ out = [c \in Clients |-> <<>>] /\ room = {}
      /\ sess = <<>> /\ peers = <<>> /\ lost = {} /\ reader = Reading
      /\ go = [c \in Clients |-> [g \in Goroutines |->
                    [pc |-> IF g = "session" /\ Here(c) THEN "hello" ELSE "idle", hdr |-> 0]]]
      /\ mu = [c \in Clients |-> IF Here(c) THEN "session" ELSE "free"]
      /\ answered = [e \in Epochs |-> 0] /\ upper = [p \in Planes |-> [e \in Epochs |-> <<>>]]
  BY DEF Init
<1>6. epoch[Server] = 1 /\ \A c \in scene.clients : epoch[c] = order[c] + 1 BY <1>2, <1>3 DEF Nodes, Here
<1>7. /\ DOMAIN rt = scene.clients \X {1, 2}
      /\ \A i \in DOMAIN rt : rt[i] = Runtime(IF i[2] = 1 THEN "data" ELSE "control", order[i[1]] + 1, 0)
  BY <1>3
<1>8. ASSUME NEW i \in DOMAIN rt
      PROVE  /\ i[1] \in scene.clients /\ i[1] # Server /\ rt[i].msgs = <<>> /\ rt[i].got = <<>>
             /\ rt[i].src = epoch[i[1]] /\ rt[i].dst = 0
             /\ rt[i].plane = "data" => i[2] = 1
             /\ i = <<i[1], i[2]>>
  <2>1. i[1] \in scene.clients /\ i[2] \in {1, 2} /\ i = <<i[1], i[2]>> BY <1>7
  <2>2. rt[i] = Runtime(IF i[2] = 1 THEN "data" ELSE "control", order[i[1]] + 1, 0) BY <1>7
  <2> QED BY <1>2, <1>6, <2>1, <2>2 DEF Runtime
<1>9. \A c \in scene.clients : plane[c] = [p \in Planes |-> <<c, IF p = "data" THEN 1 ELSE 2>>]
  BY <1>2, <1>5 DEF Here
<1>10. ASSUME NEW c \in scene.clients, NEW p \in Planes
       PROVE  plane[c][p] \in DOMAIN rt /\ plane[c][p][1] = c /\ rt[plane[c][p]].plane = p
  <2>1. plane[c][p] = <<c, IF p = "data" THEN 1 ELSE 2>> BY <1>9
  <2>2. plane[c][p] \in DOMAIN rt BY <1>7, <2>1
  <2>3. rt[plane[c][p]] = Runtime(IF plane[c][p][2] = 1 THEN "data" ELSE "control", order[plane[c][p][1]] + 1, 0)
    BY <1>7, <2>2
  <2>4. rt[plane[c][p]].plane = IF plane[c][p][2] = 1 THEN "data" ELSE "control" BY <2>3 DEF Runtime
  <2> QED BY <2>1, <2>2, <2>4 DEF Planes
<1>11. ASSUME NEW i \in DOMAIN rt, rt[i].plane = "data" PROVE i = plane[i[1]]["data"]
  <2>1. i[1] \in scene.clients /\ i = <<i[1], 1>> BY <1>8, <1>11
  <2> QED BY <1>9, <2>1 DEF Planes
<1>12. drawn \in Nat /\ 1 \in 1 .. drawn BY <1>2, <1>3
<1>13. \A c \in scene.clients : epoch[c] \in 1 .. drawn /\ epoch[c] # 1
  <2> SUFFICES ASSUME NEW c \in scene.clients PROVE epoch[c] \in 1 .. drawn /\ epoch[c] # 1 OBVIOUS
  <2>1. order[c] \in 1 .. n /\ epoch[c] = order[c] + 1 BY <1>4, <1>6
  <2> QED BY <1>2, <1>3, <2>1
<1>14. \A c, d \in scene.clients : epoch[c] = epoch[d] => c = d
  <2> SUFFICES ASSUME NEW c \in scene.clients, NEW d \in scene.clients, epoch[c] = epoch[d] PROVE c = d OBVIOUS
  <2>1. order[c] + 1 = order[d] + 1 /\ order[c] \in Nat /\ order[d] \in Nat BY <1>2, <1>4, <1>6
  <2>2. order[c] = order[d] BY <2>1
  <2> QED BY <1>4, <2>2
<1>15. \A w \in Readers : reader[w].src = 0 /\ reader[w].pkts = <<>> /\ reader[w].pc \in {"idle", "ended"}
  BY <1>5 DEF Reading, IdleReader
<1>16. \A c \in Clients : ~confirmed[c] /\ out[c] = <<>> BY <1>5
<1>17. \A c \in scene.clients : mu[c] = "session" /\ ~closed[c] BY <1>2, <1>5 DEF Here
<1>18. \A c \in scene.clients : go[c]["provider"].pc = "idle" /\ go[c]["session"].pc = "hello"
  BY <1>2, <1>5 DEF Here, Goroutines
<1> QED BY <1>5, <1>6, <1>8, <1>10, <1>11, <1>12, <1>13, <1>14, <1>15, <1>16, <1>17, <1>18, ZenonT(40)

LEMMA InitGround ==
  ASSUME Init, Inv PROVE Ground
<1>1. DOMAIN <<>> = {} OBVIOUS
<1>2. KnownInv
  <2>1. \A e : ServerKnows(e) => e = 1 BY InitFacts DEF ServerKnows
  <2>2. ASSUME NEW c \in scene.clients, NEW e, ClientKnows(c, e) PROVE e = epoch[c]
    <3>1. \A g \in Goroutines : go[c][g].pc \notin {"rotated", "header"} BY InitFacts DEF Goroutines
    <3>2. c \in Clients BY SceneFacts DEF Inv, RoomTypes
    <3>3. DOMAIN out[c] = {} BY <1>1, <3>2, InitFacts
    <3>4. \A i \in DOMAIN rt : i[1] = c => rt[i].src = epoch[c] BY InitFacts
    <3> QED BY <2>2, <3>1, <3>3, <3>4 DEF ClientKnows
  <2>3. \A e : ServerKnows(e) => e \in 1 .. drawn BY <2>1, InitFacts
  <2>4. ASSUME NEW c \in scene.clients, NEW e, ClientKnows(c, e)
        PROVE  /\ e \in 1 .. drawn /\ ~ServerKnows(e)
               /\ \A d \in scene.clients : ClientKnows(d, e) => d = c
    <3>1. e = epoch[c] BY <2>2, <2>4
    <3>2. e \in 1 .. drawn /\ ~ServerKnows(e) BY <2>1, <3>1, InitFacts
    <3>3. ASSUME NEW d \in scene.clients, ClientKnows(d, e) PROVE d = c BY <2>2, <3>1, <3>3, InitFacts
    <3> QED BY <3>2, <3>3
  <2> QED BY <2>3, <2>4 DEF KnownInv
<1>3. FrameInv BY InitFacts DEF FrameInv
<1> USE <1>1, InitFacts
<1>4. OutInv BY DEF OutInv
<1>5. HoldInv BY DEF HoldInv, HoldsOK, HeldFor
<1>6. AddressInv BY DEF AddressInv
<1>7. OriginInv BY DEF OriginInv, Numbered, ClientRtOK
<1> QED BY <1>2, <1>3, <1>4, <1>5, <1>6, <1>7 DEF Ground

------------------------------------------------------------------------------
(* The data sessions that an epoch stands for.                              *)

LEMMA OnlyHeaders ==
  ASSUME Carried, NEW i, NEW e, Uses(i, e)' PROVE Uses(i, e) \/ Headed(i, e)'
<1>1. CASE Headed(i, e)' BY <1>1
<1>2. CASE InQueue(i, e)'
  <2>1. PICK c \in Clients : \E k \in DOMAIN out'[c] : out'[c][k].src = e /\ out'[c][k].pkt[1] = i
    BY <1>2 DEF InQueue
  <2>2. PICK k \in DOMAIN out'[c] : out'[c][k].src = e /\ out'[c][k].pkt[1] = i BY <2>1
  <2>3. OutStep(c, k) BY DEF Carried
  <2>4. CASE \E j \in DOMAIN out[c] : out'[c][k] = out[c][j] BY <2>2, <2>4 DEF Uses, InQueue
  <2>5. CASE i \in DOMAIN rt /\ i[1] = c /\ rt[i].plane = "data" /\ e = rt[i].src
    BY <2>5, ServerIsNoClient DEF Uses, Headed
  <2> QED BY <2>2, <2>3, <2>4, <2>5 DEF OutStep
<1>3. CASE e \notin mixed' /\ InFrame(i, e)'
  <2>1. PICK f \in room' : f.plane = "data" /\ f.src = e /\ i[1] # Server /\ \E k \in DOMAIN f.pkts : f.pkts[k][1] = i
    BY <1>3 DEF InFrame
  <2>2. FrameUse(f) /\ e \notin mixed BY <1>3 DEF Carried
  <2> QED BY <1>3, <2>1, <2>2 DEF FrameUse, Uses
<1>4. CASE e \notin mixed' /\ InReader(i, e)'
  <2>1. PICK w \in Readers : reader'[w].plane = "data" /\ reader'[w].src = e
                              /\ \E k \in DOMAIN reader'[w].pkts : reader'[w].pkts[k][1] = i
    BY <1>4 DEF InReader
  <2>2. ReaderUse(w) /\ e \notin mixed BY <1>4 DEF Carried
  <2> QED BY <2>1, <2>2 DEF ReaderUse, Uses
<1>5. CASE e \notin mixed' /\ InSession(i, e)'
  <2>1. PICK j \in DOMAIN rt' : j[1] = Server /\ rt'[j].plane = "data" /\ rt'[j].dst = e
                                 /\ \E k \in DOMAIN rt'[j].got : rt'[j].got[k][1] = i
    BY <1>5 DEF InSession
  <2>2. SessionUse(j) /\ e \notin mixed BY <1>5 DEF Carried
  <2> QED BY <2>1, <2>2 DEF SessionUse, Uses
<1> QED BY <1>1, <1>2, <1>3, <1>4, <1>5 DEF Uses

LEMMA QuietBy ==
  ASSUME Carried, NEW e, NoHello(e), NoHeader(e) PROVE Quiet(e)
BY OnlyHeaders DEF Quiet, NoHello, NoHeader, Uses

LEMMA QuietKeeps ==
  ASSUME NEW e, Quiet(e) PROVE (Silent(e) => Silent(e)') /\ (Sole(e) => Sole(e)') /\ (Clean(e) => Clean(e)')
BY DEF Quiet, Silent, Sole, Clean

LEMMA SilentKept ==
  ASSUME NEW e, NoHello(e) PROVE Silent(e) => Silent(e)'
BY DEF NoHello, Silent

\* A hello that was sent stays sent.
LEMMA HeardStays ==
  ASSUME Steady, NEW e, ~Silent(e) PROVE ~Silent(e)'
<1>1. PICK i : Speaks(i, e) BY DEF Silent
<1>2. Speaks(i, e)' BY <1>1 DEF Speaks, Steady, SteadyRuntime
<1> QED BY <1>2 DEF Silent

\* What each kind of traffic says.
LEMMA SameSays ==
  ASSUME NoTraffic, NEW e PROVE NoHello(e) /\ NoHeader(e)
BY DEF NoTraffic, SameTraffic, NoHello, NoHeader, Speaks, Headed

LEMMA BeginSays ==
  ASSUME NEW d, NEW p, NEW src, NEW dst, Begins(d, p, src, dst), NEW e
  PROVE  NoHello(e) /\ (p = "control" \/ d[1] = Server \/ e # src => NoHeader(e))
<1>1. NoHello(e) BY DEF Begins, SameTraffic, NoHello, Speaks
<1>2. ASSUME p = "control" \/ d[1] = Server \/ e # src PROVE NoHeader(e)
  BY <1>2 DEF Begins, SameTraffic, NoHeader, Headed
<1> QED BY <1>1, <1>2

LEMMA SendSays ==
  ASSUME NEW d, NEW x, Sends(d, x), NEW e
  PROVE  NoHeader(e) /\ (d[1] = Server \/ rt[d].plane = "data" \/ e # rt[d].src => NoHello(e))
<1>1. NoHeader(e) BY DEF Sends, SameTraffic, NoHeader, Headed
<1>2. ASSUME d[1] = Server \/ rt[d].plane = "data" \/ e # rt[d].src PROVE NoHello(e)
  BY <1>2 DEF Sends, SameTraffic, NoHello, Speaks
<1> QED BY <1>1, <1>2

LEMMA TakeSays ==
  ASSUME NEW d, NEW pkts, Takes(d, pkts), NEW e PROVE NoHello(e) /\ NoHeader(e)
<1>1. /\ DOMAIN rt' = DOMAIN rt
      /\ \A i \in DOMAIN rt : rt'[i].plane = rt[i].plane /\ rt'[i].src = rt[i].src /\ rt'[i].msgs = rt[i].msgs
  BY DEF Takes, SameTraffic
<1> QED BY <1>1 DEF NoHello, NoHeader, Speaks, Headed

LEMMA BindSays ==
  ASSUME NEW d, NEW src, NEW dst, Binds(d, src, dst), rt[d].plane = "data", NEW e
  PROVE  NoHello(e) /\ (e # src \/ rt[d].src = src => NoHeader(e))
<1>1. /\ DOMAIN rt' = DOMAIN rt
      /\ \A i \in DOMAIN rt : /\ rt'[i].plane = rt[i].plane /\ rt'[i].msgs = rt[i].msgs
                              /\ i # d => rt'[i].src = rt[i].src
      /\ rt'[d].src = src
  BY DEF Binds, SameTraffic
<1>2. NoHello(e) BY <1>1 DEF NoHello, Speaks
<1>3. ASSUME e # src \/ rt[d].src = src PROVE NoHeader(e) BY <1>1, <1>3 DEF NoHeader, Headed
<1> QED BY <1>2, <1>3

\* The traffic of a runtime of n is foreign to the others.
LEMMA ForeignTraffic ==
  ASSUME NEW n, NEW d, d[1] = n,
         \/ NoTraffic
         \/ \E p, src, dst : Begins(d, p, src, dst)
         \/ \E x : Sends(d, x)
         \/ \E pkts : Takes(d, pkts)
         \/ \E src, dst : Binds(d, src, dst)
  PROVE  Foreign(n)
BY DEF Foreign, NoTraffic, Begins, Sends, Takes, Binds

LEMMA ForeignSame ==
  ASSUME NEW n, NoTraffic PROVE Foreign(n)
BY DEF Foreign, NoTraffic

LEMMA SameRtTraffic ==
  ASSUME rt' = rt PROVE NoTraffic
BY DEF NoTraffic, SameTraffic

\* What a step of a client carries.
LEMMA ClientCarries ==
  ASSUME Inv, Ground, UNCHANGED serverVars, NEW c \in Clients, Foreign(c), mixed \subseteq mixed',
         \A d \in Clients : \A k \in DOMAIN out'[d] : OutStep(d, k),
         \A f \in room' : FrameUse(f)
  PROVE  Carried
<1>1. reader' = reader BY DEF serverVars
<1>2. \A w \in Readers : ReaderUse(w) BY <1>1 DEF ReaderUse, InReader
<1>3. ASSUME NEW j \in DOMAIN rt' PROVE SessionUse(j)
  <2>1. CASE j[1] = Server BY <2>1, ServerIsNoClient DEF Foreign, SessionUse, InSession, SameTraffic
  <2>2. CASE j[1] # Server BY <2>2 DEF SessionUse
  <2> QED BY <2>1, <2>2
<1> QED BY <1>2, <1>3 DEF Carried

LEMMA OldFrames ==
  ASSUME Inv, Ground, NEW f \in room PROVE FrameUse(f)
BY DEF FrameUse, InFrame

LEMMA SameOut ==
  ASSUME out' = out PROVE \A d \in Clients : \A k \in DOMAIN out'[d] : OutStep(d, k)
BY DEF OutStep

\* Steps of c that write no frame and queue no packet.
LEMMA CarriesAsIs ==
  ASSUME Inv, Ground, UNCHANGED serverVars, NEW c \in Clients, Foreign(c), \A f \in room' : f \in room, UNCHANGED <<out, mixed>>
  PROVE  Carried
BY OldFrames, SameOut, ClientCarries

\* Of the planes of a client that is in the scene.
LEMMA PlaneFacts ==
  ASSUME Inv, NEW c \in scene.clients
  PROVE  /\ c \in Clients /\ c # Server
         /\ \A p \in Planes : plane[c][p] \in DOMAIN rt /\ plane[c][p][1] = c /\ rt[plane[c][p]].plane = p
         /\ plane[c]["data"] \in DOMAIN rt /\ plane[c]["data"][1] = c /\ rt[plane[c]["data"]].plane = "data"
         /\ plane[c]["control"] \in DOMAIN rt /\ plane[c]["control"][1] = c /\ rt[plane[c]["control"]].plane = "control"
         /\ plane[c]["data"] # plane[c]["control"]
         /\ MuInv(c) /\ AgreeInv(c) /\ PlaneInv(c)
<1>1. c \in Clients /\ c # Server BY SceneFacts, ServerIsNoClient DEF Inv, RoomTypes
<1>2. PlaneInv(c) /\ MuInv(c) /\ AgreeInv(c) BY <1>1 DEF Inv, ClientInv
<1>3. \A p \in Planes : plane[c][p] \in DOMAIN rt /\ plane[c][p][1] = c /\ rt[plane[c][p]].plane = p
  BY <1>2 DEF PlaneInv
<1> QED BY <1>1, <1>2, <1>3 DEF Planes

LEMMA ClientTypeFacts ==
  ASSUME Inv
  PROVE  /\ confirmed \in [Clients -> BOOLEAN] /\ closed \in [Clients -> BOOLEAN] /\ peerEpoch \in [Clients -> E0]
         /\ out \in [Clients -> Seq(Stamped(E0, SentBy(rt)))]
         /\ go \in [Clients -> [Goroutines -> [pc : PCs, hdr : Nat]]]
         /\ mu \in [Clients -> Goroutines \cup {"free"}]
BY DEF Inv, ClientTypes

\* Steps of c that move its goroutines, and no runtime, queue or frame.
LEMMA MoveApart ==
  ASSUME Inv, Ground, NEW c \in Clients,
         ProviderReconnected(c) \/ ProviderLocks(c) \/ LinkDies(c) \/ ContinueReconnect(c) \/ HandshakeFails(c)
  PROVE  /\ Apart(c) /\ Carried /\ NoTraffic
         /\ epoch' = epoch /\ confirmed' = confirmed /\ peerEpoch' = peerEpoch /\ plane' = plane /\ closed' = closed
<1>1. UNCHANGED serverVars /\ UNCHANGED <<epoch, confirmed, peerEpoch, plane, closed, out, room, rt, mixed>>
  BY DEF ProviderReconnected, ProviderLocks, LinkDies, ContinueReconnect, HandshakeFails
<1>2. NoTraffic /\ Foreign(c) BY <1>1, SameRtTraffic, ForeignSame
<1>3. Carried BY <1>1, <1>2, CarriesAsIs
<1>4. \A d \in Clients : d # c => mu'[d] = mu[d]
  BY ClientTypeFacts
     DEF ProviderReconnected, ProviderLocks, LinkDies, ContinueReconnect, AfterReset, HandshakeFails, LockReconnect
<1>5. \A d \in Clients : d # c => go'[d] = go[d]
  BY ClientTypeFacts
     DEF ProviderReconnected, ProviderLocks, LinkDies, ContinueReconnect, AfterReset, HandshakeFails, LockReconnect, To
<1> QED BY <1>1, <1>2, <1>3, <1>4, <1>5 DEF Apart, Alike

LEMMA HelloApart ==
  ASSUME Inv, Ground, NEW c \in Clients, SendHello(c)
  PROVE  /\ Apart(c) /\ Carried /\ epoch' = epoch /\ confirmed' = confirmed /\ peerEpoch' = peerEpoch
         /\ plane' = plane /\ closed' = closed /\ mu' = mu
<1>1. UNCHANGED serverVars /\ UNCHANGED <<epoch, confirmed, peerEpoch, plane, closed, out, room, mu, mixed>>
  BY DEF SendHello
<1>2. c \in scene.clients /\ Sends(plane[c]["control"], 0) /\ Moved(c, mu[c]) BY HelloMoves
<1>3. Foreign(c) BY <1>2, PlaneFacts, ForeignTraffic
<1>4. Carried BY <1>1, <1>3, CarriesAsIs
<1> QED BY <1>1, <1>2, <1>3, <1>4 DEF Apart, Alike, Moved

LEMMA ConfirmApart ==
  ASSUME Inv, Ground, NEW c \in Clients, ConfirmPeer(c)
  PROVE  /\ Apart(c) /\ Carried /\ epoch' = epoch /\ plane' = plane /\ closed' = closed /\ mu'[c] = "free"
         /\ confirmed'[c] /\ go'[c][mu[c]].pc = "idle" /\ Moved(c, mu[c])
         /\ c \in scene.clients /\ mu[c] \in Goroutines /\ go[c][mu[c]].pc = "welcome"
         /\ \E dst : Binds(plane[c]["data"], epoch[c], dst)
<1>1. /\ UNCHANGED serverVars /\ UNCHANGED <<epoch, plane, closed, out, room, mixed>>
      /\ peerEpoch' = [peerEpoch EXCEPT ![c] = peerEpoch'[c]] /\ confirmed' = [confirmed EXCEPT ![c] = TRUE]
      /\ mu' = [mu EXCEPT ![c] = "free"] /\ To(c, mu[c], "idle")
  BY ClientTypeFacts DEF ConfirmPeer
<1>2. /\ c \in scene.clients /\ mu[c] \in Goroutines /\ go[c][mu[c]].pc = "welcome"
      /\ \E dst : Binds(plane[c]["data"], epoch[c], dst)
  BY BindTraffic
<1>3. Foreign(c) BY <1>2, PlaneFacts, ForeignTraffic
<1>4. Carried BY <1>1, <1>3, CarriesAsIs
<1>5. go'[c][mu[c]].pc = "idle" /\ Moved(c, mu[c]) BY <1>1, <1>2, ToMoves DEF PCs
<1>6. mu'[c] = "free" /\ confirmed'[c]
      /\ \A d \in Clients : d # c => mu'[d] = mu[d] /\ confirmed'[d] = confirmed[d] /\ peerEpoch'[d] = peerEpoch[d]
  BY <1>1, ClientTypeFacts
<1> QED BY <1>1, <1>2, <1>3, <1>4, <1>5, <1>6 DEF Apart, Alike, Moved

LEMMA RotateApart ==
  ASSUME Inv, Ground, NEW c \in Clients, NEW g \in Goroutines, RotateEpochHeader(c, g)
  PROVE  Apart(c) /\ Carried /\ NoTraffic /\ plane' = plane /\ closed' = closed /\ mu' = mu
<1>1. UNCHANGED serverVars /\ UNCHANGED <<plane, closed, mu, rt, out, mixed>> BY DEF RotateEpochHeader
<1>2. /\ \A m \in Nodes : m # c => epoch'[m] = epoch[m]
      /\ \A d \in Clients : d # c => confirmed'[d] = confirmed[d] /\ peerEpoch'[d] = peerEpoch[d]
      /\ Moved(c, g) /\ \A f \in room' : f \in room
  BY RotateFacts
<1>3. NoTraffic /\ Foreign(c) BY <1>1, SameRtTraffic, ForeignSame
<1>4. Carried BY <1>1, <1>2, <1>3, CarriesAsIs
<1> QED BY <1>1, <1>2, <1>3, <1>4 DEF Apart, Alike, Moved, Nodes

LEMMA RestartApart ==
  ASSUME Inv, Ground, NEW c \in Clients, NEW g \in Goroutines, NEW p \in Planes,
         \/ p = "data" /\ RestartData(c, g)
         \/ p = "control" /\ RestartControl(c, g)
  PROVE  /\ Apart(c) /\ Carried /\ c \in scene.clients
         /\ epoch' = epoch /\ confirmed' = confirmed /\ peerEpoch' = peerEpoch /\ closed' = closed /\ mu' = mu
         /\ IF p = "data" THEN go[c][g].pc = "rotated" /\ go'[c][g].pc = "data"
            ELSE go[c][g].pc = "header" /\ go'[c][g].pc = "restarted"
         /\ Moved(c, g)
         /\ \/ closed[c] /\ UNCHANGED <<rt, plane>>
            \/ ~closed[c] /\ Replaced(c, p, go[c][g].hdr) /\ Begins(plane'[c][p], p, go[c][g].hdr, 0)
<1>1. /\ UNCHANGED serverVars /\ UNCHANGED <<epoch, confirmed, peerEpoch, closed, mu, room, mixed>>
      /\ RestartPlane(c, p, go[c][g].hdr)
      /\ \/ out' = out
         \/ out' = [out EXCEPT ![c] = <<>>]
      /\ IF p = "data" THEN go[c][g].pc = "rotated" /\ To(c, g, "data") ELSE go[c][g].pc = "header" /\ To(c, g, "restarted")
  <2>1. CASE p = "data" /\ RestartData(c, g) BY <2>1 DEF RestartData, At
  <2>2. CASE p = "control" /\ RestartControl(c, g) BY <2>2 DEF RestartControl, At
  <2> QED BY <2>1, <2>2
<1>2. /\ c \in scene.clients
      /\ \/ closed[c] /\ UNCHANGED <<rt, plane>>
         \/ ~closed[c] /\ Replaced(c, p, go[c][g].hdr) /\ Begins(plane'[c][p], p, go[c][g].hdr, 0)
  BY <1>1, RestartFacts
<1>3. /\ IF p = "data" THEN go'[c][g].pc = "data" ELSE go'[c][g].pc = "restarted"
      /\ Moved(c, g)
  BY <1>1, ToMoves DEF PCs
<1>4. Foreign(c) /\ \A d \in Clients : d # c => plane'[d] = plane[d]
  <2>1. CASE closed[c] /\ UNCHANGED <<rt, plane>> BY <2>1, SameRtTraffic, ForeignSame
  <2>2. CASE Replaced(c, p, go[c][g].hdr) /\ Begins(plane'[c][p], p, go[c][g].hdr, 0)
    BY <2>2, ForeignTraffic DEF Replaced
  <2> QED BY <1>2, <2>1, <2>2
<1>5. ASSUME NEW d \in Clients, NEW k \in DOMAIN out'[d] PROVE OutStep(d, k)
  <2>1. out'[d] = out[d] \/ out'[d] = <<>> BY <1>1, ClientTypeFacts
  <2> QED BY <1>5, <2>1 DEF OutStep
<1>6. Carried BY <1>1, <1>4, <1>5, OldFrames, ClientCarries
<1> QED BY <1>1, <1>2, <1>3, <1>4, <1>6 DEF Apart, Alike, Moved

LEMMA HeaderApart ==
  ASSUME Inv, Ground, NEW c \in Clients, NEW g \in Goroutines, ControlEpochHeader(c, g)
  PROVE  /\ Apart(c) /\ Carried /\ NoTraffic
         /\ epoch' = epoch /\ confirmed' = confirmed /\ peerEpoch' = peerEpoch /\ plane' = plane /\ closed' = closed
         /\ mu' = mu
<1>1. UNCHANGED serverVars /\ UNCHANGED <<epoch, confirmed, peerEpoch, plane, closed, mu, rt, out, room, mixed>>
  BY DEF ControlEpochHeader
<1>2. Moved(c, g) BY HeaderMoves
<1>3. NoTraffic /\ Foreign(c) BY <1>1, SameRtTraffic, ForeignSame
<1>4. Carried BY <1>1, <1>3, CarriesAsIs
<1> QED BY <1>1, <1>2, <1>3, <1>4 DEF Apart, Alike, Moved

LEMMA SameSettled ==
  ASSUME NoTraffic, UNCHANGED <<epoch, confirmed, peerEpoch, plane, go, mu>>, \A d \in Clients : closed[d] => closed'[d], NEW c
  PROVE  Settled(c)
BY SameSays DEF Settled, NoTraffic, SameTraffic

LEMMA SendApart ==
  ASSUME Inv, Ground, NEW c \in Clients, Send(c) PROVE Apart(c) /\ Carried /\ Settled(c)
<1>1. /\ UNCHANGED serverVars /\ UNCHANGED <<epoch, confirmed, peerEpoch, plane, closed, go, mu, out, room, mixed>>
      /\ ~closed[c] /\ rt' = SendVia(rt, plane[c]["data"], 0)
  BY DEF Send, clientVars
<1>2. c \in scene.clients BY <1>1, ActiveClient DEF Inv
<1>3. Sends(plane[c]["data"], 0) BY <1>1, <1>2, SceneFacts, PlaneFacts, SendTraffic DEF Inv, RoomTypes, E0
<1>4. Foreign(c) BY <1>2, <1>3, PlaneFacts, ForeignTraffic
<1>5. Carried BY <1>1, <1>4, CarriesAsIs
<1>6. Settled(c)
  <2>1. \A e : NoHello(e) /\ NoHeader(e) BY <1>2, <1>3, PlaneFacts, SendSays
  <2>2. \A i \in DOMAIN rt : i \in DOMAIN rt' /\ rt'[i].src = rt[i].src /\ rt'[i].got = rt[i].got
    BY <1>3 DEF Sends, SameTraffic
  <2> QED BY <1>1, <2>1, <2>2 DEF Settled
<1> QED BY <1>1, <1>4, <1>5, <1>6 DEF Apart, Alike

LEMMA QueueApart ==
  ASSUME Inv, Ground, NEW c \in Clients, Flush(c) \/ LateWriteTo(c) PROVE Apart(c) /\ Carried /\ Settled(c)
<1>1. UNCHANGED serverVars /\ UNCHANGED <<epoch, confirmed, peerEpoch, plane, closed, go, mu, rt, room, mixed>>
  BY DEF Flush, LateWriteTo
<1>2. PICK i, sn : Queues(c, i, sn) BY FlushFacts, LateFacts
<1>3. ASSUME NEW d \in Clients, NEW k \in DOMAIN out'[d] PROVE OutStep(d, k)
  <2>1. CASE d # c BY <1>2, <1>3, <2>1 DEF Queues, OutStep
  <2>2. CASE d = c
    <3>1. CASE k \in DOMAIN out[c] /\ out'[c][k] = out[c][k] BY <2>2, <3>1 DEF OutStep
    <3>2. CASE out'[c][k] = Queued(c, i, sn) BY <1>2, <2>2, <3>2 DEF Queued, OutStep, Queues
    <3> QED BY <1>2, <1>3, <2>2, <3>1, <3>2 DEF Queues
  <2> QED BY <2>1, <2>2
<1>4. NoTraffic /\ Foreign(c) BY <1>1, SameRtTraffic, ForeignSame
<1>5. Carried BY <1>1, <1>3, <1>4, OldFrames, ClientCarries
<1>6. Settled(c) BY <1>1, <1>4, SameSettled
<1> QED BY <1>1, <1>4, <1>5, <1>6 DEF Apart, Alike

LEMMA DrainApart ==
  ASSUME Inv, Ground, NEW c \in Clients, DrainData(c) PROVE Apart(c) /\ Carried /\ Settled(c)
<1>1. UNCHANGED serverVars /\ UNCHANGED <<epoch, confirmed, peerEpoch, plane, closed, go, mu, rt>>
  BY DEF DrainData
<1>2. PICK f, n : Drains(c, f, n) BY DrainFacts
<1>3. ASSUME NEW d \in Clients, NEW k \in DOMAIN out'[d] PROVE OutStep(d, k) BY <1>2, <1>3 DEF Drains, OutStep
<1>4. mixed \subseteq mixed' BY <1>2 DEF Drains
<1>5. FrameUse(f)
  <2> SUFFICES ASSUME NEW k \in DOMAIN f.pkts, f.src \notin mixed' PROVE InQueue(f.pkts[k][1], f.src)
    BY DEF FrameUse
  <2>1. k \in 1 .. n /\ k \in DOMAIN out[c] /\ f.pkts[k] = out[c][k].pkt /\ f.src = out[c][1].src
    BY <1>2 DEF Drains
  <2>2. out[c][k].src = out[c][1].src BY <1>2, <2>1 DEF Drains
  <2> QED BY <2>1, <2>2 DEF InQueue
<1>6. \A x \in room' : FrameUse(x) BY <1>2, <1>5, OldFrames DEF Drains
<1>7. NoTraffic /\ Foreign(c) BY <1>1, SameRtTraffic, ForeignSame
<1>8. Carried BY <1>1, <1>3, <1>4, <1>6, <1>7, ClientCarries
<1>9. Settled(c) BY <1>1, <1>7, SameSettled
<1> QED BY <1>1, <1>7, <1>8, <1>9 DEF Apart, Alike

LEMMA WriteApart ==
  ASSUME Inv, Ground, NEW c \in Clients, ForceKeepalive(c) \/ DrainControl(c)
  PROVE  Apart(c) /\ Carried /\ Settled(c)
<1>1. UNCHANGED serverVars /\ UNCHANGED <<epoch, confirmed, peerEpoch, plane, closed, go, mu, rt, out, mixed>>
  BY DEF ForceKeepalive, DrainControl, clientVars
<1>2. ASSUME NEW f \in room' PROVE FrameUse(f)
  <2>1. CASE f \in room BY <2>1, OldFrames
  <2>2. CASE ForceKeepalive(c) /\ f \notin room BY <1>2, <2>2 DEF ForceKeepalive, FrameUse
  <2>3. CASE DrainControl(c) /\ f \notin room
    <3>1. c \in scene.clients BY <2>3, ActiveClient DEF Inv, DrainControl
    <3>2. f.plane = rt[plane[c]["control"]].plane
      <4>1. PICK pkts : room' = room \cup {FrameOf(rt[plane[c]["control"]], pkts)} BY <2>3 DEF DrainControl
      <4>2. f = FrameOf(rt[plane[c]["control"]], pkts) BY <1>2, <2>3, <4>1
      <4> QED BY <4>2 DEF FrameOf
    <3>3. f.plane = "control" BY <3>1, <3>2, PlaneFacts
    <3> QED BY <3>3 DEF FrameUse
  <2> QED BY <2>1, <2>2, <2>3
<1>3. NoTraffic /\ Foreign(c) BY <1>1, SameRtTraffic, ForeignSame
<1>4. Carried BY <1>1, <1>2, <1>3, SameOut, ClientCarries
<1>5. Settled(c) BY <1>1, <1>3, SameSettled
<1> QED BY <1>1, <1>3, <1>4, <1>5 DEF Apart, Alike

LEMMA CloseApart ==
  ASSUME Inv, Ground, NEW c \in Clients, Close(c) \/ MaybePeerRestart(c) PROVE Apart(c) /\ Carried /\ Settled(c)
<1>1. UNCHANGED serverVars /\ UNCHANGED <<epoch, confirmed, peerEpoch, plane, go, mu, out, room, mixed>>
  BY DEF Close, MaybePeerRestart
<1>2. NoTraffic /\ Foreign(c) BY ShutTraffic, SameRtTraffic, ForeignSame DEF Close, MaybePeerRestart
<1>3. /\ \A d \in Clients : closed[d] => closed'[d]
      /\ \A d \in Clients : d # c => closed'[d] = closed[d]
  BY ClientTypeFacts DEF Close, MaybePeerRestart
<1>4. Carried BY <1>1, <1>2, CarriesAsIs
<1>5. Settled(c) BY <1>1, <1>2, <1>3, SameSettled
<1> QED BY <1>1, <1>2, <1>3, <1>4, <1>5 DEF Apart, Alike

LEMMA HandleApart ==
  ASSUME Inv, Ground, NEW c \in Clients, HandleClientFrame(c)
  PROVE  /\ Apart(c) /\ Carried /\ (\A e : NoHello(e) /\ NoHeader(e)) /\ UNCHANGED clientVars /\ epoch' = epoch
<1>1. UNCHANGED serverVars /\ UNCHANGED <<epoch, room, mixed>> /\ UNCHANGED clientVars BY DEF HandleClientFrame
<1>2. UNCHANGED <<confirmed, peerEpoch, plane, closed, go, mu, out>> BY <1>1 DEF clientVars
<1>3. c \in scene.clients /\ \E p \in Planes : \E pkts : Takes(plane[c][p], pkts) BY ClientTakes
<1>4. Foreign(c) BY <1>3, PlaneFacts, ForeignTraffic
<1>5. Carried BY <1>1, <1>2, <1>4, CarriesAsIs
<1>6. \A e : NoHello(e) /\ NoHeader(e) BY <1>3, TakeSays
<1> QED BY <1>1, <1>2, <1>4, <1>5, <1>6 DEF Apart, Alike

LEMMA SameGotUse ==
  ASSUME SameGot PROVE \A j \in DOMAIN rt' : SessionUse(j)
<1> SUFFICES ASSUME NEW j \in DOMAIN rt' PROVE SessionUse(j) OBVIOUS
<1>1. CASE j \in DOMAIN rt /\ rt'[j].plane = rt[j].plane /\ rt'[j].dst = rt[j].dst /\ rt'[j].got = rt[j].got
  BY <1>1 DEF SessionUse, InSession
<1>2. CASE rt'[j].got = <<>> BY <1>2 DEF SessionUse
<1> QED BY <1>1, <1>2 DEF SameGot

LEMMA TrafficGot ==
  ASSUME NoTraffic \/ (\E d, p, src, dst : Begins(d, p, src, dst)) \/ (\E d, x : Sends(d, x)) PROVE SameGot
BY DEF SameGot, NoTraffic, Begins, Sends, SameTraffic

LEMMA ServerCarries ==
  ASSUME UNCHANGED clientVars, mixed' = mixed,
         \A f \in room' : FrameUse(f), \A w \in Readers : ReaderUse(w), \A j \in DOMAIN rt' : SessionUse(j)
  PROVE  Carried
<1>1. out' = out BY DEF clientVars
<1> QED BY <1>1, SameOut DEF Carried

LEMMA SameReaders ==
  ASSUME reader' = reader PROVE \A w \in Readers : ReaderUse(w)
BY DEF ReaderUse, InReader

LEMMA IdleUse ==
  ASSUME NEW w \in Readers, reader'[w].pkts = <<>> PROVE ReaderUse(w)
BY DEF ReaderUse

\* A reader is done, and the others hold what they held.
LEMMA ReaderDoneUse ==
  ASSUME Inv, NEW w \in Readers, reader' = [reader EXCEPT ![w] = IdleReader] PROVE \A v \in Readers : ReaderUse(v)
<1> SUFFICES ASSUME NEW v \in Readers PROVE ReaderUse(v) OBVIOUS
<1>1. CASE v = w BY <1>1, IdleUse DEF Inv, ServerTypes, IdleReader
<1>2. CASE v # w BY <1>2 DEF Inv, ServerTypes, ReaderUse, InReader
<1> QED BY <1>1, <1>2

LEMMA FreshIsServers == Fresh(Server)[1] = Server
BY DEF Fresh

LEMMA TakeFrameRemote ==
  ASSUME Inv, Ground, NEW w \in Readers, TakeFrame(w)
  PROVE  Remote /\ UNCHANGED <<rt, sess, answered, upper, lost, epoch>>
<1>1. UNCHANGED clientVars /\ UNCHANGED <<rt, room, sess, answered, upper, lost, epoch, mixed>> BY DEF TakeFrame
<1>2. NoTraffic BY <1>1, SameRtTraffic
<1>3. /\ \A v \in Readers : v # w => reader'[v] = reader[v]
      /\ \E f \in room :
           /\ AcceptsDst(Server, f)
           /\ HoldsOK(reader'[w]) /\ \A k \in DOMAIN reader'[w].pkts : reader'[w].pkts[k][1] \in DOMAIN rt
           /\ \/ reader'[w] = IdleReader
              \/ reader'[w].plane = f.plane /\ reader'[w].src = f.src /\ reader'[w].pkts = f.pkts
  BY TakesFrame
<1>4. ASSUME NEW v \in Readers PROVE ReaderUse(v)
  <2>1. CASE v # w BY <1>3, <2>1 DEF ReaderUse, InReader
  <2>2. CASE v = w /\ reader'[w] = IdleReader BY <2>2, IdleUse DEF IdleReader
  <2>3. CASE v = w /\ reader'[w] # IdleReader
    <3>1. PICK f \in room : reader'[w].plane = f.plane /\ reader'[w].src = f.src /\ reader'[w].pkts = f.pkts
      BY <1>3, <2>3
    <3>2. \A k \in DOMAIN reader'[w].pkts : reader'[w].pkts[k][1][1] # Server BY <1>3 DEF HoldsOK, FromClient
    <3> QED BY <2>3, <3>1, <3>2 DEF ReaderUse, InFrame
  <2> QED BY <2>1, <2>2, <2>3
<1>5. Carried BY <1>1, <1>2, <1>4, OldFrames, TrafficGot, SameGotUse, ServerCarries
<1> QED BY <1>1, <1>2, <1>5, ForeignSame, SameSays DEF Remote

LEMMA PeerSessionRemote ==
  ASSUME Inv, Ground, NEW w \in Readers, PeerSessionFor(w) PROVE Remote /\ UNCHANGED <<answered, upper, epoch>>
<1>1. UNCHANGED clientVars /\ UNCHANGED <<room, answered, upper, epoch, mixed>> BY DEF PeerSessionFor
<1>2. /\ \A v \in Readers : v # w => reader'[v] = reader[v]
      /\ \/ reader'[w] = IdleReader
         \/ /\ reader'[w].plane = reader[w].plane /\ reader'[w].src = reader[w].src
            /\ reader'[w].pkts = reader[w].pkts
      /\ \/ UNCHANGED <<rt, sess, lost>> /\ \A s : InTable(s)' <=> InTable(s)
         \/ ~Has(reader[w].src) /\ \E D : Joins(Len(sess) + 1, reader[w].src, D)
  BY PeerSessionFacts
<1>3. NoTraffic \/ \E e : Begins(Fresh(Server), "data", epoch[Server], e) BY <1>2, SameRtTraffic DEF Joins
<1>4. ASSUME NEW v \in Readers PROVE ReaderUse(v)
  <2>1. CASE v # w BY <1>2, <2>1 DEF ReaderUse, InReader
  <2>2. CASE v = w /\ reader'[w] = IdleReader BY <2>2, IdleUse DEF IdleReader
  <2>3. CASE v = w /\ reader'[w] # IdleReader BY <1>2, <2>3 DEF ReaderUse, InReader
  <2> QED BY <2>1, <2>2, <2>3
<1>5. Carried BY <1>1, <1>3, <1>4, OldFrames, TrafficGot, SameGotUse, ServerCarries
<1>6. Foreign(Server) BY <1>3, ForeignTraffic, FreshIsServers
<1>7. \A e : NoHello(e) /\ NoHeader(e) BY <1>3, SameSays, BeginSays, FreshIsServers
<1> QED BY <1>1, <1>5, <1>6, <1>7 DEF Remote

\* A reader's packets go to a runtime of the server.
LEMMA DeliversUse ==
  ASSUME Inv, Ground, NEW w \in Readers, NEW i \in DOMAIN rt, i[1] = Server, NEW p \in Planes,
         rt[i].plane = p, rt[i].dst = reader[w].src, reader[w].plane = p, Takes(i, reader[w].pkts)
  PROVE  \A j \in DOMAIN rt' : SessionUse(j)
<1> SUFFICES ASSUME NEW j \in DOMAIN rt', j[1] = Server, rt'[j].plane = "data", NEW k \in DOMAIN rt'[j].got
             PROVE  InReader(rt'[j].got[k][1], rt'[j].dst) \/ InSession(rt'[j].got[k][1], rt'[j].dst)
  BY DEF SessionUse
<1>1. CASE j # i BY <1>1 DEF Takes, SameTraffic, InSession
<1>2. CASE j = i
  <2>1. rt[i].plane = "data" /\ rt'[i].dst = rt[i].dst BY <1>2 DEF Takes
  <2>2. CASE k \in DOMAIN rt[i].got /\ rt'[i].got[k] = rt[i].got[k] BY <1>2, <2>1, <2>2 DEF InSession
  <2>3. CASE \E n \in DOMAIN reader[w].pkts : rt'[i].got[k] = reader[w].pkts[n] BY <1>2, <2>1, <2>3 DEF InReader
  <2> QED BY <1>2, <2>2, <2>3 DEF Takes
<1> QED BY <1>1, <1>2

LEMMA DeliverDataRemote ==
  ASSUME Inv, Ground, NEW w \in Readers, DeliverData(w)
  PROVE  Remote /\ UNCHANGED <<sess, peers, answered, lost, epoch>>
<1>1. /\ UNCHANGED clientVars /\ UNCHANGED <<room, sess, peers, answered, lost, epoch, mixed>>
      /\ reader' = [reader EXCEPT ![w] = IdleReader]
  BY DEF DeliverData
<1> DEFINE r == reader[w]
           i == sess[r.sess].data
<1>2. /\ i \in DOMAIN rt /\ i[1] = Server /\ rt[i].plane = "data" /\ rt[i].dst = r.src /\ r.plane = "data"
      /\ Delivers(i, r.src, "data", r.pkts)
  BY DeliverDataFacts
<1>3. Takes(i, r.pkts) BY <1>2 DEF Delivers
<1>4. \A j \in DOMAIN rt' : SessionUse(j) BY <1>2, <1>3, DeliversUse DEF Planes
<1>5. Carried BY <1>1, <1>4, OldFrames, ReaderDoneUse, ServerCarries
<1> HIDE DEF i, r
<1>6. Foreign(Server) BY <1>2, <1>3, ForeignTraffic
<1>7. \A e : NoHello(e) /\ NoHeader(e) BY <1>3, TakeSays
<1> QED BY <1>1, <1>5, <1>6, <1>7 DEF Remote

LEMMA PeerControlRemote ==
  ASSUME Inv, Ground, NEW w \in Readers, PeerControlFor(w)
  PROVE  Remote /\ UNCHANGED <<peers, answered, lost, epoch>>
<1>1. UNCHANGED clientVars /\ UNCHANGED <<room, peers, answered, lost, epoch, mixed>> BY DEF PeerControlFor
<1> DEFINE r == reader[w]
           i == sess[r.sess].control
<1>2. \/ Opens(r.sess) /\ UNCHANGED <<reader, upper>>
      \/ /\ i # None /\ i \in DOMAIN rt /\ i[1] = Server /\ rt[i].plane = "control" /\ rt[i].dst = r.src
         /\ r.pkts \in Seq(SentBy(rt)) /\ r.plane = "control"
         /\ Delivers(i, r.src, "control", r.pkts) /\ Regular
         /\ \A k \in DOMAIN r.pkts : FromClient(r.pkts[k], "control", r.src)
         /\ reader' = [reader EXCEPT ![w] = IdleReader] /\ UNCHANGED sess
  BY PeerControlFacts
<1>3. CASE Opens(r.sess) /\ reader' = reader
  <2>1. PICK e : Begins(Fresh(Server), "control", epoch[Server], e) BY <1>3 DEF Opens
  <2>2. Foreign(Server) /\ \A e1 : NoHello(e1) /\ NoHeader(e1) BY <2>1, ForeignTraffic, FreshIsServers, BeginSays
  <2>3. Carried BY <1>1, <1>3, <2>1, OldFrames, SameReaders, TrafficGot, SameGotUse, ServerCarries
  <2> QED BY <1>1, <2>2, <2>3 DEF Remote
<1>4. CASE /\ i \in DOMAIN rt /\ i[1] = Server /\ rt[i].plane = "control" /\ rt[i].dst = r.src /\ r.plane = "control"
           /\ Delivers(i, r.src, "control", r.pkts) /\ reader' = [reader EXCEPT ![w] = IdleReader]
  <2>1. Takes(i, r.pkts) BY <1>4 DEF Delivers
  <2>2. \A j \in DOMAIN rt' : SessionUse(j) BY <1>4, <2>1, DeliversUse DEF Planes
  <2>3. Carried BY <1>1, <1>4, <2>2, OldFrames, ReaderDoneUse, ServerCarries
  <2> HIDE DEF i, r
  <2>4. Foreign(Server) /\ \A e : NoHello(e) /\ NoHeader(e) BY <1>4, <2>1, ForeignTraffic, TakeSays
  <2> QED BY <1>1, <2>3, <2>4 DEF Remote
<1> QED BY <1>1, <1>2, <1>3, <1>4

LEMMA AnswerRemote ==
  ASSUME Inv, Ground, NEW e, Welcome(e) \/ SendTo(e) PROVE Remote /\ UNCHANGED <<sess, upper, lost, epoch>>
<1>1. UNCHANGED clientVars /\ UNCHANGED <<sess, reader, upper, lost, epoch, mixed>> BY DEF Welcome, SendTo
<1>2. PICK i, x, f : Answers(e, i, x, f) BY WelcomeFacts, SendToFacts
<1>3. i[1] = Server /\ Sends(i, x) /\ room' = room \cup {f} /\ DOMAIN f.pkts = {1} /\ f.pkts[1][1] = i
  BY <1>2 DEF Answers
<1>4. Foreign(Server) /\ \A e1 : NoHello(e1) /\ NoHeader(e1) BY <1>3, ForeignTraffic, SendSays
<1>5. FrameUse(f) BY <1>3 DEF FrameUse
<1>6. Carried BY <1>1, <1>3, <1>5, OldFrames, SameReaders, TrafficGot, SameGotUse, ServerCarries
<1> QED BY <1>1, <1>4, <1>6 DEF Remote

LEMMA LeaveRemote ==
  ASSUME Inv, Ground, Sweep \/ ServerCloses PROVE Remote /\ UNCHANGED <<answered, upper, epoch>>
<1>1. UNCHANGED clientVars /\ UNCHANGED <<reader, answered, upper, epoch, mixed>> /\ \A f \in room' : f \in room
  BY DEF Sweep, ServerCloses
<1>2. NoTraffic BY SweepFacts, CloseFacts
<1>3. Carried BY <1>1, <1>2, OldFrames, SameReaders, TrafficGot, SameGotUse, ServerCarries
<1> QED BY <1>1, <1>2, <1>3, ForeignSame, SameSays DEF Remote

LEMMA DrawRemote ==
  ASSUME Inv, Ground, ServerReconnects \/ ServerRestarts PROVE Remote /\ NoTraffic /\ UNCHANGED <<sess, lost>>
<1>1. UNCHANGED clientVars /\ UNCHANGED <<sess, lost, mixed>> BY DEF ServerReconnects, ServerRestarts, serverVars
<1>2. NoTraffic /\ (\A c \in Clients : epoch'[c] = epoch[c]) /\ \A f \in room' : f \in room BY ServerDraws
<1>3. \A w \in Readers : ReaderUse(w)
  <2>1. CASE ServerReconnects BY <2>1, SameReaders DEF ServerReconnects, serverVars
  <2>2. CASE ServerRestarts BY <2>2, IdleUse DEF ServerRestarts, Reading, IdleReader
  <2> QED BY <2>1, <2>2
<1>4. Carried BY <1>1, <1>2, <1>3, OldFrames, TrafficGot, SameGotUse, ServerCarries
<1> QED BY <1>1, <1>2, <1>4, ForeignSame, SameSays DEF Remote

LEMMA StutterRemote ==
  ASSUME Inv, Ground, UNCHANGED vars PROVE Remote
<1>1. UNCHANGED clientVars /\ UNCHANGED <<rt, room, reader, epoch, mixed>> BY DEF vars, clientVars
<1>2. NoTraffic BY <1>1, SameRtTraffic
<1>3. Carried BY <1>1, <1>2, OldFrames, SameReaders, TrafficGot, SameGotUse, ServerCarries
<1> QED BY <1>1, <1>2, <1>3, ForeignSame, SameSays DEF Remote

------------------------------------------------------------------------------
(* Who has been heard.                                                      *)

LEMMA UpperSent ==
  ASSUME Inv, NEW p \in Planes, NEW e \in Epochs
  PROVE  /\ upper[p][e] \in Seq(SentBy(rt))
         /\ \A n \in DOMAIN upper[p][e] : upper[p][e][n] \in SentBy(rt) /\ upper[p][e][n][1] \in DOMAIN rt
            /\ upper[p][e][n][2] \in 1 .. Len(rt[upper[p][e][n][1]].msgs)
<1>1. upper[p][e] \in Seq(SentBy(rt)) BY DEF Inv, ServerTypes
<1> QED BY <1>1, SentBySomeone

LEMMA HeardKept ==
  ASSUME Inv, HeardInv, Steady, AnsweredStep, UpperStep, SpeechStep PROVE HeardInv'
<1>1. Epochs' = Epochs BY DEF Steady, Epochs
<1>2. answered' \in [Epochs -> Nat] BY DEF AnsweredStep
<1>3. ASSUME NEW e \in Epochs, NEW n \in DOMAIN upper'["control"][e]
      PROVE  FromClient(upper["control"][e][n], "control", e)'
  <2> DEFINE pkt == upper'["control"][e][n]
  <2>1. FromClient(pkt, "control", e) /\ pkt[1] \in DOMAIN rt
    <3>1. CASE n \in DOMAIN upper["control"][e] /\ pkt = upper["control"][e][n]
      BY <1>3, <3>1, UpperSent DEF HeardInv, Planes
    <3> QED BY <1>3, <3>1 DEF UpperStep
  <2> HIDE DEF pkt
  <2>2. pkt[1][1] # Server /\ rt'[pkt[1]].plane = "control" /\ rt'[pkt[1]].src = e
    BY <2>1 DEF FromClient, Steady, SteadyRuntime
  <2> QED BY <2>2 DEF FromClient, pkt
<1>4. \A e \in Epochs : answered'[e] > 0 => ~Silent(e)' BY HeardStays DEF AnsweredStep, HeardInv
<1>5. ASSUME NEW j \in DOMAIN rt', j[1] = Server, rt'[j].plane = "control", rt'[j].msgs # <<>>, NEW e, e = rt'[j].dst
      PROVE  ~Silent(e)'
  BY <1>5, HeardStays DEF SpeechStep, HeardInv
<1>6. ASSUME NEW j \in DOMAIN rt', j[1] = Server, rt'[j].plane = "control", rt'[j].msgs # <<>>
      PROVE  ~Silent(rt[j].dst)'
  BY <1>5, <1>6 DEF Silent, Speaks
<1> QED BY <1>1, <1>2, <1>3, <1>4, <1>6 DEF HeardInv

LEMMA SameAnswers ==
  ASSUME HeardInv, answered' = answered PROVE AnsweredStep
BY DEF HeardInv, AnsweredStep

LEMMA SameUpper ==
  ASSUME upper' = upper PROVE UpperStep
BY DEF UpperStep

\* Traffic in which the server says nothing on a control plane.
LEMMA SameSpeech ==
  ASSUME \/ NoTraffic
         \/ \E d, p, src, dst : Begins(d, p, src, dst)
         \/ \E d, pkts : Takes(d, pkts)
         \/ \E d, x : Sends(d, x) /\ (d[1] # Server \/ rt[d].plane = "data")
         \/ \E n : n # Server /\ Foreign(n)
  PROVE  SpeechStep
BY DEF SpeechStep, NoTraffic, Begins, Takes, Sends, Foreign, SameTraffic

LEMMA ClientHeard ==
  ASSUME Inv, HeardInv, Steady, NEW c \in Clients, Apart(c) PROVE HeardInv'
<1>1. UNCHANGED <<answered, upper>> BY DEF Apart, serverVars
<1>2. SpeechStep BY SameSpeech, ServerIsNoClient DEF Apart
<1> QED BY <1>1, <1>2, SameAnswers, SameUpper, HeardKept

LEMMA PeerSessionHeard ==
  ASSUME Inv, Ground, HeardInv, Steady, NEW w \in Readers, TakeFrame(w) \/ PeerSessionFor(w) PROVE HeardInv'
<1>1. UNCHANGED <<answered, upper>> BY DEF TakeFrame, PeerSessionFor
<1>2. SpeechStep
  <2>1. CASE TakeFrame(w) BY <2>1, SameRtTraffic, SameSpeech DEF TakeFrame
  <2>2. CASE PeerSessionFor(w) BY <2>2, PeerSessionFacts, SameRtTraffic, SameSpeech DEF Joins
  <2> QED BY <2>1, <2>2
<1> QED BY <1>1, <1>2, SameAnswers, SameUpper, HeardKept

LEMMA DeliverHeard ==
  ASSUME Inv, Ground, HeardInv, Steady, NEW w \in Readers, DeliverData(w) \/ PeerControlFor(w) PROVE HeardInv'
<1>1. answered' = answered BY DEF DeliverData, PeerControlFor
<1> DEFINE r == reader[w]
<1>2. CASE DeliverData(w)
  <2>1. r.src \in Epochs /\ \E i : Delivers(i, r.src, "data", r.pkts) BY <1>2, DeliverDataFacts
  <2>2. PICK i : Takes(i, r.pkts) /\ \A q \in Planes, x \in Epochs : (q # "data" \/ x # r.src) => upper'[q][x] = upper[q][x]
    BY <2>1 DEF Delivers
  <2>3. \A e \in Epochs : upper'["control"][e] = upper["control"][e] BY <2>2 DEF Planes
  <2>4. UpperStep BY <2>3 DEF UpperStep
  <2>5. SpeechStep BY <2>2, SameSpeech
  <2> QED BY <1>1, <2>4, <2>5, SameAnswers, HeardKept
<1>3. CASE PeerControlFor(w)
  <2> DEFINE i == sess[r.sess].control
  <2>1. /\ r.src \in Epochs
        /\ \/ Opens(r.sess) /\ UNCHANGED <<reader, upper>>
           \/ /\ i # None /\ i \in DOMAIN rt /\ i[1] = Server /\ rt[i].plane = "control" /\ rt[i].dst = r.src
              /\ r.pkts \in Seq(SentBy(rt)) /\ r.plane = "control"
              /\ Delivers(i, r.src, "control", r.pkts) /\ Regular
              /\ \A k \in DOMAIN r.pkts : FromClient(r.pkts[k], "control", r.src)
              /\ reader' = [reader EXCEPT ![w] = IdleReader] /\ UNCHANGED sess
    BY <1>3, PeerControlFacts
  <2>2. CASE Opens(r.sess) /\ upper' = upper
    BY <1>1, <2>2, SameSpeech, SameAnswers, SameUpper, HeardKept DEF Opens
  <2>3. CASE /\ r.pkts \in Seq(SentBy(rt)) /\ Delivers(i, r.src, "control", r.pkts)
             /\ \A k \in DOMAIN r.pkts : FromClient(r.pkts[k], "control", r.src)
    <3>1. SpeechStep BY <2>3, SameSpeech DEF Delivers
    <3>2. \A k \in DOMAIN r.pkts : r.pkts[k][1] \in DOMAIN rt BY <2>3, SentBySomeone
    <3>3. ASSUME NEW e \in Epochs, NEW n \in DOMAIN upper'["control"][e]
          PROVE  \/ n \in DOMAIN upper["control"][e] /\ upper'["control"][e][n] = upper["control"][e][n]
                 \/ FromClient(upper'["control"][e][n], "control", e) /\ upper'["control"][e][n][1] \in DOMAIN rt
      <4>1. CASE e # r.src BY <2>3, <3>3, <4>1 DEF Delivers, Planes
      <4>2. CASE e = r.src BY <2>3, <3>2, <3>3, <4>2 DEF Delivers
      <4> QED BY <4>1, <4>2
    <3>4. UpperStep BY <3>3 DEF UpperStep
    <3> QED BY <1>1, <3>1, <3>4, SameAnswers, HeardKept
  <2> QED BY <2>1, <2>2, <2>3
<1> QED BY <1>2, <1>3

\* Something of e came out of the control plane.
LEMMA HeardOf ==
  ASSUME Inv, HeardInv, NEW e \in Epochs, upper["control"][e] # <<>> PROVE ~Silent(e)
<1> DEFINE pkt == upper["control"][e][1]
<1>1. upper["control"][e] \in Seq(SentBy(rt)) BY UpperSent DEF Planes
<1>2. 1 \in DOMAIN upper["control"][e] BY <1>1
<1>3. FromClient(pkt, "control", e) /\ pkt[1] \in DOMAIN rt /\ pkt[2] \in 1 .. Len(rt[pkt[1]].msgs)
  BY <1>2, UpperSent DEF HeardInv, Planes
<1>4. rt[pkt[1]].msgs # <<>> BY <1>3
<1>5. Speaks(pkt[1], e) BY <1>3, <1>4 DEF Speaks, FromClient
<1> QED BY <1>5 DEF Silent

LEMMA WelcomeHeard ==
  ASSUME Inv, Ground, HeardInv, Steady, NEW e \in AllEpochs, Welcome(e)
  PROVE  HeardInv' /\ e \in Epochs /\ ~Silent(e)
<1>1. /\ answered' = [answered EXCEPT ![e] = @ + 1] /\ answered[e] < Len(upper["control"][e]) /\ upper' = upper
  BY DEF Welcome
<1>2. PICK f : Answers(e, sess[Get(e)].control, epoch[Server], f) BY WelcomeFacts
<1> DEFINE i == sess[Get(e)].control
<1>3. e \in Epochs BY <1>2, DrawnFacts DEF Answers, Ground, OriginInv, ServerRtOK, Epochs
<1>4. answered[e] \in Nat /\ answered \in [Epochs -> Nat] BY <1>3 DEF HeardInv
<1>5. upper["control"][e] # <<>> BY <1>1, <1>4
<1>6. ~Silent(e) BY <1>3, <1>5, HeardOf
<1>7. AnsweredStep
  <2>1. \A x \in Epochs : answered'[x] = IF x = e THEN answered[e] + 1 ELSE answered[x] BY <1>1, <1>4
  <2>2. answered' \in [Epochs -> Nat] BY <1>1, <1>3, <1>4
  <2> QED BY <1>6, <2>1, <2>2 DEF AnsweredStep
<1>8. SpeechStep
  <2> HIDE DEF i
  <2>1. Sends(i, epoch[Server]) /\ rt[i].dst = e BY <1>2 DEF Answers, i
  <2> QED BY <1>6, <2>1 DEF SpeechStep, Sends, SameTraffic
<1> QED BY <1>1, <1>3, <1>6, <1>7, <1>8, SameUpper, HeardKept

LEMMA ServerHeard ==
  ASSUME Inv, Ground, HeardInv, Steady,
         (\E e : SendTo(e)) \/ Sweep \/ ServerCloses \/ ServerReconnects \/ ServerRestarts \/ UNCHANGED vars
  PROVE  HeardInv'
<1>1. SpeechStep
  <2>1. CASE \E e : SendTo(e) BY <2>1, SendToFacts, SameSpeech DEF Answers
  <2>2. CASE Sweep \/ ServerCloses \/ ServerReconnects \/ ServerRestarts
    BY <2>2, SweepFacts, CloseFacts, ServerDraws, SameSpeech
  <2>3. CASE UNCHANGED vars BY <2>3, SameRtTraffic, SameSpeech DEF vars
  <2> QED BY <2>1, <2>2, <2>3
<1>2. CASE ServerRestarts
  <2>1. answered' = [e \in Epochs |-> 0] /\ upper' = [p \in Planes |-> [e \in Epochs |-> <<>>]]
    BY <1>2 DEF ServerRestarts
  <2>2. AnsweredStep BY <2>1 DEF AnsweredStep
  <2>3. \A e \in Epochs : upper'["control"][e] = <<>> BY <2>1 DEF Planes
  <2>4. UpperStep BY <2>3 DEF UpperStep
  <2> QED BY <1>1, <2>2, <2>4, HeardKept
<1>3. CASE ~ServerRestarts
  BY <1>1, <1>3, SameAnswers, SameUpper, HeardKept DEF SendTo, Sweep, ServerCloses, ServerReconnects, vars, serverVars
<1> QED BY <1>2, <1>3

------------------------------------------------------------------------------
(* The streams of a client.                                                 *)

LEMMA EpochsKept ==
  ASSUME NEW e \in Nat
  PROVE  /\ Quiet(e) => (e \in Mute => e \in Mute') /\ (e \in Lone => e \in Lone') /\ (e \in Unused => e \in Unused')
         /\ NoHello(e) => (e \in Mute => e \in Mute')
         /\ e \in Mute <=> Silent(e)
         /\ e \in Lone <=> Sole(e)
         /\ e \in Unused <=> Clean(e)
         /\ e \in Mute' <=> Silent(e)'
         /\ e \in Lone' <=> Sole(e)'
         /\ e \in Unused' <=> Clean(e)'
<1>1. /\ e \in Mute <=> Silent(e)
      /\ e \in Lone <=> Sole(e)
      /\ e \in Unused <=> Clean(e)
      /\ e \in Mute' <=> Silent(e)'
      /\ e \in Lone' <=> Sole(e)'
      /\ e \in Unused' <=> Clean(e)'
  BY DEF Mute, Lone, Unused
<1>2. Quiet(e) => (Silent(e) => Silent(e)') /\ (Sole(e) => Sole(e)') /\ (Clean(e) => Clean(e)') BY QuietKeeps
<1>3. NoHello(e) => (Silent(e) => Silent(e)') BY SilentKept
<1> QED BY <1>1, <1>2, <1>3

\* The epochs the invariant of c speaks of are known to c.
LEMMA OwnEpochs ==
  ASSUME Inv, NEW c \in scene.clients
  PROVE  /\ epoch[c] \in Nat /\ ClientKnows(c, epoch[c])
         /\ DataSrc(c) \in Nat /\ ClientKnows(c, DataSrc(c))
         /\ ControlSrc(c) \in Nat /\ ClientKnows(c, ControlSrc(c))
         /\ \A g \in Goroutines : go[c][g].hdr \in Nat /\ (Pc(c, g) = "rotated" => ClientKnows(c, go[c][g].hdr))
         /\ \A g \in Goroutines : Pc(c, g) \in PCs
         /\ confirmed[c] \in BOOLEAN /\ closed[c] \in BOOLEAN /\ mu[c] \in Goroutines \cup {"free"}
<1>1. c \in Clients /\ c \in Nodes /\ plane[c]["data"] \in DOMAIN rt /\ plane[c]["control"] \in DOMAIN rt
      /\ plane[c]["data"][1] = c /\ plane[c]["control"][1] = c
  BY PlaneFacts DEF Nodes
<1>2. E0 \subseteq Nat BY SceneFacts DEF E0, Inv, RoomTypes
<1>3. epoch[c] \in E0 BY <1>1 DEF Inv, RoomTypes, EpochMap
<1>4. \A i \in DOMAIN rt : rt[i].src \in E0 BY DEF Inv, RoomTypes, RuntimesOK, RuntimeType
<1>5. \A g \in Goroutines : go[c][g] \in [pc : PCs, hdr : Nat] BY <1>1, ClientTypeFacts
<1>6. ClientKnows(c, epoch[c]) /\ ClientKnows(c, DataSrc(c)) /\ ClientKnows(c, ControlSrc(c))
  BY <1>1 DEF ClientKnows, DataSrc, ControlSrc
<1>7. \A g \in Goroutines : Pc(c, g) = "rotated" => ClientKnows(c, go[c][g].hdr) BY DEF ClientKnows, Pc
<1>8. confirmed[c] \in BOOLEAN /\ closed[c] \in BOOLEAN /\ mu[c] \in Goroutines \cup {"free"}
  BY <1>1, ClientTypeFacts
<1> QED BY <1>1, <1>2, <1>3, <1>4, <1>5, <1>6, <1>7, <1>8 DEF DataSrc, ControlSrc, Pc

\* The data a client has received keeps its source.
LEMMA GotSources ==
  ASSUME Inv, Ground, Steady, NEW i \in DOMAIN rt, i[1] # Server, NEW n \in DOMAIN rt[i].got
  PROVE  LET a == rt[i].got[n][1]
         IN  a \in DOMAIN rt /\ a[1] = Server /\ rt'[a].src = rt[a].src /\ rt'[a].dst = rt[a].dst
             /\ rt[a].plane = rt[i].plane
<1> DEFINE a == rt[i].got[n][1]
<1>1. a[1] = Server /\ rt[a].plane = rt[i].plane BY DEF Ground, OriginInv, ClientRtOK
<1>2. rt[i].got \in Seq(SentBy(rt)) BY RuntimeFields DEF Inv, RoomTypes
<1>3. a \in DOMAIN rt BY <1>2, SentBySomeone
<1> QED BY <1>1, <1>3 DEF Steady, SteadyRuntime

LEMMA StreamsStay ==
  ASSUME Inv, Ground, Steady, NEW c \in scene.clients, StreamsOf(c), Still(c), \A e : ClientKnows(c, e) => Quiet(e)
  PROVE  StreamsOf(c)'
<1>0. /\ "provider" \in Goroutines /\ "session" \in Goroutines /\ \A g \in Goroutines : g \in {"provider", "session"}
  BY DEF Goroutines
<1>1. /\ epoch[c] \in Mute => epoch[c] \in Mute'
      /\ epoch[c] \in Lone => epoch[c] \in Lone'
      /\ epoch[c] \in Unused => epoch[c] \in Unused'
      /\ ControlSrc(c) \in Mute => ControlSrc(c) \in Mute'
      /\ ControlSrc(c) \in Lone => ControlSrc(c) \in Lone'
      /\ \A g \in Goroutines : Pc(c, g) = "rotated" => (go[c][g].hdr \in Mute => go[c][g].hdr \in Mute')
  BY OwnEpochs, EpochsKept
<1>2. /\ \A g \in Goroutines : Pc(c, g)' = Pc(c, g)
      /\ First(c)' <=> First(c)
  BY DEF Still, Pc, First
<1>3. SilenceOf(c)' BY <1>0, <1>1, <1>2 DEF StreamsOf, SilenceOf, Still
<1>4. NewbornOf(c)' BY <1>0, <1>2 DEF StreamsOf, NewbornOf, Still
<1>5. HeadersOf(c)' BY <1>0, <1>2 DEF StreamsOf, HeadersOf, Still
<1>6. SoleOf(c)' BY <1>0, <1>1, <1>2 DEF StreamsOf, SoleOf, Still
<1>7. ASSUME NEW n \in DOMAIN DataGot(c) PROVE rt'[DataGot(c)[n][1]].src = rt[DataGot(c)[n][1]].src
  BY <1>7, PlaneFacts, GotSources DEF DataGot
<1>8. BoundOf(c)' BY <1>2, <1>7 DEF StreamsOf, BoundOf, Still
<1> QED BY <1>3, <1>4, <1>5, <1>6, <1>8 DEF StreamsOf

LEMMA PlanesKept ==
  ASSUME Inv, NEW c \in scene.clients, plane'[c] = plane[c],
         \A i \in DOMAIN rt : i[1] = c => rt'[i].src = rt[i].src /\ rt'[i].got = rt[i].got
  PROVE  SamePlanes(c)
BY PlaneFacts DEF SamePlanes, DataSrc, DataGot, ControlSrc

LEMMA NoTrafficPlanes ==
  ASSUME Inv, NEW c \in scene.clients, plane'[c] = plane[c], NoTraffic PROVE SamePlanes(c)
BY PlanesKept DEF NoTraffic, SameTraffic

LEMMA QuietTraffic ==
  ASSUME NoTraffic, Carried PROVE \A e : Quiet(e)
BY SameSays, QuietBy

LEMMA DataSources ==
  ASSUME Inv, Ground, Steady, NEW c \in scene.clients
  PROVE  \A n \in DOMAIN DataGot(c) : rt'[DataGot(c)[n][1]].src = rt[DataGot(c)[n][1]].src
BY PlaneFacts, GotSources DEF DataGot

LEMMA LullFacts ==
  ASSUME Inv, Ground, Steady, NEW c \in scene.clients, NoTraffic, Carried, plane' = plane, epoch' = epoch,
         confirmed' = confirmed, peerEpoch' = peerEpoch, closed' = closed
  PROVE  Lull(c)
<1>1. SamePlanes(c) BY NoTrafficPlanes
<1>2. \A e : Quiet(e) BY QuietTraffic
<1> QED BY <1>1, <1>2, OwnEpochs, EpochsKept, DataSources DEF Lull

LEMMA TwoGoroutines ==
  /\ "provider" \in Goroutines /\ "session" \in Goroutines
  /\ \A g \in Goroutines : g = "provider" \/ g = "session"
BY DEF Goroutines

LEMMA MovesByTo ==
  ASSUME Inv, NEW c \in Clients, NEW g \in Goroutines, NEW pc \in PCs, To(c, g, pc)
  PROVE  Moves(c, g, Pc(c, g), pc)
BY ToMoves DEF Moves, Moved, Pc

LEMMA ProviderReconnectedStreams ==
  ASSUME Inv, Ground, Steady, NEW c \in scene.clients, StreamsOf(c), ProviderReconnected(c) PROVE StreamsOf(c)'
<1>1. /\ c \in Clients /\ MuInv(c) BY PlaneFacts
<1>2. Lull(c) /\ mu'[c] = mu[c] BY <1>1, MoveApart, LullFacts DEF ProviderReconnected
<1>3. Moves(c, "provider", "idle", "restart")
  BY <1>1, TwoGoroutines, MovesByTo DEF PCs, ProviderReconnected, At, Pc
<1>4. /\ Pc(c, "session")' = Pc(c, "session") /\ (First(c)' <=> First(c)) /\ mu[c] # "provider"
      /\ go'[c]["session"] = go[c]["session"]
  BY <1>1, <1>3, TwoGoroutines DEF Moves, Pc, First, MuInv
<1> USE <1>2, <1>3, <1>4, TwoGoroutines DEF StreamsOf, Lull, SamePlanes, Moves
<1>5. SilenceOf(c)' BY DEF SilenceOf
<1>6. NewbornOf(c)' BY DEF NewbornOf
<1>7. HeadersOf(c)' BY DEF HeadersOf
<1>8. SoleOf(c)' BY DEF SoleOf
<1>9. BoundOf(c)' BY DEF BoundOf
<1> QED BY <1>5, <1>6, <1>7, <1>8, <1>9 DEF StreamsOf

\* handleReconnect takes the lock: nobody shakes hands.
LEMMA LockStreams ==
  ASSUME Inv, Ground, Steady, NEW c \in scene.clients, StreamsOf(c), NEW g \in Goroutines, LockReconnect(c, g),
         ProviderLocks(c) \/ LinkDies(c), g = "provider" => Pc(c, "provider") = "restarted"
  PROVE  StreamsOf(c)'
<1>1. c \in Clients /\ MuInv(c) BY PlaneFacts
<1>2. Lull(c) BY <1>1, MoveApart, LullFacts
<1>3. mu[c] = "free" /\ mu'[c] = g BY <1>1, ClientTypeFacts DEF LockReconnect
<1>4. Moves(c, g, Pc(c, g), "restart") BY <1>1, MovesByTo DEF PCs, LockReconnect
<1>5. /\ Pc(c, "session") = "idle" /\ Pc(c, "session")' \in {"idle", "restart"} /\ ~First(c)'
      /\ Pc(c, "provider") \notin {"hello", "welcome"}
      /\ Pc(c, "provider")' = (IF g = "provider" THEN "restart" ELSE Pc(c, "provider"))
  BY <1>1, <1>3, <1>4, TwoGoroutines DEF Moves, Pc, First, MuInv
<1> USE <1>2, <1>3, <1>4, <1>5, TwoGoroutines DEF StreamsOf, Lull, SamePlanes, Moves
<1>6. SilenceOf(c)' BY DEF SilenceOf, Pc
<1>7. NewbornOf(c)' BY DEF NewbornOf
<1>8. HeadersOf(c)' BY DEF HeadersOf
<1>9. SoleOf(c)' BY DEF SoleOf
<1>10. BoundOf(c)' BY DEF BoundOf, Pc
<1> QED BY <1>6, <1>7, <1>8, <1>9, <1>10 DEF StreamsOf

LEMMA ContinueStreams ==
  ASSUME Inv, Ground, Steady, NEW c \in scene.clients, StreamsOf(c), ContinueReconnect(c) PROVE StreamsOf(c)'
<1>1. c \in Clients /\ MuInv(c) BY PlaneFacts
<1>2. Lull(c) BY <1>1, MoveApart, LullFacts
<1>3. "hello" \in PCs /\ "idle" \in PCs BY DEF PCs
<1>4. CASE mu[c] = "provider" /\ At(c, "provider", "restarted") /\ To(c, "provider", "hello") /\ mu' = mu
  <2>1. Moves(c, "provider", "restarted", "hello") BY <1>1, <1>3, <1>4, TwoGoroutines, MovesByTo DEF At, Pc
  <2>2. Pc(c, "session") = "idle" /\ Pc(c, "session")' = "idle" /\ ~First(c)' /\ mu'[c] = "provider"
    BY <1>1, <1>4, <2>1, TwoGoroutines DEF Moves, Pc, First, MuInv
  <2> USE <1>2, <1>4, <2>1, <2>2, TwoGoroutines DEF StreamsOf, Lull, SamePlanes, Moves
  <2>3. SilenceOf(c)' BY DEF SilenceOf, Pc
  <2>4. NewbornOf(c)' BY DEF NewbornOf
  <2>5. HeadersOf(c)' BY DEF HeadersOf
  <2>6. SoleOf(c)' BY DEF SoleOf
  <2>7. BoundOf(c)' BY DEF BoundOf, Pc
  <2> QED BY <2>3, <2>4, <2>5, <2>6, <2>7 DEF StreamsOf
<1>5. CASE mu[c] = "session" /\ At(c, "session", "restarted") /\ To(c, "session", "idle") /\ mu' = [mu EXCEPT ![c] = "free"]
  <2>1. Moves(c, "session", "restarted", "idle") BY <1>1, <1>3, <1>5, TwoGoroutines, MovesByTo DEF At, Pc
  <2>2. /\ Pc(c, "session")' = "idle" /\ ~First(c)' /\ mu'[c] = "free" /\ Pc(c, "provider")' = Pc(c, "provider")
        /\ Pc(c, "provider") \notin {"hello", "welcome"}
    BY <1>1, <1>5, <2>1, TwoGoroutines, ClientTypeFacts DEF Moves, Pc, First, MuInv
  <2> USE <1>2, <2>1, <2>2, TwoGoroutines DEF StreamsOf, Lull, SamePlanes, Moves
  <2>3. SilenceOf(c)' BY DEF SilenceOf, Pc
  <2>4. NewbornOf(c)' BY DEF NewbornOf
  <2>5. HeadersOf(c)' BY DEF HeadersOf
  <2>6. SoleOf(c)' BY DEF SoleOf
  <2>7. BoundOf(c)' BY DEF BoundOf, Pc
  <2> QED BY <2>3, <2>4, <2>5, <2>6, <2>7 DEF StreamsOf
<1> QED BY <1>4, <1>5 DEF ContinueReconnect, AfterReset

LEMMA FailStreams ==
  ASSUME Inv, Ground, Steady, NEW c \in scene.clients, StreamsOf(c), HandshakeFails(c) PROVE StreamsOf(c)'
<1>1. c \in Clients /\ MuInv(c) BY PlaneFacts
<1>2. Lull(c) BY <1>1, MoveApart, LullFacts
<1>3. PICK g \in Goroutines :
        g = mu[c] /\ mu'[c] = "free" /\ go[c][g].pc \in {"hello", "welcome"} /\ To(c, g, "idle")
  BY <1>1, ClientTypeFacts DEF HandshakeFails
<1>4. Moves(c, g, Pc(c, g), "idle") BY <1>1, <1>3, MovesByTo DEF PCs
<1>5. /\ Pc(c, "session")' = "idle" /\ ~First(c)'
      /\ Pc(c, "provider")' \in {"idle", Pc(c, "provider")} /\ Pc(c, "provider")' \notin {"hello", "welcome"}
      /\ Pc(c, "provider")' # "idle" => go'[c]["provider"] = go[c]["provider"]
  <2>1. CASE g = "session" BY <1>1, <1>3, <1>4, <2>1, TwoGoroutines DEF Moves, MuInv, Pc, First
  <2>2. CASE g = "provider" BY <1>1, <1>3, <1>4, <2>2, TwoGoroutines DEF Moves, MuInv, Pc, First
  <2> QED BY <1>3, <2>1, <2>2, TwoGoroutines
<1> USE <1>2, <1>3, <1>5, TwoGoroutines DEF StreamsOf, Lull, SamePlanes
<1>6. SilenceOf(c)' BY DEF SilenceOf, Pc
<1>7. NewbornOf(c)' BY DEF NewbornOf
<1>8. HeadersOf(c)' BY DEF HeadersOf
<1>9. SoleOf(c)' BY DEF SoleOf
<1>10. BoundOf(c)' BY DEF BoundOf, Pc
<1> QED BY <1>6, <1>7, <1>8, <1>9, <1>10 DEF StreamsOf

\* Nothing has been sent under an epoch that was not drawn.
LEMMA FreshEpoch ==
  ASSUME Inv, Ground, HereInv, NEW x, x = drawn + 1 PROVE x \in Nat /\ Silent(x) /\ Clean(x)
<1>1. x \in Nat /\ x \notin 1 .. drawn /\ x \notin 0 .. drawn BY DrawnFacts
<1>2. ~ServerKnows(x) /\ \A c \in scene.clients : ~ClientKnows(c, x) BY Unknown DEF Ground
<1>3. ASSUME NEW i \in DOMAIN rt, i[1] # Server PROVE rt[i].src # x BY <1>2, <1>3 DEF HereInv, ClientKnows
<1>4. Silent(x) BY <1>3 DEF Silent, Speaks
<1>5. \A i : ~Headed(i, x) BY <1>3 DEF Headed
<1>6. ASSUME NEW c \in Clients, NEW k \in DOMAIN out[c] PROVE out[c][k].src # x
  <2>1. out[c] \in Seq(Stamped(E0, SentBy(rt))) BY ClientTypeFacts
  <2>2. out[c][k] \in Stamped(E0, SentBy(rt)) BY <1>6, <2>1
  <2>3. out[c][k].pkt[1] \in DOMAIN rt BY <2>2 DEF Stamped, SentBy
  <2>4. out[c][k].pkt[1][1] = c BY <1>6 DEF Ground, OutInv
  <2>5. c \in scene.clients BY <2>3, <2>4, ServerIsNoClient DEF HereInv
  <2> QED BY <1>2, <1>6, <2>5 DEF ClientKnows
<1>7. \A i : ~InQueue(i, x) BY <1>6 DEF InQueue
<1>8. \A i : ~InFrame(i, x) BY <1>1 DEF InFrame, Ground, FrameInv, FrameOK
<1>9. \A i : ~InReader(i, x) BY <1>1 DEF InReader, Ground, HoldInv, HoldsOK
<1>10. \A i : ~InSession(i, x) BY <1>1 DEF InSession, Ground, OriginInv, ServerRtOK
<1> QED BY <1>1, <1>4, <1>5, <1>7, <1>8, <1>9, <1>10 DEF Clean, Uses

LEMMA HeaderStreams ==
  ASSUME Inv, Ground, Steady, NEW c \in scene.clients, StreamsOf(c), NEW g \in Goroutines, ControlEpochHeader(c, g)
  PROVE  StreamsOf(c)'
<1>1. c \in Clients /\ MuInv(c) BY PlaneFacts
<1>2. Lull(c) /\ mu'[c] = mu[c] BY <1>1, HeaderApart, LullFacts
<1>3. /\ Pc(c, g) = "data" /\ Pc(c, g)' = "header" /\ go'[c][g].hdr = epoch[c]
      /\ \A h \in Goroutines : h # g => go'[c][h] = go[c][h] /\ Pc(c, h)' = Pc(c, h)
  BY <1>1, HeaderMoves DEF Moved, Pc
<1>4. /\ g = "session" => mu[c] = "session" /\ ~First(c) /\ ~First(c)'
      /\ g = "provider" => (First(c)' <=> First(c))
  BY <1>1, <1>3, TwoGoroutines DEF First, MuInv, Pc
<1> USE <1>2, <1>3, <1>4, TwoGoroutines DEF StreamsOf, Lull, SamePlanes
<1>5. SilenceOf(c)' BY DEF SilenceOf
<1>6. NewbornOf(c)' BY DEF NewbornOf
<1>7. HeadersOf(c)' BY DEF HeadersOf
<1>8. SoleOf(c)' BY DEF SoleOf
<1>9. BoundOf(c)' BY DEF BoundOf
<1> QED BY <1>5, <1>6, <1>7, <1>8, <1>9 DEF StreamsOf

LEMMA RotateStreams ==
  ASSUME Inv, Ground, HereInv, Steady, NEW c \in scene.clients, StreamsOf(c), NEW g \in Goroutines, RotateEpochHeader(c, g)
  PROVE  StreamsOf(c)'
<1>1. c \in Clients /\ MuInv(c) BY PlaneFacts
<1>2. NoTraffic /\ Carried /\ plane' = plane /\ closed' = closed /\ mu' = mu BY <1>1, RotateApart
<1>3. SamePlanes(c) /\ \A e : Quiet(e) BY <1>2, NoTrafficPlanes, QuietTraffic
<1> DEFINE x == drawn + 1
<1>4. /\ Pc(c, g) = "restart" /\ Pc(c, g)' = "rotated" /\ go'[c][g].hdr = x /\ epoch'[c] = x /\ ~confirmed'[c]
      /\ \A h \in Goroutines : h # g => go'[c][h] = go[c][h] /\ Pc(c, h)' = Pc(c, h)
  BY <1>1, RotateFacts DEF Moved, Pc
<1>5. x \in Nat /\ x \in Mute' /\ x \in Unused'
  <2>1. x \in Nat /\ Silent(x) /\ Clean(x) /\ Quiet(x) BY <1>3, FreshEpoch
  <2> HIDE DEF x
  <2> QED BY <2>1, EpochsKept
<1>6. ControlSrc(c) # x BY OwnEpochs, Unknown DEF Ground
<1>7. /\ ControlSrc(c) \in Mute => ControlSrc(c) \in Mute'
      /\ ControlSrc(c) \in Lone => ControlSrc(c) \in Lone'
      /\ \A h \in Goroutines : go[c][h].hdr \in Mute => go[c][h].hdr \in Mute'
  BY <1>3, OwnEpochs, EpochsKept
<1> HIDE DEF x
<1>8. /\ g = "session" => mu[c] = "session" /\ ~First(c) /\ ~First(c)'
      /\ g = "provider" => (First(c)' <=> First(c))
  BY <1>1, <1>4, TwoGoroutines DEF First, MuInv, Pc
<1> USE <1>2, <1>3, <1>4, <1>8, TwoGoroutines DEF StreamsOf, SamePlanes
<1>9. SilenceOf(c)' BY <1>5, <1>7 DEF SilenceOf
<1>10. NewbornOf(c)' BY DEF NewbornOf
<1>11. HeadersOf(c)' BY <1>6 DEF HeadersOf
<1>12. SoleOf(c)' BY <1>5, <1>7 DEF SoleOf
<1>13. BoundOf(c)' BY DEF BoundOf
<1> QED BY <1>9, <1>10, <1>11, <1>12, <1>13 DEF StreamsOf

\* What RestartControl does to the planes of c.
LEMMA RestartControlStreams ==
  ASSUME Inv, Ground, Steady, NEW c \in scene.clients, StreamsOf(c), NEW g \in Goroutines, RestartControl(c, g)
  PROVE  StreamsOf(c)'
<1>1. c \in Clients /\ MuInv(c) /\ "control" \in Planes /\ "data" \in Planes BY PlaneFacts DEF Planes
<1> DEFINE h0 == go[c][g].hdr
<1>2. /\ Carried
      /\ epoch' = epoch /\ confirmed' = confirmed /\ peerEpoch' = peerEpoch /\ closed' = closed /\ mu' = mu
      /\ Pc(c, g) = "header" /\ Pc(c, g)' = "restarted"
      /\ \A h \in Goroutines : h # g => go'[c][h] = go[c][h] /\ Pc(c, h)' = Pc(c, h)
      /\ \/ closed[c] /\ UNCHANGED <<rt, plane>>
         \/ ~closed[c] /\ Replaced(c, "control", h0) /\ Begins(plane'[c]["control"], "control", h0, 0)
  BY <1>1, RestartApart DEF Moved, Pc
<1>3. \A e : Quiet(e) BY <1>2, SameRtTraffic, SameSays, BeginSays, QuietBy
<1>4. /\ DataSrc(c)' = DataSrc(c) /\ DataGot(c)' = DataGot(c)
      /\ closed[c] => ControlSrc(c)' = ControlSrc(c)
      /\ ~closed[c] => ControlSrc(c)' = h0
  <2>1. CASE closed[c] /\ UNCHANGED <<rt, plane>> BY <2>1 DEF DataSrc, DataGot, ControlSrc
  <2>2. CASE ~closed[c] /\ Replaced(c, "control", h0)
    BY <1>1, <2>2, PlaneFacts DEF Replaced, DataSrc, DataGot, ControlSrc
  <2> QED BY <1>2, <2>1, <2>2
<1>5. /\ epoch[c] \in Mute => epoch[c] \in Mute'
      /\ epoch[c] \in Lone => epoch[c] \in Lone'
      /\ epoch[c] \in Unused => epoch[c] \in Unused'
      /\ ControlSrc(c) \in Mute => ControlSrc(c) \in Mute'
      /\ ControlSrc(c) \in Lone => ControlSrc(c) \in Lone'
      /\ \A h \in Goroutines : go[c][h].hdr \in Mute => go[c][h].hdr \in Mute'
      /\ \A n \in DOMAIN DataGot(c) : rt'[DataGot(c)[n][1]].src = rt[DataGot(c)[n][1]].src
  BY <1>3, OwnEpochs, EpochsKept, DataSources
<1>6. /\ g = "session" => mu[c] = "session" /\ ~First(c) /\ ~First(c)'
      /\ g = "provider" => (First(c)' <=> First(c))
  BY <1>1, <1>2, TwoGoroutines DEF First, MuInv, Pc
<1>7. First(c) /\ g = "provider" /\ ~closed[c] => ControlSrc(c)' = epoch[c] BY <1>2, <1>4 DEF StreamsOf, HeadersOf
<1>8. Pc(c, "session") = "hello" => First(c) BY DEF First
<1> USE <1>2, <1>4, <1>6, TwoGoroutines DEF StreamsOf
<1>9. SilenceOf(c)' BY <1>5, <1>7, <1>8 DEF SilenceOf
<1>10. NewbornOf(c)' BY DEF NewbornOf
<1>11. HeadersOf(c)' BY DEF HeadersOf
<1>12. SoleOf(c)' BY <1>5, <1>7, <1>8 DEF SoleOf
<1>13. BoundOf(c)' BY <1>5 DEF BoundOf
<1> QED BY <1>9, <1>10, <1>11, <1>12, <1>13 DEF StreamsOf

LEMMA RestartDataStreams ==
  ASSUME Inv, Ground, Steady, NEW c \in scene.clients, StreamsOf(c), NEW g \in Goroutines, RestartData(c, g)
  PROVE  StreamsOf(c)'
<1>1. c \in Clients /\ MuInv(c) /\ "control" \in Planes /\ "data" \in Planes BY PlaneFacts DEF Planes
<1>0. PICK h0 : h0 = go[c][g].hdr OBVIOUS
<1>2. /\ Carried
      /\ epoch' = epoch /\ confirmed' = confirmed /\ peerEpoch' = peerEpoch /\ closed' = closed /\ mu' = mu
      /\ Pc(c, g) = "rotated" /\ Pc(c, g)' = "data"
      /\ \A h \in Goroutines : h # g => go'[c][h] = go[c][h] /\ Pc(c, h)' = Pc(c, h)
      /\ \/ closed[c] /\ UNCHANGED <<rt, plane>>
         \/ ~closed[c] /\ Replaced(c, "data", h0) /\ Begins(plane'[c]["data"], "data", h0, 0)
  BY <1>0, <1>1, RestartApart DEF Moved, Pc
<1>3. (\A e : NoHello(e)) /\ \A e : e # h0 \/ closed[c] => Quiet(e)
  BY <1>2, SameRtTraffic, SameSays, BeginSays, QuietBy
<1>4. /\ ControlSrc(c)' = ControlSrc(c)
      /\ closed[c] => DataSrc(c)' = DataSrc(c) /\ DataGot(c)' = DataGot(c)
      /\ ~closed[c] => DataSrc(c)' = h0 /\ DataGot(c)' = <<>>
  <2>1. CASE closed[c] /\ UNCHANGED <<rt, plane>> BY <2>1 DEF DataSrc, DataGot, ControlSrc
  <2>2. CASE ~closed[c] /\ Replaced(c, "data", h0)
    BY <1>1, <2>2, PlaneFacts DEF Replaced, DataSrc, DataGot, ControlSrc
  <2> QED BY <1>2, <2>1, <2>2
<1>5. /\ epoch[c] \in Mute => epoch[c] \in Mute'
      /\ ControlSrc(c) \in Mute => ControlSrc(c) \in Mute'
      /\ \A h \in Goroutines : go[c][h].hdr \in Mute => go[c][h].hdr \in Mute'
      /\ \A n \in DOMAIN DataGot(c) : rt'[DataGot(c)[n][1]].src = rt[DataGot(c)[n][1]].src
      /\ ControlSrc(c) # h0 => (ControlSrc(c) \in Lone => ControlSrc(c) \in Lone')
  BY <1>3, OwnEpochs, EpochsKept, DataSources
<1>6. /\ g = "session" => mu[c] = "session" /\ ~First(c) /\ ~First(c)' /\ Pc(c, "session") # "hello"
      /\ g = "provider" => (First(c)' <=> First(c))
  BY <1>1, <1>2, TwoGoroutines DEF First, MuInv, Pc
<1>7. First(c) /\ g = "provider" /\ ~closed[c] => h0 = epoch[c] /\ ControlSrc(c) # epoch[c]
  BY <1>0, <1>2 DEF StreamsOf, HeadersOf
<1>8. Pc(c, "session") = "hello" => First(c) BY DEF First
<1>9. ASSUME ~closed[c], h0 = epoch[c], epoch[c] \in Unused PROVE epoch[c] \in Lone'
  <2>1. PICK e \in Nat : e = epoch[c] BY OwnEpochs
  <2>2. Begins(plane'[c]["data"], "data", e, 0) BY <1>2, <1>9, <2>1
  <2>3. \A i : ~Uses(i, e) BY <1>9, <2>1, EpochsKept DEF Clean
  <2>4. ASSUME NEW i, Headed(i, e)' PROVE i = plane'[c]["data"]
    BY <2>2, <2>3, <2>4 DEF Uses, Headed, Begins, SameTraffic
  <2>5. Sole(e)' BY <1>2, <2>3, <2>4, OnlyHeaders DEF Sole
  <2> QED BY <2>1, <2>5, EpochsKept
<1>10. SilenceOf(c)' BY <1>2, <1>4, <1>5, <1>6, <1>8, TwoGoroutines DEF StreamsOf, SilenceOf
<1>11. NewbornOf(c)' BY <1>2, <1>4, <1>6, TwoGoroutines DEF StreamsOf, NewbornOf
<1>12. HeadersOf(c)' BY <1>2, <1>4, <1>6, <1>7, TwoGoroutines DEF StreamsOf, HeadersOf
<1>13. SoleOf(c)'
  <2>1. ASSUME ~closed[c], mu[c] = "provider" \/ Pc(c, "session")' = "hello", g = "provider" PROVE epoch[c] \in Lone'
    BY <1>0, <1>2, <1>9, <2>1, TwoGoroutines DEF StreamsOf, SoleOf
  <2>2. ASSUME g = "session" PROVE mu'[c] = "session" /\ Pc(c, "session")' = "data" BY <1>2, <1>6, <2>2
  <2>3. ASSUME ~closed[c], Pc(c, "session")' = "hello" PROVE ControlSrc(c) \in Lone'
    <3>1. g = "provider" BY <2>2, <2>3, TwoGoroutines
    <3>2. Pc(c, "session") = "hello" BY <1>2, <2>3, <3>1, TwoGoroutines
    <3>3. ControlSrc(c) \in Lone /\ ControlSrc(c) # h0 BY <1>7, <1>8, <2>3, <3>1, <3>2 DEF StreamsOf, SoleOf
    <3> QED BY <1>5, <3>3
  <2>4. g = "provider" \/ g = "session" BY TwoGoroutines
  <2> QED BY <1>2, <1>4, <2>1, <2>2, <2>3, <2>4 DEF SoleOf
<1>14. BoundOf(c)'
  <2>1. confirmed[c] /\ ~closed[c] => h0 = epoch[c] /\ \A h \in Goroutines : Pc(c, h) = "rotated" => go[c][h].hdr = epoch[c]
    BY <1>0, <1>2 DEF StreamsOf, BoundOf
  <2>2. \A h \in Goroutines : Pc(c, h)' = "rotated" => Pc(c, h) = "rotated" /\ go'[c][h].hdr = go[c][h].hdr
    BY <1>2
  <2>3. DOMAIN <<>> = {} OBVIOUS
  <2> QED BY <1>2, <1>4, <2>1, <2>2, <2>3 DEF BoundOf
<1> QED BY <1>10, <1>11, <1>12, <1>13, <1>14 DEF StreamsOf

\* Who sends has not closed, and sends under an epoch of one data runtime and no
\* other hello.
LEMMA HelloFacts ==
  ASSUME Inv, Ground, NEW c \in scene.clients, StreamsOf(c), SendHello(c)
  PROVE  /\ ~closed[c] /\ ControlSrc(c) \in Mute /\ ControlSrc(c) \in Lone
         /\ mu[c] = "provider" => DataSrc(c) = epoch[c] /\ ControlSrc(c) = epoch[c]
<1>1. c \in Clients /\ MuInv(c) /\ AgreeInv(c) BY PlaneFacts
<1>2. /\ mu[c] \in Goroutines /\ Pc(c, mu[c]) = "hello" /\ rt[plane[c]["control"]].open BY <1>1, HelloMoves DEF Pc
<1>3. ~closed[c]
  <2> DEFINE i == plane[c]["control"]
  <2>1. i \in DOMAIN rt /\ i[1] = c /\ c # Server BY PlaneFacts
  <2>2. Owned(i) \/ Overtaken(i) BY <1>2, <2>1 DEF Inv, NoStrandedRuntime
  <2>3. ~Overtaken(i) BY <2>1 DEF Overtaken, Inv, SessionInv, None
  <2>4. ASSUME NEW k \in DOMAIN peers PROVE i \notin RuntimesOf(peers[k])
    BY <2>1, <2>4 DEF Inv, ServerTypes, RuntimesOf, SessionInv
  <2>5. PICK d \in Clients : ~closed[d] /\ \E p \in Planes : plane[d][p] = i BY <2>2, <2>3, <2>4 DEF Owned
  <2>6. d \in scene.clients BY <2>5 DEF Inv, ClientInv, PlaneInv
  <2>7. d = c BY <2>1, <2>5, <2>6, PlaneFacts
  <2> QED BY <2>5, <2>7
<1>4. CASE mu[c] = "session" BY <1>2, <1>3, <1>4 DEF StreamsOf, SilenceOf, SoleOf
<1>5. CASE mu[c] = "provider"
  <2>1. DataSrc(c) = epoch[c] /\ ControlSrc(c) = epoch[c]
    BY <1>1, <1>2, <1>3, <1>5, TwoGoroutines DEF AgreeInv, Alone, Pc, DataSrc, ControlSrc
  <2>2. epoch[c] \in Mute /\ epoch[c] \in Lone BY <1>2, <1>3, <1>5 DEF StreamsOf, SilenceOf, SoleOf
  <2> QED BY <1>3, <2>1, <2>2
<1> QED BY <1>2, <1>4, <1>5, TwoGoroutines

LEMMA HelloStreams ==
  ASSUME Inv, Ground, Steady, NEW c \in scene.clients, StreamsOf(c), SendHello(c) PROVE StreamsOf(c)'
<1>1. c \in Clients /\ MuInv(c) /\ MuInv(c) BY PlaneFacts
<1>2. PICK g \in Goroutines :
        /\ g = mu[c] /\ Pc(c, g) = "hello" /\ Pc(c, g)' = "welcome" /\ Sends(plane[c]["control"], 0)
        /\ \A h \in Goroutines : h # g => go'[c][h] = go[c][h] /\ Pc(c, h)' = Pc(c, h)
  BY <1>1, HelloMoves DEF Moved, Pc
<1>3. /\ Carried /\ epoch' = epoch /\ confirmed' = confirmed /\ peerEpoch' = peerEpoch
      /\ plane' = plane /\ closed' = closed /\ mu' = mu
  BY <1>1, HelloApart
<1>4. /\ ~closed[c] /\ ControlSrc(c) \in Mute /\ ControlSrc(c) \in Lone
      /\ mu[c] = "provider" => DataSrc(c) = epoch[c] /\ ControlSrc(c) = epoch[c]
  BY HelloFacts
<1>5. SamePlanes(c) BY <1>2, <1>3, PlanesKept DEF Sends, SameTraffic
<1>6. \A e : e # ControlSrc(c) => NoHello(e) BY <1>2, SendSays DEF ControlSrc
<1>7. /\ epoch[c] # ControlSrc(c) => (epoch[c] \in Mute => epoch[c] \in Mute')
      /\ \A n \in DOMAIN DataGot(c) : rt'[DataGot(c)[n][1]].src = rt[DataGot(c)[n][1]].src
  BY <1>6, OwnEpochs, EpochsKept, DataSources
<1>8. CASE g = "session"
  <2>1. /\ First(c) /\ First(c)' /\ Pc(c, "session")' = "welcome" /\ mu[c] = "session"
        /\ go'[c]["provider"] = go[c]["provider"] /\ Pc(c, "provider")' = Pc(c, "provider")
        /\ Pc(c, "provider") \notin {"hello", "welcome"}
    BY <1>1, <1>2, <1>8, TwoGoroutines DEF First, MuInv, Pc
  <2>2. SilenceOf(c)'
    <3>1. Pc(c, "provider") \in {"rotated", "data", "header"} => ControlSrc(c) # epoch[c]
      BY <1>4, <2>1 DEF StreamsOf, HeadersOf
    <3>2. Pc(c, "provider") = "rotated" => go[c]["provider"].hdr = epoch[c] BY <1>4, <2>1 DEF StreamsOf, HeadersOf
    <3>3. DataSrc(c) # epoch[c] => ControlSrc(c) # epoch[c] BY <1>4, <2>1 DEF StreamsOf, HeadersOf
    <3>4. /\ Pc(c, "provider") \in {"rotated", "data", "header"} => epoch[c] \in Mute'
          /\ DataSrc(c) # epoch[c] \/ ControlSrc(c) # epoch[c] => epoch[c] \in Mute'
      BY <1>7, <3>1, <3>3, TwoGoroutines DEF StreamsOf, SilenceOf
    <3> QED BY <1>3, <1>5, <2>1, <3>2, <3>4, TwoGoroutines DEF SilenceOf, SamePlanes
  <2> USE <1>3, <2>1 DEF StreamsOf
  <2>3. NewbornOf(c)' BY <1>5 DEF NewbornOf, SamePlanes
  <2>4. HeadersOf(c)' BY <1>5 DEF HeadersOf, SamePlanes
  <2>5. SoleOf(c)' BY DEF SoleOf
  <2>6. BoundOf(c)' BY DEF BoundOf, NewbornOf
  <2> QED BY <2>2, <2>3, <2>4, <2>5, <2>6 DEF StreamsOf
<1>9. CASE g = "provider"
  <2>1. /\ mu[c] = "provider" /\ Pc(c, "provider") = "hello" /\ Pc(c, "provider")' = "welcome"
        /\ Pc(c, "session") = "idle" /\ Pc(c, "session")' = "idle" /\ ~First(c)'
    BY <1>1, <1>2, <1>9, TwoGoroutines DEF First, MuInv, Pc
  <2>2. SilenceOf(c)' BY <1>3, <1>4, <1>5, <2>1, TwoGoroutines DEF SilenceOf, SamePlanes
  <2>3. NewbornOf(c)' BY <1>3, <1>4, <1>5, <2>1 DEF StreamsOf, NewbornOf, SamePlanes
  <2>4. HeadersOf(c)' BY <2>1 DEF HeadersOf
  <2>5. SoleOf(c)' BY <1>3, <2>1 DEF SoleOf
  <2>6. BoundOf(c)' BY <1>3, <2>1 DEF StreamsOf, BoundOf, NewbornOf
  <2> QED BY <2>2, <2>3, <2>4, <2>5, <2>6 DEF StreamsOf
<1> QED BY <1>8, <1>9, TwoGoroutines

\* A client that confirms its peer has received no data.
LEMMA ConfirmFacts ==
  ASSUME Inv, Ground, NEW c \in scene.clients, StreamsOf(c), ConfirmPeer(c) PROVE DataGot(c) = <<>>
<1>1. c \in Clients BY PlaneFacts
<1>2. mu[c] \in Goroutines /\ Pc(c, mu[c]) = "welcome" BY <1>1, ConfirmApart DEF Pc
<1> QED BY <1>2, TwoGoroutines DEF StreamsOf, NewbornOf, First

LEMMA ConfirmStreams ==
  ASSUME Inv, Ground, Steady, NEW c \in scene.clients, StreamsOf(c), ConfirmPeer(c) PROVE StreamsOf(c)'
<1>1. c \in Clients /\ MuInv(c) /\ DataGot(c) = <<>> BY PlaneFacts, ConfirmFacts
<1>2. PICK g \in Goroutines :
        /\ g = mu[c] /\ Pc(c, g) = "welcome" /\ Pc(c, g)' = "idle"
        /\ \A h \in Goroutines : h # g => go'[c][h] = go[c][h] /\ Pc(c, h)' = Pc(c, h)
  BY <1>1, ConfirmApart DEF Moved, Pc
<1>3. /\ Carried /\ epoch' = epoch /\ plane' = plane /\ closed' = closed /\ mu'[c] = "free" /\ confirmed'[c]
  BY <1>1, ConfirmApart
<1>4. PICK dst : Binds(plane[c]["data"], epoch[c], dst) BY <1>1, ConfirmApart
<1>5. DataSrc(c)' = epoch[c] /\ DataGot(c)' = <<>> /\ ControlSrc(c)' = ControlSrc(c)
  BY <1>1, <1>3, <1>4, PlaneFacts DEF Binds, SameTraffic, DataSrc, DataGot, ControlSrc
<1>6. \A e : NoHello(e) BY <1>4, BindSays, PlaneFacts
<1>7. /\ epoch[c] \in Mute => epoch[c] \in Mute'
      /\ \A h \in Goroutines : go[c][h].hdr \in Mute => go[c][h].hdr \in Mute'
  BY <1>6, OwnEpochs, EpochsKept
<1>8. /\ Pc(c, "session")' = "idle" /\ ~First(c)' /\ Pc(c, "provider")' # "welcome"
      /\ g = "session" => First(c) /\ go'[c]["provider"] = go[c]["provider"] /\ Pc(c, "provider")' = Pc(c, "provider")
      /\ g = "provider" => Pc(c, "provider")' = "idle"
  <2>1. CASE g = "session" BY <1>1, <1>2, <2>1, TwoGoroutines DEF MuInv, Pc, First
  <2>2. CASE g = "provider" BY <1>1, <1>2, <2>2, TwoGoroutines DEF MuInv, Pc, First
  <2> QED BY <2>1, <2>2, TwoGoroutines
<1> USE <1>3, <1>8 DEF StreamsOf
<1>9. SilenceOf(c)' BY <1>2, <1>5, <1>7, TwoGoroutines DEF SilenceOf
<1>10. NewbornOf(c)' BY DEF NewbornOf
<1>11. HeadersOf(c)' BY DEF HeadersOf
<1>12. SoleOf(c)' BY DEF SoleOf
<1>13. BoundOf(c)' BY <1>5, TwoGoroutines DEF HeadersOf, BoundOf
<1> QED BY <1>9, <1>10, <1>11, <1>12, <1>13 DEF StreamsOf

LEMMA SettledStreams ==
  ASSUME Inv, Ground, Steady, NEW c \in scene.clients, StreamsOf(c), Settled(c), Carried PROVE StreamsOf(c)'
<1>1. c \in Clients BY PlaneFacts
<1>2. SamePlanes(c) BY PlanesKept DEF Settled
<1>3. \A e : Quiet(e) BY QuietBy DEF Settled
<1>4. Still(c) BY <1>1, <1>2 DEF Still, Settled, SamePlanes
<1> QED BY <1>3, <1>4, StreamsStay

LEMMA HandleStreams ==
  ASSUME Inv, Ground, Steady, NEW c \in scene.clients, StreamsOf(c), HandleClientFrame(c) PROVE StreamsOf(c)'
<1>1. c \in Clients /\ MuInv(c) /\ plane[c]["data"] \in DOMAIN rt /\ plane[c]["control"] \in DOMAIN rt
      /\ plane[c]["data"] # plane[c]["control"]
  BY PlaneFacts
<1>2. Carried /\ (\A e : NoHello(e) /\ NoHeader(e)) /\ epoch' = epoch
      /\ UNCHANGED <<confirmed, peerEpoch, plane, closed, go, mu>>
  BY <1>1, HandleApart DEF clientVars
<1>3. \A e : Quiet(e) BY <1>2, QuietBy
<1>4. PICK f \in room :
        /\ ForClient(c, f) /\ f.plane \in Planes
        /\ Takes(plane[c][f.plane], f.pkts)
        /\ \A k \in DOMAIN f.pkts : f.pkts[k][1] \in DOMAIN rt /\ f.pkts[k][1][1] = Server /\ rt[f.pkts[k][1]].src = f.src
  BY <1>1, ClientTakes
<1>5. DataSrc(c)' = DataSrc(c) /\ ControlSrc(c)' = ControlSrc(c)
  BY <1>1, <1>2, <1>4 DEF Takes, SameTraffic, DataSrc, ControlSrc
<1>6. CASE f.plane = "control"
  BY <1>1, <1>2, <1>3, <1>4, <1>5, <1>6, StreamsStay DEF Takes, SameTraffic, DataGot, Still
<1>7. CASE f.plane = "data"
  <2>1. confirmed[c] /\ f.src = peerEpoch[c] /\ Takes(plane[c]["data"], f.pkts) BY <1>4, <1>7 DEF ForClient
  <2>2. \A n \in DOMAIN DataGot(c)' :
          \/ n \in DOMAIN DataGot(c) /\ DataGot(c)'[n] = DataGot(c)[n]
          \/ \E k \in DOMAIN f.pkts : DataGot(c)'[n] = f.pkts[k]
    BY <1>2, <2>1 DEF Takes, DataGot
  <2>3. ~First(c) /\ (mu[c] = "provider" => Pc(c, "provider") = "restart") /\ Pc(c, "provider") # "welcome"
    BY <1>1, <2>1 DEF StreamsOf, NewbornOf, MuInv, Pc
  <2>4. /\ \A g \in Goroutines : Pc(c, g)' = Pc(c, g)
        /\ First(c)' <=> First(c)
    BY <1>2 DEF Pc, First
  <2>5. /\ epoch[c] \in Mute => epoch[c] \in Mute'
        /\ epoch[c] \in Lone => epoch[c] \in Lone'
        /\ epoch[c] \in Unused => epoch[c] \in Unused'
        /\ ControlSrc(c) \in Mute => ControlSrc(c) \in Mute'
        /\ ControlSrc(c) \in Lone => ControlSrc(c) \in Lone'
        /\ \A g \in Goroutines : go[c][g].hdr \in Mute => go[c][g].hdr \in Mute'
        /\ \A n \in DOMAIN DataGot(c) : rt'[DataGot(c)[n][1]].src = rt[DataGot(c)[n][1]].src
    BY <1>3, OwnEpochs, EpochsKept, DataSources
  <2>6. SilenceOf(c)' BY <1>2, <1>5, <2>4, <2>5, TwoGoroutines DEF StreamsOf, SilenceOf
  <2>7. NewbornOf(c)' BY <1>2, <2>3, <2>4, TwoGoroutines DEF NewbornOf
  <2>8. HeadersOf(c)' BY <2>3, <2>4 DEF HeadersOf
  <2>9. SoleOf(c)' BY <1>2, <1>5, <2>4, <2>5, TwoGoroutines DEF StreamsOf, SoleOf
  <2>10. \A k \in DOMAIN f.pkts : rt'[f.pkts[k][1]].src = peerEpoch[c] BY <1>4, <2>1 DEF Steady, SteadyRuntime
  <2>11. ASSUME ~closed[c] PROVE \A n \in DOMAIN DataGot(c)' : rt'[DataGot(c)'[n][1]].src = peerEpoch[c]
    BY <2>1, <2>2, <2>5, <2>10, <2>11 DEF StreamsOf, BoundOf
  <2>12. BoundOf(c)' BY <1>2, <1>5, <2>4, <2>11 DEF StreamsOf, BoundOf
  <2> QED BY <2>6, <2>7, <2>8, <2>9, <2>12 DEF StreamsOf
<1> QED BY <1>4, <1>6, <1>7 DEF Planes

LEMMA TrafficKin ==
  ASSUME \/ NoTraffic
         \/ Foreign(Server)
         \/ \E d, p, src, dst : Begins(d, p, src, dst) /\ (d[1] = Server \/ d[1] \in scene.clients)
         \/ \E d, x : Sends(d, x) /\ rt[d].plane = "data"
  PROVE  HereKin /\ GotKin /\ HelloKin
<1>1. CASE NoTraffic BY <1>1 DEF NoTraffic, SameTraffic, HereKin, GotKin, HelloKin
<1>2. CASE Foreign(Server) BY <1>2 DEF Foreign, SameTraffic, HereKin, GotKin, HelloKin
<1>3. ASSUME NEW d, NEW p, NEW src, NEW dst, Begins(d, p, src, dst), d[1] = Server \/ d[1] \in scene.clients
      PROVE  HereKin /\ GotKin /\ HelloKin
  BY <1>3 DEF Begins, SameTraffic, HereKin, GotKin, HelloKin
<1>4. ASSUME NEW d, NEW x, Sends(d, x), rt[d].plane = "data" PROVE HereKin /\ GotKin /\ HelloKin
  BY <1>4 DEF Sends, SameTraffic, HereKin, GotKin, HelloKin
<1> QED BY <1>1, <1>2, <1>3, <1>4

LEMMA HereKept ==
  ASSUME HereInv, HereKin, Steady PROVE HereInv'
BY DEF HereInv, HereKin, Steady

LEMMA GotStays ==
  ASSUME Inv, Ground, Steady, NEW i \in DOMAIN rt, i[1] # Server, GotOK(i), rt'[i].src = rt[i].src, rt'[i].got = rt[i].got
  PROVE  GotOK(i)'
<1>1. rt'[i].plane = rt[i].plane BY DEF Steady, SteadyRuntime
<1>2. ASSUME NEW n \in DOMAIN rt[i].got
      PROVE  rt'[rt[i].got[n][1]].src = rt[rt[i].got[n][1]].src /\ rt'[rt[i].got[n][1]].dst = rt[rt[i].got[n][1]].dst
  BY GotSources
<1> QED BY <1>1, <1>2 DEF GotOK

LEMMA GotKept ==
  ASSUME Inv, Ground, Steady, GotInv, GotKin PROVE GotInv'
<1> SUFFICES ASSUME NEW i \in DOMAIN rt', i[1] # Server PROVE GotOK(i)' BY DEF GotInv
<1>1. CASE rt'[i].got = <<>> BY <1>1 DEF GotOK
<1>2. CASE i \in DOMAIN rt /\ rt'[i].src = rt[i].src /\ rt'[i].got = rt[i].got BY <1>2, GotStays DEF GotInv
<1> QED BY <1>1, <1>2 DEF GotKin

LEMMA HelloParts == HelloInv <=> OneHello /\ \A e : OneSpeaker(e)
BY DEF HelloInv, OneHello, OneSpeaker

LEMMA OneHelloKept ==
  ASSUME OneHello, HelloKin, Steady PROVE OneHello'
<1>1. Len(<<>>) <= 1 OBVIOUS
<1> QED BY <1>1 DEF OneHello, HelloKin, Steady, SteadyRuntime

LEMMA HushKeeps ==
  ASSUME Inv, Ground, Steady, HereInv, HelloInv, GotInv, SoleInv, Hush
  PROVE  (HereInv /\ HelloInv /\ GotInv /\ SoleInv)'
<1>1. HereInv' /\ GotInv' BY HereKept, GotKept DEF Hush
<1>2. OneHello' BY HelloParts, OneHelloKept DEF Hush
<1>3. ASSUME NEW e PROVE OneSpeaker(e)' BY HelloParts DEF Hush, Quiet, OneSpeaker
<1>4. HelloInv' BY <1>2, <1>3 DEF HelloInv, OneHello, OneSpeaker
<1>5. ASSUME NEW e PROVE Silent(e)' \/ Sole(e)' BY QuietKeeps DEF Hush, SoleInv
<1>6. SoleInv' BY <1>5 DEF SoleInv
<1> QED BY <1>1, <1>4, <1>6

\* A client that a step of another one says nothing about.
LEMMA OtherStays ==
  ASSUME Inv, Ground, Steady, NEW c, Apart(c), NEW d \in scene.clients, d # c, StreamsOf(d),
         \A e : ClientKnows(d, e) => Quiet(e)
  PROVE  StreamsOf(d)'
<1>1. d \in Clients BY PlaneFacts
<1>2. Alike(d) BY <1>1 DEF Apart
<1>3. ASSUME NEW i \in DOMAIN rt, i[1] = d PROVE rt'[i].src = rt[i].src /\ rt'[i].got = rt[i].got
  BY <1>3 DEF Apart, Foreign, SameTraffic, Steady, SteadyRuntime
<1>4. SamePlanes(d) BY <1>2, <1>3, PlanesKept DEF Alike
<1>5. Still(d) BY <1>2, <1>4 DEF Alike, Still, SamePlanes
<1> QED BY <1>5, StreamsStay

\* What one client knows is no other's.
LEMMA OthersKnow ==
  ASSUME Ground, NEW c \in scene.clients, NEW d \in scene.clients, d # c, NEW e, NEW x, ClientKnows(c, x), ClientKnows(d, e)
  PROVE  e # x
BY DEF Ground, KnownInv

LEMMA RemoteStays ==
  ASSUME Inv, Ground, Steady, Remote, NEW d \in scene.clients, StreamsOf(d) PROVE StreamsOf(d)'
<1>1. d \in Clients /\ d # Server BY PlaneFacts
<1>2. /\ epoch'[d] = epoch[d] /\ UNCHANGED <<confirmed, peerEpoch, plane, closed, go, mu>>
  BY <1>1 DEF Remote, clientVars
<1>3. ASSUME NEW i \in DOMAIN rt, i[1] = d PROVE rt'[i].src = rt[i].src /\ rt'[i].got = rt[i].got
  BY <1>1, <1>3 DEF Remote, Foreign, SameTraffic, Steady, SteadyRuntime
<1>4. SamePlanes(d) BY <1>2, <1>3, PlanesKept
<1>5. Still(d) BY <1>2, <1>4 DEF Still, SamePlanes
<1>6. \A e : Quiet(e) BY QuietBy DEF Remote
<1> QED BY <1>5, <1>6, StreamsStay

LEMMA RemoteStreams ==
  ASSUME Inv, Ground, Steady, Streams, Remote PROVE Streams'
<1>1. Hush BY TrafficKin, QuietBy DEF Remote, Hush
<1>2. (HereInv /\ HelloInv /\ GotInv /\ SoleInv)' BY <1>1, HushKeeps DEF Streams
<1>3. \A d \in scene.clients : StreamsOf(d)' BY RemoteStays DEF Streams
<1> QED BY <1>2, <1>3 DEF Streams, Steady

\* The steps of a client that say nothing new.
LEMMA HushStreams ==
  ASSUME Inv, Ground, Steady, Streams, NEW c, Apart(c), Hush, c \in scene.clients => StreamsOf(c)' PROVE Streams'
<1>1. (HereInv /\ HelloInv /\ GotInv /\ SoleInv)' BY HushKeeps DEF Streams
<1>2. \A d \in scene.clients : StreamsOf(d)' BY OtherStays DEF Streams, Hush
<1> QED BY <1>1, <1>2 DEF Streams, Steady

LEMMA MoveHush ==
  ASSUME NoTraffic, Carried PROVE Hush
BY TrafficKin, QuietTraffic DEF Hush

LEMMA MoveNext ==
  ASSUME Inv, Ground, Steady, Streams, NEW c \in Clients,
         ProviderReconnected(c) \/ ProviderLocks(c) \/ LinkDies(c) \/ ContinueReconnect(c) \/ HandshakeFails(c)
  PROVE  Streams'
<1>1. Apart(c) /\ Carried /\ NoTraffic BY MoveApart
<1>2. ASSUME c \in scene.clients PROVE StreamsOf(c)'
  <2>1. StreamsOf(c) BY <1>2 DEF Streams
  <2>2. CASE ProviderLocks(c) BY <1>2, <2>1, <2>2, LockStreams, TwoGoroutines DEF ProviderLocks, At, Pc
  <2>3. CASE LinkDies(c) BY <1>2, <2>1, <2>3, LockStreams, TwoGoroutines DEF LinkDies
  <2> QED BY <1>2, <2>1, <2>2, <2>3, ProviderReconnectedStreams, ContinueStreams, FailStreams
<1> QED BY <1>1, <1>2, MoveHush, HushStreams

LEMMA RotateNext ==
  ASSUME Inv, Ground, Steady, Streams, NEW c \in Clients, NEW g \in Goroutines,
         RotateEpochHeader(c, g) \/ ControlEpochHeader(c, g)
  PROVE  Streams'
<1>1. Apart(c) /\ Carried /\ NoTraffic BY RotateApart, HeaderApart
<1>2. c \in scene.clients => StreamsOf(c)' BY RotateStreams, HeaderStreams DEF Streams
<1> QED BY <1>1, <1>2, MoveHush, HushStreams

LEMMA RestartControlNext ==
  ASSUME Inv, Ground, Steady, Streams, NEW c \in Clients, NEW g \in Goroutines, RestartControl(c, g)
  PROVE  Streams'
<1> DEFINE hdr == go[c][g].hdr
           new == plane'[c]["control"]
<1>1. /\ Apart(c) /\ Carried /\ c \in scene.clients
      /\ (closed[c] /\ rt' = rt) \/ (Replaced(c, "control", hdr) /\ Begins(new, "control", hdr, 0))
  BY RestartApart DEF Planes
<1>2. StreamsOf(c)' BY <1>1, RestartControlStreams DEF Streams
<1>3. CASE rt' = rt BY <1>1, <1>2, <1>3, SameRtTraffic, MoveHush, HushStreams
<1>4. CASE Replaced(c, "control", hdr) /\ Begins(new, "control", hdr, 0)
  <2>1. new[1] = c BY <1>4 DEF Replaced
  <2>2. HereKin /\ GotKin /\ HelloKin BY <1>1, <1>4, <2>1, TrafficKin
  <2>3. \A e : Quiet(e) BY <1>1, <1>4, BeginSays, QuietBy
  <2> QED BY <1>1, <1>2, <2>2, <2>3, HushStreams DEF Hush
<1> QED BY <1>1, <1>3, <1>4

LEMMA SettledNext ==
  ASSUME Inv, Ground, Steady, Streams, NEW c \in Clients,
         Send(c) \/ Flush(c) \/ LateWriteTo(c) \/ DrainData(c) \/ ForceKeepalive(c) \/ DrainControl(c) \/ Close(c)
         \/ MaybePeerRestart(c)
  PROVE  Streams'
<1>1. Apart(c) /\ Carried /\ Settled(c) BY SendApart, QueueApart, DrainApart, WriteApart, CloseApart
<1>2. HereKin /\ GotKin /\ HelloKin
  <2>1. CASE Send(c)
    <3>1. c \in scene.clients /\ 0 \in E0 BY <2>1, ActiveClient, SceneFacts DEF Inv, Send, E0, RoomTypes
    <3>2. plane[c]["data"] \in DOMAIN rt /\ rt[plane[c]["data"]].plane = "data" BY <3>1, PlaneFacts
    <3>3. rt' = SendVia(rt, plane[c]["data"], 0) BY <2>1 DEF Send
    <3>4. Sends(plane[c]["data"], 0) BY <3>1, <3>2, <3>3, SendTraffic
    <3> QED BY <3>2, <3>4, TrafficKin
  <2>2. CASE Close(c) BY <2>2, ShutTraffic, TrafficKin DEF Close
  <2>3. CASE Flush(c) \/ LateWriteTo(c) \/ DrainData(c) \/ ForceKeepalive(c) \/ DrainControl(c) \/ MaybePeerRestart(c)
    <3>1. rt' = rt BY <2>3 DEF Flush, LateWriteTo, DrainData, ForceKeepalive, DrainControl, MaybePeerRestart
    <3> QED BY <3>1, SameRtTraffic, TrafficKin
  <2> QED BY <2>1, <2>2, <2>3
<1>3. \A e : Quiet(e) BY <1>1, QuietBy DEF Settled
<1>4. c \in scene.clients => StreamsOf(c)' BY <1>1, SettledStreams DEF Streams
<1> QED BY <1>1, <1>2, <1>3, <1>4, HushStreams DEF Hush

\* The steps of a client that say something new under one epoch of its own.
LEMMA LoudStreams ==
  ASSUME Inv, Ground, Steady, Streams, NEW c \in scene.clients, Apart(c), NEW x, ClientKnows(c, x),
         \A e : e # x => Quiet(e), (HereInv /\ HelloInv /\ GotInv /\ SoleInv)', StreamsOf(c)'
  PROVE  Streams'
<1>1. ASSUME NEW d \in scene.clients, d # c PROVE StreamsOf(d)' BY <1>1, OthersKnow, OtherStays DEF Streams
<1> QED BY <1>1 DEF Streams, Steady

LEMMA RestartDataNext ==
  ASSUME Inv, Ground, Steady, Streams, NEW c \in Clients, NEW g \in Goroutines, RestartData(c, g) PROVE Streams'
<1> DEFINE hdr == go[c][g].hdr
           new == plane'[c]["data"]
<1>1. /\ Apart(c) /\ Carried /\ c \in scene.clients /\ Pc(c, g) = "rotated"
      /\ (closed[c] /\ rt' = rt) \/ (Replaced(c, "data", hdr) /\ Begins(new, "data", hdr, 0))
  BY RestartApart DEF Planes, Pc
<1>2. StreamsOf(c)' /\ StreamsOf(c) BY <1>1, RestartDataStreams DEF Streams
<1>3. CASE rt' = rt BY <1>1, <1>2, <1>3, SameRtTraffic, MoveHush, HushStreams
<1>4. CASE Replaced(c, "data", hdr) /\ Begins(new, "data", hdr, 0)
  <2>1. new[1] = c BY <1>4 DEF Replaced
  <2>2. HereKin /\ GotKin /\ HelloKin BY <1>1, <1>4, <2>1, TrafficKin
  <2>3. (\A e : NoHello(e)) /\ \A e : e # hdr => Quiet(e) BY <1>1, <1>4, BeginSays, QuietBy
  <2>4. ClientKnows(c, hdr) /\ Silent(hdr) BY <1>1, <1>2, OwnEpochs, EpochsKept DEF StreamsOf, SilenceOf
  <2>5. HereInv' /\ GotInv' /\ OneHello' BY <2>2, HereKept, GotKept, OneHelloKept, HelloParts DEF Streams
  <2>6. ASSUME NEW e PROVE OneSpeaker(e)' BY <2>3, HelloParts DEF Streams, NoHello, OneSpeaker
  <2>7. HelloInv' BY <2>5, <2>6 DEF HelloInv, OneHello, OneSpeaker
  <2>8. ASSUME NEW e PROVE Silent(e)' \/ Sole(e)' BY <2>3, <2>4, QuietKeeps, SilentKept DEF Streams, SoleInv
  <2>9. SoleInv' BY <2>8 DEF SoleInv
  <2> QED BY <1>1, <1>2, <2>3, <2>4, <2>5, <2>7, <2>9, LoudStreams
<1> QED BY <1>1, <1>3, <1>4

LEMMA ConfirmNext ==
  ASSUME Inv, Ground, Steady, Streams, NEW c \in Clients, ConfirmPeer(c) PROVE Streams'
<1> DEFINE i == plane[c]["data"]
<1>1. Apart(c) /\ Carried /\ c \in scene.clients BY ConfirmApart
<1>2. PICK dst : Binds(i, epoch[c], dst) BY ConfirmApart
<1>3. StreamsOf(c) /\ StreamsOf(c)' BY <1>1, ConfirmStreams DEF Streams
<1>4. rt[i].got = <<>> /\ rt[i].plane = "data" /\ i \in DOMAIN rt
  BY <1>1, <1>3, ConfirmFacts, PlaneFacts DEF DataGot
<1> HIDE DEF i
<1>5. HereKin /\ GotKin /\ HelloKin BY <1>2, <1>4 DEF Binds, SameTraffic, HereKin, GotKin, HelloKin
<1>6. (\A e : NoHello(e)) /\ \A e : e # epoch[c] \/ rt[i].src = epoch[c] => Quiet(e)
  BY <1>1, <1>2, <1>4, BindSays, QuietBy
<1>7. HereInv' /\ GotInv' /\ OneHello' BY <1>5, HereKept, GotKept, OneHelloKept, HelloParts DEF Streams
<1>8. ASSUME NEW e PROVE OneSpeaker(e)' BY <1>6, HelloParts DEF Streams, NoHello, OneSpeaker
<1>9. HelloInv' BY <1>7, <1>8 DEF HelloInv, OneHello, OneSpeaker
<1>10. rt[i].src # epoch[c] => Silent(epoch[c])
  BY <1>1, <1>3, OwnEpochs, EpochsKept DEF StreamsOf, SilenceOf, DataSrc, i
<1>11. ASSUME NEW e PROVE Silent(e)' \/ Sole(e)' BY <1>6, <1>10, QuietKeeps, SilentKept DEF Streams, SoleInv
<1>12. SoleInv' BY <1>11 DEF SoleInv
<1>13. ClientKnows(c, epoch[c]) BY DEF ClientKnows
<1> QED BY <1>1, <1>3, <1>6, <1>7, <1>9, <1>12, <1>13, LoudStreams

LEMMA HelloNext ==
  ASSUME Inv, Ground, Steady, Streams, NEW c \in Clients, SendHello(c) PROVE Streams'
<1> DEFINE i == plane[c]["control"]
<1>0. PICK x : x = ControlSrc(c) OBVIOUS
<1>1. Apart(c) /\ Carried /\ c \in scene.clients /\ Sends(i, 0) BY HelloApart, HelloMoves
<1>2. StreamsOf(c) /\ StreamsOf(c)' BY <1>1, HelloStreams DEF Streams
<1>3. /\ i \in DOMAIN rt /\ i[1] = c /\ c # Server /\ rt[i].plane = "control" /\ rt[i].src = x
      /\ ClientKnows(c, x) /\ x \in Nat
  BY <1>0, <1>1, PlaneFacts, OwnEpochs DEF ControlSrc
<1>4. Silent(x) /\ Sole(x) BY <1>0, <1>1, <1>2, <1>3, HelloFacts, EpochsKept
<1> HIDE DEF i
<1>5. HereKin /\ GotKin BY <1>1 DEF Sends, SameTraffic, HereKin, GotKin
<1>6. HereInv' /\ GotInv' BY <1>5, HereKept, GotKept DEF Streams
<1>7. rt[i].msgs = <<>> BY <1>3, <1>4 DEF Silent, Speaks
<1>8. OneHello'
  <2>1. Len(Append(<<>>, 0)) <= 1 OBVIOUS
  <2>2. Len(rt'[i].msgs) <= 1 BY <1>1, <1>7, <2>1 DEF Sends
  <2>3. OneHello BY HelloParts DEF Streams
  <2> QED BY <1>1, <2>2, <2>3 DEF OneHello, Sends, SameTraffic
<1>9. (\A e : NoHeader(e)) /\ \A e : e # x => NoHello(e) BY <1>1, <1>3, SendSays
<1>10. \A e : e # x => Quiet(e) BY <1>1, <1>9, QuietBy
<1>11. ASSUME NEW j, Speaks(j, x)' PROVE j = i BY <1>1, <1>4, <1>11 DEF Speaks, Sends, SameTraffic, Silent
<1>12. ASSUME NEW e PROVE OneSpeaker(e)'
  <2>1. CASE e # x BY <1>9, <2>1, HelloParts DEF Streams, NoHello, OneSpeaker
  <2>2. CASE e = x BY <1>11, <2>2 DEF OneSpeaker
  <2> QED BY <2>1, <2>2
<1>13. HelloInv' BY <1>8, <1>12 DEF HelloInv, OneHello, OneSpeaker
<1>14. Sole(x)'
  <2>1. ASSUME NEW j, Uses(j, x)' PROVE Uses(j, x) BY <1>1, <1>9, <2>1, OnlyHeaders DEF NoHeader, Uses
  <2> QED BY <1>4, <2>1 DEF Sole
<1>15. ASSUME NEW e PROVE Silent(e)' \/ Sole(e)' BY <1>10, <1>14, QuietKeeps DEF Streams, SoleInv
<1>16. SoleInv' BY <1>15 DEF SoleInv
<1> QED BY <1>1, <1>2, <1>3, <1>6, <1>10, <1>13, <1>16, LoudStreams

\* A client takes packets that were addressed to the header of its runtime, and
\* data of the epoch it has confirmed.
LEMMA AddressedTo ==
  ASSUME Inv, Ground, HeardInv, NEW c \in scene.clients, ~closed[c], StreamsOf(c), NEW f \in room, ForClient(c, f),
         f.plane \in Planes, NEW a \in DOMAIN rt, a[1] = Server, rt[a].plane = f.plane, rt[a].src = f.src,
         rt[a].dst = f.dst, rt[a].msgs # <<>>
  PROVE  rt[a].dst = rt[plane[c][f.plane]].src /\ (f.plane = "data" => confirmed[c] /\ rt[a].src = peerEpoch[c])
<1>1. rt[a].dst \in 1 .. drawn /\ drawn \in Nat BY DrawnFacts DEF Ground, OriginInv, ServerRtOK
<1>2. f.dst = epoch[c] BY <1>1 DEF ForClient, AcceptsDst
<1>3. CASE f.plane = "control"
  <2>1. ~Silent(epoch[c]) BY <1>2, <1>3 DEF HeardInv
  <2>2. epoch[c] \notin Mute BY <2>1, OwnEpochs, EpochsKept
  <2>3. ControlSrc(c) = epoch[c] BY <2>2 DEF StreamsOf, SilenceOf
  <2> QED BY <1>2, <1>3, <2>3 DEF ControlSrc
<1>4. CASE f.plane = "data" BY <1>2, <1>4 DEF ForClient, StreamsOf, BoundOf, DataSrc
<1> QED BY <1>3, <1>4 DEF Planes

LEMMA HandleNext ==
  ASSUME Inv, Ground, Steady, HeardInv, Streams, NEW c \in Clients, HandleClientFrame(c) PROVE Streams'
<1>1. Apart(c) /\ Carried /\ (\A e : NoHello(e) /\ NoHeader(e)) /\ c \in scene.clients /\ ~closed[c]
  BY HandleApart, ClientTakes
<1>2. StreamsOf(c) /\ StreamsOf(c)' BY <1>1, HandleStreams DEF Streams
<1>3. PICK f \in room :
         /\ ForClient(c, f) /\ f.plane \in Planes /\ f.pkts \in Seq(SentBy(rt))
         /\ Takes(plane[c][f.plane], f.pkts)
         /\ \A k \in DOMAIN f.pkts :
              LET a == f.pkts[k][1]
              IN  a \in DOMAIN rt /\ a[1] = Server /\ rt[a].plane = f.plane /\ rt[a].src = f.src /\ rt[a].dst = f.dst
  BY ClientTakes
<1>i. PICK i : i = plane[c][f.plane] OBVIOUS
<1>4. i \in DOMAIN rt /\ i[1] # Server /\ rt[i].plane = f.plane BY <1>i, <1>1, <1>3, PlaneFacts
<1>5. \A e : Quiet(e) BY <1>1, QuietBy
<1>6. HereKin /\ HelloKin BY <1>3 DEF Takes, SameTraffic, HereKin, HelloKin
<1>7. HereInv' /\ OneHello' BY <1>6, HereKept, OneHelloKept, HelloParts DEF Streams
<1>8. ASSUME NEW e PROVE OneSpeaker(e)' BY <1>5, HelloParts DEF Streams, Quiet, OneSpeaker
<1>9. HelloInv' BY <1>7, <1>8 DEF HelloInv, OneHello, OneSpeaker
<1>10. ASSUME NEW e PROVE Silent(e)' \/ Sole(e)' BY <1>5, QuietKeeps DEF Streams, SoleInv
<1>11. SoleInv' BY <1>10 DEF SoleInv
<1>12. ASSUME NEW k \in DOMAIN f.pkts
       PROVE  /\ rt'[f.pkts[k][1]].dst = rt[i].src
              /\ f.plane = "data" => confirmed[c] /\ rt'[f.pkts[k][1]].src = peerEpoch[c]
  <2> DEFINE a == f.pkts[k][1]
  <2>1. a \in DOMAIN rt /\ a[1] = Server /\ rt[a].plane = f.plane /\ rt[a].src = f.src /\ rt[a].dst = f.dst
    BY <1>3, <1>12
  <2>2. f.pkts[k][2] \in 1 .. Len(rt[a].msgs) BY <1>3, <1>12, SentBySomeone
  <2>3. rt[a].msgs # <<>> BY <2>2
  <2>4. rt[a].dst = rt[i].src /\ (f.plane = "data" => confirmed[c] /\ rt[a].src = peerEpoch[c])
    BY <1>i, <1>1, <1>2, <1>3, <2>1, <2>3, AddressedTo
  <2>5. rt'[a].src = rt[a].src /\ rt'[a].dst = rt[a].dst BY <2>1 DEF Steady, SteadyRuntime
  <2> QED BY <2>4, <2>5
<1>13. ASSUME NEW n \in DOMAIN rt[i].got
       PROVE  /\ rt'[rt[i].got[n][1]].dst = rt[i].src
              /\ f.plane = "data" /\ confirmed[c] => rt'[rt[i].got[n][1]].src = peerEpoch[c]
  <2> DEFINE a == rt[i].got[n][1]
  <2>1. rt'[a].src = rt[a].src /\ rt'[a].dst = rt[a].dst BY <1>4, <1>13, GotSources
  <2>2. rt[a].dst = rt[i].src BY <1>4, <1>13 DEF Streams, GotInv, GotOK
  <2>3. f.plane = "data" /\ confirmed[c] => rt[a].src = peerEpoch[c]
    BY <1>i, <1>1, <1>2, <1>13 DEF StreamsOf, BoundOf, DataGot
  <2> QED BY <2>1, <2>2, <2>3
<1>14. /\ rt'[i].src = rt[i].src /\ rt'[i].plane = f.plane
       /\ \A n \in DOMAIN rt'[i].got :
            \/ n \in DOMAIN rt[i].got /\ rt'[i].got[n] = rt[i].got[n]
            \/ \E k \in DOMAIN f.pkts : rt'[i].got[n] = f.pkts[k]
  BY <1>i, <1>3, <1>4 DEF Takes
<1>15. ASSUME NEW n \in DOMAIN rt'[i].got
       PROVE  /\ rt'[rt'[i].got[n][1]].dst = rt[i].src
              /\ f.plane = "data" /\ confirmed[c] => rt'[rt'[i].got[n][1]].src = peerEpoch[c]
  BY <1>12, <1>13, <1>14, <1>15
<1>16. GotOK(i)'
  <2>1. ASSUME NEW n \in DOMAIN rt'[i].got PROVE rt'[rt'[i].got[n][1]].dst = rt'[i].src BY <1>14, <1>15, <2>1
  <2>2. ASSUME NEW n \in DOMAIN rt'[i].got, NEW m \in DOMAIN rt'[i].got, rt'[i].plane = "data"
        PROVE  rt'[rt'[i].got[n][1]].src = rt'[rt'[i].got[m][1]].src
    BY <1>3, <1>14, <1>15, <2>2 DEF ForClient
  <2> QED BY <2>1, <2>2 DEF GotOK
<1>17. ASSUME NEW j \in DOMAIN rt', j[1] # Server, j # i PROVE GotOK(j)'
  BY <1>i, <1>3, <1>17, GotStays DEF Takes, Streams, GotInv, SameTraffic
<1>18. GotInv' BY <1>16, <1>17 DEF GotInv
<1>19. \A d \in scene.clients : StreamsOf(d)' BY <1>1, <1>2, <1>5, OtherStays DEF Streams
<1> QED BY <1>7, <1>9, <1>11, <1>18, <1>19 DEF Streams, Steady

\* A step of a client is its own: of the others it changes nothing.
LEMMA ClientApart ==
  ASSUME Inv, Ground, NEW c \in Clients, ClientStep(c) PROVE Apart(c)
BY MoveApart, HelloApart, ConfirmApart, SendApart, QueueApart, DrainApart, WriteApart, CloseApart, HandleApart DEF ClientStep

LEMMA RestartsApart ==
  ASSUME Inv, Ground, NEW c \in Clients, NEW g \in Goroutines, Restart(c, g) PROVE Apart(c)
BY RotateApart, HeaderApart, RestartApart DEF Restart, Planes

\* What the clients send stays one stream, whatever step is taken.
LEMMA NextStreams ==
  ASSUME Inv, Ground, HeardInv, Streams, [Next]_vars PROVE HeardInv' /\ Streams'
<1>0. Steady BY NextGround DEF GroundKept
<1>1. ASSUME NEW c \in Clients, NEW g \in Goroutines, Restart(c, g) PROVE HeardInv' /\ Streams'
  BY <1>0, <1>1, RotateNext, RestartDataNext, RestartControlNext, RestartsApart, ClientHeard DEF Restart
<1>2. ASSUME NEW c \in Clients, ClientStep(c) PROVE HeardInv' /\ Streams'
  <2>1. Streams' BY <1>0, <1>2, MoveNext, HelloNext, ConfirmNext, SettledNext, HandleNext DEF ClientStep
  <2>2. Apart(c) BY <1>2, ClientApart
  <2> QED BY <1>0, <2>1, <2>2, ClientHeard
<1>3. ASSUME NEW w \in Readers, ReaderStep(w) PROVE HeardInv' /\ Streams'
  <2>1. Remote BY <1>3, TakeFrameRemote, PeerSessionRemote, DeliverDataRemote, PeerControlRemote DEF ReaderStep
  <2> QED BY <1>0, <1>3, <2>1, RemoteStreams, PeerSessionHeard, DeliverHeard DEF ReaderStep
<1>4. ASSUME NEW e \in AllEpochs, Welcome(e) \/ SendTo(e) PROVE HeardInv' /\ Streams'
  BY <1>0, <1>4, AnswerRemote, RemoteStreams, WelcomeHeard, ServerHeard
<1>5. CASE Sweep \/ ServerReconnects \/ ServerCloses \/ ServerRestarts
  BY <1>0, <1>5, LeaveRemote, DrawRemote, RemoteStreams, ServerHeard
<1>6. CASE UNCHANGED vars BY <1>0, <1>6, StutterRemote, RemoteStreams, ServerHeard
<1> QED BY <1>1, <1>2, <1>3, <1>4, <1>5, <1>6 DEF Next, ClientStep, ReaderStep

\* At the start nobody has said anything, and every client has one data runtime.
LEMMA InitStreams ==
  ASSUME Init, Inv PROVE HeardInv /\ Streams
<1>1. DOMAIN <<>> = {} OBVIOUS
<1>2. \A e : Silent(e) BY InitFacts DEF Silent, Speaks
<1>3. ASSUME NEW i, NEW e, Uses(i, e) PROVE Headed(i, e)
  <2>1. ~InQueue(i, e) BY <1>1, InitFacts DEF InQueue
  <2>2. ~InFrame(i, e) BY InitFacts DEF InFrame
  <2>3. ~InReader(i, e) BY <1>1, InitFacts DEF InReader
  <2>4. ~InSession(i, e) BY <1>1, InitFacts DEF InSession
  <2> QED BY <1>3, <2>1, <2>2, <2>3, <2>4 DEF Uses
<1>4. \A e : Sole(e)
  <2> SUFFICES ASSUME NEW e, NEW i, NEW j, Uses(i, e), Uses(j, e) PROVE i = j BY DEF Sole
  <2>1. Headed(i, e) /\ Headed(j, e) BY <1>3
  <2>2. /\ i = plane[i[1]]["data"] /\ j = plane[j[1]]["data"] /\ epoch[i[1]] = e /\ epoch[j[1]] = e
        /\ i[1] \in scene.clients /\ j[1] \in scene.clients
    BY <2>1, InitFacts DEF Headed
  <2>3. i[1] = j[1] BY <2>2, InitFacts
  <2> QED BY <2>2, <2>3
<1>5. \A e \in Nat : e \in Mute /\ e \in Lone BY <1>2, <1>4 DEF Mute, Lone
<1>6. ASSUME NEW c \in scene.clients PROVE StreamsOf(c)
  <2>1. /\ epoch[c] \in Mute /\ epoch[c] \in Lone /\ ControlSrc(c) \in Mute /\ ControlSrc(c) \in Lone
    BY <1>5, <1>6, OwnEpochs
  <2>2. /\ Pc(c, "provider") = "idle" /\ Pc(c, "session") = "hello" /\ mu[c] = "session" /\ ~confirmed[c]
    BY <1>6, InitFacts, PlaneFacts DEF Pc
  <2>3. DataSrc(c) = epoch[c] /\ ControlSrc(c) = epoch[c] /\ DataGot(c) = <<>>
    <3>1. /\ plane[c]["data"] \in DOMAIN rt /\ plane[c]["data"][1] = c
          /\ plane[c]["control"] \in DOMAIN rt /\ plane[c]["control"][1] = c
      BY <1>6, PlaneFacts
    <3>2. \A i \in DOMAIN rt : rt[i].src = epoch[i[1]] /\ rt[i].got = <<>> BY InitFacts
    <3> QED BY <3>1, <3>2 DEF DataSrc, ControlSrc, DataGot
  <2>4. SilenceOf(c) BY <2>1, <2>2, TwoGoroutines DEF SilenceOf
  <2>5. NewbornOf(c) BY <2>2, <2>3 DEF NewbornOf
  <2>6. HeadersOf(c) BY <2>2, <2>3 DEF HeadersOf
  <2>7. SoleOf(c) BY <2>1, <2>2 DEF SoleOf
  <2>8. BoundOf(c) BY <2>2 DEF BoundOf
  <2> QED BY <2>4, <2>5, <2>6, <2>7, <2>8 DEF StreamsOf
<1>7. HereInv BY InitFacts DEF HereInv
<1>8. HelloInv
  <2>1. Len(<<>>) <= 1 OBVIOUS
  <2>2. OneHello BY <2>1, InitFacts DEF OneHello
  <2>3. \A e : OneSpeaker(e) BY <1>2 DEF OneSpeaker, Silent
  <2> QED BY <2>2, <2>3, HelloParts
<1>9. GotInv BY <1>1, InitFacts DEF GotInv, GotOK
<1>10. SoleInv BY <1>2 DEF SoleInv
<1>11. HeardInv
  <2>1. answered = [e \in Epochs |-> 0] /\ upper = [p \in Planes |-> [e \in Epochs |-> <<>>]] /\ "control" \in Planes
    BY InitFacts DEF Planes
  <2>2. \A e \in Epochs : upper["control"][e] = <<>> /\ answered[e] = 0 BY <2>1
  <2>3. answered \in [Epochs -> Nat] BY <2>1
  <2>4. \A i \in DOMAIN rt : i[1] # Server BY InitFacts
  <2> QED BY <1>1, <2>2, <2>3, <2>4 DEF HeardInv
<1> QED BY <1>6, <1>7, <1>8, <1>9, <1>10, <1>11 DEF Streams

------------------------------------------------------------------------------
(* The server's sessions and what its upper layer has.                      *)

LEMMA DataForKept ==
  ASSUME Steady, OldData, NEW j, NEW e, DataFor(j, e)' PROVE DataFor(j, e) /\ rt'[j].src = rt[j].src
BY DEF Steady, SteadyRuntime, OldData, DataFor

LEMMA UniqueKept ==
  ASSUME Steady, UniqueInv, lost \subseteq lost', OldData PROVE UniqueInv'
<1> SUFFICES ASSUME NEW j, NEW k, NEW e, e \notin lost', DataFor(j, e)', DataFor(k, e)', rt'[j].src = rt'[k].src
             PROVE  j = k
  BY DEF UniqueInv
<1>1. /\ DataFor(j, e) /\ rt'[j].src = rt[j].src
      /\ DataFor(k, e) /\ rt'[k].src = rt[k].src
  BY DataForKept
<1> QED BY <1>1 DEF UniqueInv

\* The sources of the server's runtimes have been drawn.
LEMMA SourceDrawn ==
  ASSUME Inv, Ground, NEW j \in DOMAIN rt, j[1] = Server PROVE rt[j].src # drawn + 1
<1>1. ServerKnows(rt[j].src) BY DEF ServerKnows
<1>2. rt[j].src \in 1 .. drawn BY <1>1 DEF Ground, KnownInv
<1> QED BY <1>2, DrawnFacts

LEMMA HomeKept ==
  ASSUME Inv, Ground, Steady, HomeInv, KeepSess, OldData, KeepTable \/ epoch'[Server] = drawn + 1 PROVE HomeInv'
<1> SUFFICES ASSUME NEW j, NEW e, e \notin lost', DataFor(j, e)', rt'[j].src = epoch'[Server] PROVE Homed(j)'
  BY DEF HomeInv
<1>1. DataFor(j, e) /\ rt'[j].src = rt[j].src BY DataForKept
<1>2. rt[j].src # drawn + 1 BY <1>1, SourceDrawn DEF DataFor
<1>3. epoch'[Server] = epoch[Server] /\ KeepTable BY <1>1, <1>2 DEF Steady
<1>4. Homed(j) BY <1>1, <1>3 DEF HomeInv, KeepSess
<1>5. PICK s \in DOMAIN sess : InTable(s) /\ sess[s].data = j BY <1>4 DEF Homed
<1>6. sess[s].epoch = e BY <1>1, <1>5 DEF Ground, AddressInv, SessOK, DataFor
<1>7. InTable(s)' /\ s \in DOMAIN sess' /\ sess'[s].data = j BY <1>3, <1>5, <1>6 DEF KeepTable, KeepSess
<1> QED BY <1>7 DEF Homed

LEMMA BriefKept ==
  ASSUME Steady, BriefInv, lost \subseteq lost',
         \A j \in DOMAIN rt' : j[1] = Server /\ rt'[j].plane = "control" =>
             rt'[j].msgs = <<>> \/ (j \in DOMAIN rt /\ rt'[j].msgs = rt[j].msgs)
  PROVE  BriefInv'
<1>1. Len(<<>>) <= 1 OBVIOUS
<1> QED BY <1>1 DEF BriefInv, Steady, SteadyRuntime

LEMMA CalmUpper ==
  ASSUME Inv, Ground, lost \subseteq lost', NEW s \in DOMAIN sess, UpperOf(s), sess'[s] = sess[s], Calm(sess[s].epoch)
  PROVE  UpperOf(s)'
<1> DEFINE d == sess[s].data
           i == sess[s].control
<1>1. d \in DOMAIN rt /\ d[1] = Server /\ rt[d].dst = sess[s].epoch
  BY DEF Ground, AddressInv, SessOK, Inv, SessionInv
<1>2. i # None => i \in DOMAIN rt /\ i[1] = Server /\ rt[i].dst = sess[s].epoch /\ rt[i].plane = "control"
  BY DEF Ground, AddressInv, SessOK, Inv, SessionInv
<1>3. rt'[d].got = rt[d].got BY <1>1 DEF Calm
<1>4. i # None => rt'[i].got = rt[i].got /\ rt'[i].msgs = rt[i].msgs BY <1>2 DEF Calm
<1> QED BY <1>3, <1>4 DEF UpperOf, Calm

\* Sessions of the table have their own epochs.
LEMMA OwnEpoch ==
  ASSUME Inv, NEW s \in DOMAIN sess, NEW t \in DOMAIN sess, InTable(s), InTable(t), sess[s].epoch = sess[t].epoch
  PROVE  s = t
BY DEF Inv, TableInv, InTable

LEMMA HasOne ==
  ASSUME Inv, NEW e PROVE Has(e) <=> \E s \in DOMAIN sess : InTable(s) /\ sess[s].epoch = e
<1>1. \A k \in DOMAIN peers : peers[k] \in DOMAIN sess BY DEF Inv, ServerTypes
<1> QED BY <1>1 DEF Has, InTable

LEMMA EmptyKept ==
  ASSUME Inv, Steady, EmptyInv, KeepSess, KeepTable,
         \A e \in Epochs \ lost : ~Has(e) =>
             upper'["data"][e] = upper["data"][e] /\ upper'["control"][e] = upper["control"][e]
  PROVE  EmptyInv'
<1> SUFFICES ASSUME NEW e \in Epochs', e \notin lost', ~Has(e)'
             PROVE  upper'["data"][e] = <<>> /\ upper'["control"][e] = <<>>
  BY DEF EmptyInv
<1>1. e \in Epochs \ lost BY DEF Steady, Epochs, KeepSess
<1>2. ~Has(e)
  <2> SUFFICES ASSUME Has(e) PROVE FALSE OBVIOUS
  <2>1. PICK s \in DOMAIN sess : InTable(s) /\ sess[s].epoch = e BY HasOne
  <2>2. InTable(s)' /\ sess'[s].epoch = e BY <2>1 DEF KeepSess, KeepTable
  <2> QED BY <2>2 DEF InTable, Has
<1> QED BY <1>1, <1>2 DEF EmptyInv

LEMMA ClosedKept ==
  ASSUME ClosedInv, KeepSess, CloseLost PROVE ClosedInv'
BY DEF ClosedInv, KeepSess, CloseLost

LEMMA SameIsCalm ==
  ASSUME Steady, ServerSame, UNCHANGED <<answered, upper>> PROVE \A e : Calm(e)
BY DEF Steady, SteadyRuntime, ServerSame, SameTraffic, Calm

LEMMA TableStill ==
  ASSUME Inv, Ground, Steady, Table, ServerSame, KeepSess, KeepTable, KeptTable, CloseLost, UNCHANGED <<answered, upper>>
  PROVE  Table'
<1>1. ClosedInv' BY ClosedKept DEF Table
<1>2. OldData BY DEF ServerSame, OldData
<1>3. UniqueInv' /\ HomeInv' BY <1>2, UniqueKept, HomeKept DEF Table, KeepSess
<1>4. BriefInv' BY BriefKept DEF Table, KeepSess, ServerSame, SameTraffic
<1>5. UpperInv'
  <2> SUFFICES ASSUME NEW s \in DOMAIN sess', InTable(s)' PROVE UpperOf(s)' BY DEF UpperInv
  <2>1. s \in DOMAIN sess /\ InTable(s) /\ sess'[s] = sess[s] BY DEF KeptTable
  <2>2. UpperOf(s) BY <2>1 DEF Table, UpperInv
  <2> QED BY <2>1, <2>2, SameIsCalm, CalmUpper DEF KeepSess
<1>6. EmptyInv' BY EmptyKept DEF Table
<1> QED BY <1>1, <1>3, <1>4, <1>5, <1>6 DEF Table

\* A step that leaves the sessions and the table as they are.
LEMMA SameTableKept ==
  ASSUME sess' = sess, lost' = lost, \A s : InTable(s)' <=> InTable(s)
  PROVE  KeepSess /\ KeepTable /\ KeptTable /\ CloseLost
BY DEF KeepSess, KeepTable, KeptTable, CloseLost

LEMMA ClientTable ==
  ASSUME Inv, Ground, Steady, Table, NEW c \in Clients, Apart(c) PROVE Table'
<1>1. sess' = sess /\ lost' = lost /\ UNCHANGED <<answered, upper>> /\ peers' = peers BY DEF Apart, serverVars
<1>2. \A s : InTable(s)' <=> InTable(s) BY <1>1 DEF InTable
<1>3. ServerSame BY ServerIsNoClient DEF Apart, Foreign, ServerSame
<1> QED BY <1>1, <1>2, <1>3, SameTableKept, TableStill

LEMMA NoTrafficSame ==
  ASSUME NoTraffic PROVE ServerSame
BY DEF NoTraffic, ServerSame

LEMMA LeavesKeep ==
  ASSUME NEW D, Leaves(D), DOMAIN sess' = DOMAIN sess, \A t \in DOMAIN sess : InTable(t)' <=> InTable(t) /\ t \notin D
  PROVE  KeepSess /\ KeepTable /\ KeptTable /\ CloseLost
BY DEF Leaves, KeepSess, KeepTable, KeptTable, CloseLost

LEMMA LeaveTable ==
  ASSUME Inv, Ground, Steady, Table, Sweep \/ ServerCloses PROVE Table'
<1>1. UNCHANGED <<answered, upper>> BY LeaveRemote
<1>2. CASE Sweep
  <2>1. NoTraffic /\ DOMAIN sess' = DOMAIN sess BY <1>2, SweepFacts
  <2>2. PICK s : Leaves({s}) /\ \A t : InTable(t)' <=> InTable(t) /\ t # s BY <1>2, SweepFacts
  <2>3. \A t \in DOMAIN sess : InTable(t)' <=> InTable(t) /\ t \notin {s} BY <2>2
  <2>4. KeepSess /\ KeepTable /\ KeptTable /\ CloseLost BY <2>1, <2>2, <2>3, LeavesKeep
  <2> QED BY <1>1, <2>1, <2>4, NoTrafficSame, TableStill
<1>3. CASE ServerCloses
  <2> DEFINE D == {s \in DOMAIN sess : InTable(s)}
  <2>1. NoTraffic /\ DOMAIN sess' = DOMAIN sess /\ Leaves(D) /\ \A s : ~InTable(s)' BY <1>3, CloseFacts
  <2>2. \A t \in DOMAIN sess : InTable(t)' <=> InTable(t) /\ t \notin D BY <2>1
  <2> HIDE DEF D
  <2>3. KeepSess /\ KeepTable /\ KeptTable /\ CloseLost BY <2>1, <2>2, LeavesKeep
  <2> QED BY <1>1, <2>1, <2>3, NoTrafficSame, TableStill
<1> QED BY <1>2, <1>3

LEMMA RestartsTable ==
  ASSUME Inv, Ground, Steady, Table, ServerRestarts PROVE Table'
<1>1. NoTraffic /\ epoch'[Server] = drawn + 1 /\ sess' = sess /\ lost' = lost BY ServerDraws, DrawRemote
<1>2. peers' = <<>> /\ upper' = [p \in Planes |-> [e \in Epochs |-> <<>>]] /\ scene' = scene
  BY DEF ServerRestarts, clientVars
<1>3. \A s : ~InTable(s)' BY <1>2 DEF InTable
<1>4. KeepSess /\ CloseLost /\ OldData BY <1>1 DEF KeepSess, CloseLost, NoTraffic, OldData
<1>5. UniqueInv' /\ HomeInv' /\ ClosedInv' BY <1>1, <1>4, UniqueKept, HomeKept, ClosedKept DEF Table, KeepSess
<1>6. BriefInv' BY <1>1, BriefKept DEF Table, NoTraffic, SameTraffic
<1>7. UpperInv' BY <1>3 DEF UpperInv
<1>8. EmptyInv' BY <1>2 DEF Epochs, Planes, EmptyInv
<1> QED BY <1>5, <1>6, <1>7, <1>8 DEF Table

LEMMA QuietTable ==
  ASSUME Inv, Ground, Steady, Table, ServerReconnects \/ UNCHANGED vars PROVE Table'
<1>1. sess' = sess /\ lost' = lost /\ UNCHANGED <<answered, upper, peers, rt>>
  BY DEF ServerReconnects, serverVars, vars
<1>2. \A s : InTable(s)' <=> InTable(s) BY <1>1 DEF InTable
<1> QED BY <1>1, <1>2, SameRtTraffic, NoTrafficSame, SameTableKept, TableStill

LEMMA TakeFrameTable ==
  ASSUME Inv, Ground, Steady, Table, NEW w \in Readers, TakeFrame(w) PROVE Table'
<1>1. UNCHANGED <<rt, sess, answered, upper, lost>> BY TakeFrameRemote
<1>2. \A s : InTable(s)' <=> InTable(s) BY TakesFrame, SameTable
<1> QED BY <1>1, <1>2, SameRtTraffic, NoTrafficSame, SameTableKept, TableStill

\* The session N joins the table for an epoch that had none.
LEMMA JoinTable ==
  ASSUME Inv, Ground, Steady, Table, NEW N, NEW e \in Epochs, NEW D, ~Has(e), Joins(N, e, D),
         UNCHANGED <<answered, upper, epoch>>
  PROVE  Table'
<1>d. PICK d : d = Fresh(Server) OBVIOUS
<1>1. /\ Leaves(D) /\ N \notin DOMAIN sess /\ DOMAIN sess' = DOMAIN sess \cup {N}
      /\ sess'[N].epoch = e /\ sess'[N].data = d /\ sess'[N].control = None /\ ~sess'[N].closed
      /\ \A s : InTable(s)' <=> (InTable(s) /\ s \notin D) \/ s = N
      /\ Begins(d, "data", epoch[Server], e)
  BY <1>d DEF Joins
<1>2. /\ KeepSess /\ KeepTable
      /\ \A s \in DOMAIN sess : InTable(s)' => InTable(s) /\ sess'[s] = sess[s]
  BY <1>1 DEF Leaves, KeepSess, KeepTable
<1>3. ClosedInv' BY <1>1, <1>2, ClosedKept DEF Leaves, CloseLost, Table
<1>4. d \notin DOMAIN rt /\ DOMAIN rt' = DOMAIN rt \cup {d} /\ (\A j \in DOMAIN rt : SameTraffic(j))
      /\ rt'[d].plane = "data" /\ rt'[d].src = epoch[Server] /\ rt'[d].dst = e /\ rt'[d].msgs = <<>> /\ rt'[d].got = <<>>
  BY <1>1 DEF Begins
<1>5. ASSUME NEW j, NEW x, DataFor(j, x)'
      PROVE  \/ j = d /\ x = e
             \/ j # d /\ DataFor(j, x) /\ rt'[j].src = rt[j].src
  BY <1>4, <1>5 DEF DataFor, SameTraffic
<1>6. ASSUME NEW j, e \notin lost', DataFor(j, e), rt[j].src = epoch[Server] PROVE FALSE
  <2>1. Homed(j) BY <1>2, <1>6 DEF Table, HomeInv, KeepSess
  <2>2. PICK s \in DOMAIN sess : InTable(s) /\ sess[s].data = j BY <2>1 DEF Homed
  <2>3. sess[s].epoch = e BY <1>6, <2>2 DEF Ground, AddressInv, SessOK, DataFor
  <2> QED BY <2>2, <2>3, HasOne
<1>7. UniqueInv'
  <2> SUFFICES ASSUME NEW j, NEW k, NEW x, x \notin lost', DataFor(j, x)', DataFor(k, x)', rt'[j].src = rt'[k].src
               PROVE  j = k
    BY DEF UniqueInv
  <2>1. x \notin lost BY <1>2 DEF KeepSess
  <2>2. CASE j = d BY <1>4, <1>5, <1>6, <2>2
  <2>3. CASE k = d BY <1>4, <1>5, <1>6, <2>3
  <2>4. CASE j # d /\ k # d BY <1>5, <2>1, <2>4 DEF Table, UniqueInv
  <2> QED BY <2>2, <2>3, <2>4
<1>8. HomeInv'
  <2> SUFFICES ASSUME NEW j, NEW x, x \notin lost', DataFor(j, x)', rt'[j].src = epoch'[Server] PROVE Homed(j)'
    BY DEF HomeInv
  <2>1. CASE j = d BY <1>1, <2>1 DEF Homed
  <2>2. CASE j # d
    <3>1. DataFor(j, x) /\ rt[j].src = epoch[Server] /\ x \notin lost BY <1>2, <1>5, <2>2 DEF KeepSess
    <3>2. PICK s \in DOMAIN sess : InTable(s) /\ sess[s].data = j BY <3>1 DEF Table, HomeInv, Homed
    <3>3. sess[s].epoch = x BY <3>1, <3>2 DEF Ground, AddressInv, SessOK, DataFor
    <3>4. InTable(s)' /\ s \in DOMAIN sess' /\ sess'[s].data = j BY <1>2, <3>2, <3>3 DEF KeepTable, KeepSess
    <3> QED BY <3>4 DEF Homed
  <2> QED BY <2>1, <2>2
<1>9. BriefInv' BY <1>2, <1>4, BriefKept DEF Table, KeepSess, SameTraffic
<1>10. ASSUME NEW x PROVE Calm(x) BY <1>4 DEF Calm, SameTraffic
<1>11. UpperInv'
  <2> SUFFICES ASSUME NEW s \in DOMAIN sess', InTable(s)' PROVE UpperOf(s)' BY DEF UpperInv
  <2>1. CASE s = N BY <1>1, <1>2, <1>4, <2>1 DEF KeepSess, Table, EmptyInv, UpperOf
  <2>2. CASE s \in DOMAIN sess BY <1>2, <1>10, <2>2, CalmUpper DEF Table, UpperInv, KeepSess
  <2> QED BY <1>1, <2>1, <2>2
<1>12. EmptyInv' BY <1>2, EmptyKept DEF Table
<1> QED BY <1>3, <1>7, <1>8, <1>9, <1>11, <1>12 DEF Table

LEMMA PeerSessionTable ==
  ASSUME Inv, Ground, Steady, Table, NEW w \in Readers, PeerSessionFor(w) PROVE Table'
<1>1. UNCHANGED <<answered, upper, epoch>> BY PeerSessionRemote
<1>2. \/ UNCHANGED <<rt, sess, lost>> /\ \A s : InTable(s)' <=> InTable(s)
      \/ ~Has(reader[w].src) /\ \E D : Joins(Len(sess) + 1, reader[w].src, D)
  BY PeerSessionFacts
<1>3. CASE UNCHANGED <<rt, sess, lost>> /\ \A s : InTable(s)' <=> InTable(s)
  BY <1>1, <1>3, SameRtTraffic, NoTrafficSame, SameTableKept, TableStill
<1>4. CASE ~Has(reader[w].src) /\ \E D : Joins(Len(sess) + 1, reader[w].src, D)
  <2>1. reader[w].src \in Epochs BY PeerSessionFacts, DrawnFacts DEF Epochs
  <2> QED BY <1>1, <1>4, <2>1, JoinTable
<1> QED BY <1>2, <1>3, <1>4

\* The runtime i hands over what it takes for the epoch e, on plane p: the epoch is
\* lost, or i is that runtime of a session of the table.
LEMMA DeliversTable ==
  ASSUME Inv, Ground, Steady, Table, NEW e \in Epochs, NEW p \in Planes, NEW pkts, NEW i \in DOMAIN rt,
         i[1] = Server, rt[i].plane = p, rt[i].dst = e, Delivers(i, e, p, pkts),
         UNCHANGED <<sess, peers, lost, answered>>,
         e \in lost \/ \E s \in DOMAIN sess : InTable(s) /\ i = IF p = "data" THEN sess[s].data ELSE sess[s].control
  PROVE  Table'
<1>1. /\ DOMAIN rt' = DOMAIN rt /\ \A j \in DOMAIN rt : j # i => SameTraffic(j)
      /\ rt'[i].plane = rt[i].plane /\ rt'[i].src = rt[i].src /\ rt'[i].dst = rt[i].dst /\ rt'[i].msgs = rt[i].msgs
      /\ upper[p][e] = rt[i].got => upper'[p][e] = rt'[i].got
      /\ \A q \in Planes, x \in Epochs : (q # p \/ x # e) => upper'[q][x] = upper[q][x]
  BY DEF Delivers, Takes
<1>2. \A s : InTable(s)' <=> InTable(s) BY DEF InTable
<1>3. KeepSess /\ KeepTable /\ KeptTable /\ CloseLost BY <1>2, SameTableKept
<1>4. OldData BY <1>1 DEF OldData
<1>5. ClosedInv' /\ UniqueInv' /\ HomeInv' BY <1>3, <1>4, ClosedKept, UniqueKept, HomeKept DEF Table
<1>6. BriefInv' BY <1>1, BriefKept DEF Table, SameTraffic
<1>7. ASSUME NEW x \in Epochs, x # e PROVE Calm(x) BY <1>1, <1>7 DEF Calm, SameTraffic, Planes
<1>8. ASSUME NEW s \in DOMAIN sess, InTable(s), sess[s].epoch = e, e \notin lost PROVE UpperOf(s)'
  <2>1. i = IF p = "data" THEN sess[s].data ELSE sess[s].control
    <3>1. PICK t \in DOMAIN sess : InTable(t) /\ i = IF p = "data" THEN sess[t].data ELSE sess[t].control BY <1>8
    <3>2. i # None /\ sess[t].epoch = e
      <4>1. None \notin DOMAIN rt BY DEF Inv, RoomTypes, RuntimesOK, Ids, None
      <4>2. i # None BY <4>1
      <4> QED BY <3>1, <4>2 DEF Ground, AddressInv, SessOK
    <3> QED BY <1>8, <3>1, <3>2, OwnEpoch
  <2> DEFINE d == sess[s].data
             k == sess[s].control
  <2>2. /\ d \in DOMAIN rt /\ rt[d].plane = "data"
        /\ k # None => k \in DOMAIN rt /\ rt[k].plane = "control"
    BY DEF Ground, AddressInv, SessOK, Inv, SessionInv
  <2>3. UpperOf(s) BY <1>8 DEF Table, UpperInv
  <2>4. /\ upper["data"][e] = rt[d].got
        /\ k = None => upper["control"][e] = <<>>
        /\ k # None => upper["control"][e] = rt[k].got /\ Len(rt[k].msgs) <= answered[e]
    BY <1>8, <2>3 DEF UpperOf
  <2>5. CASE p = "data"
    <3>1. i = d /\ (k # None => k # i) BY <2>1, <2>2, <2>5
    <3>2. upper'["data"][e] = rt'[d].got /\ upper'["control"][e] = upper["control"][e]
      BY <1>1, <2>4, <2>5, <3>1 DEF Planes
    <3>3. k # None => rt'[k].got = rt[k].got /\ rt'[k].msgs = rt[k].msgs BY <1>1, <2>2, <3>1 DEF SameTraffic
    <3> QED BY <1>8, <2>4, <3>2, <3>3 DEF UpperOf
  <2>6. CASE p = "control"
    <3>1. i = k /\ d # i /\ k # None BY <2>1, <2>2, <2>6 DEF Inv, RoomTypes, RuntimesOK, Ids, None
    <3>2. upper'["control"][e] = rt'[k].got /\ upper'["data"][e] = upper["data"][e]
      BY <1>1, <2>4, <2>6, <3>1 DEF Planes
    <3>3. rt'[d].got = rt[d].got /\ rt'[k].msgs = rt[k].msgs BY <1>1, <2>2, <3>1 DEF SameTraffic
    <3> QED BY <1>8, <2>4, <3>1, <3>2, <3>3 DEF UpperOf
  <2> QED BY <2>5, <2>6 DEF Planes
<1>9. UpperInv'
  <2> SUFFICES ASSUME NEW s \in DOMAIN sess, InTable(s) PROVE UpperOf(s)' BY <1>2 DEF UpperInv
  <2>1. UpperOf(s) BY DEF Table, UpperInv
  <2>2. sess[s].epoch \in Epochs BY DrawnFacts DEF Ground, AddressInv, SessOK, Epochs
  <2>3. CASE sess[s].epoch # e BY <1>7, <2>1, <2>2, <2>3, CalmUpper
  <2>4. CASE sess[s].epoch = e
    <3>1. CASE e \in lost BY <2>4, <3>1 DEF UpperOf
    <3> QED BY <1>8, <2>4, <3>1
  <2> QED BY <2>3, <2>4
<1>10. EmptyInv'
  <2>1. ASSUME NEW x \in Epochs \ lost, ~Has(x)
        PROVE  upper'["data"][x] = upper["data"][x] /\ upper'["control"][x] = upper["control"][x]
    <3>1. x # e
      <4> SUFFICES ASSUME x = e PROVE FALSE OBVIOUS
      <4>1. PICK t \in DOMAIN sess : InTable(t) /\ i = IF p = "data" THEN sess[t].data ELSE sess[t].control
        BY <2>1
      <4>2. None \notin DOMAIN rt BY DEF Inv, RoomTypes, RuntimesOK, Ids, None
      <4>3. sess[t].epoch = e BY <4>1, <4>2 DEF Ground, AddressInv, SessOK
      <4> QED BY <2>1, <4>1, <4>3, HasOne
    <3> QED BY <1>1, <2>1, <3>1 DEF Planes
  <2> QED BY <1>3, <2>1, EmptyKept DEF Table
<1> QED BY <1>5, <1>6, <1>9, <1>10 DEF Table

LEMMA DeliverDataTable ==
  ASSUME Inv, Ground, Steady, Table, NEW w \in Readers, DeliverData(w) PROVE Table'
<1>1. UNCHANGED <<sess, peers, lost, answered>> BY DeliverDataRemote
<1> DEFINE s == reader[w].sess
           i == sess[s].data
           e == reader[w].src
<1>2. /\ s \in DOMAIN sess /\ (sess[s].closed \/ InTable(s)) /\ sess[s].epoch = e
      /\ i \in DOMAIN rt /\ i[1] = Server /\ rt[i].plane = "data" /\ rt[i].dst = e /\ e \in Epochs
      /\ Delivers(i, e, "data", reader[w].pkts)
  BY DeliverDataFacts
<1>3. e \in lost \/ InTable(s) BY <1>2 DEF Table, ClosedInv
<1> HIDE DEF s, e
<1> QED BY <1>1, <1>2, <1>3, DeliversTable DEF Planes

\* A session of the table, or one that is lost, gets its control runtime.
LEMMA OpensTable ==
  ASSUME Inv, Ground, HeardInv, Steady, Table, NEW s \in DOMAIN sess, Opens(s), UNCHANGED <<peers, lost, answered, upper>>
  PROVE  Table'
<1>d. PICK d : d = Fresh(Server) OBVIOUS
<1>1. /\ sess[s].control = None /\ Begins(d, "control", epoch[Server], sess[s].epoch)
      /\ DOMAIN sess' = DOMAIN sess /\ \A t \in DOMAIN sess : t # s => sess'[t] = sess[t]
      /\ sess'[s].epoch = sess[s].epoch /\ sess'[s].data = sess[s].data /\ sess'[s].closed = sess[s].closed
      /\ sess'[s].control = d /\ d # None
  BY <1>d DEF Opens
<1>2. \A t : InTable(t)' <=> InTable(t) BY DEF InTable
<1>3. KeepSess /\ KeepTable /\ CloseLost BY <1>1, <1>2 DEF KeepSess, KeepTable, CloseLost
<1>4. d \notin DOMAIN rt /\ DOMAIN rt' = DOMAIN rt \cup {d} /\ (\A j \in DOMAIN rt : SameTraffic(j))
      /\ rt'[d].plane = "control" /\ rt'[d].msgs = <<>> /\ rt'[d].got = <<>>
  BY <1>1 DEF Begins
<1>5. OldData BY <1>4 DEF OldData
<1>6. ClosedInv' /\ UniqueInv' /\ HomeInv' BY <1>3, <1>5, ClosedKept, UniqueKept, HomeKept DEF Table
<1>7. BriefInv' BY <1>4, BriefKept DEF Table, SameTraffic
<1>8. ASSUME NEW x PROVE Calm(x) BY <1>4 DEF Calm, SameTraffic
<1>9. UpperInv'
  <2> SUFFICES ASSUME NEW t \in DOMAIN sess, InTable(t) PROVE UpperOf(t)' BY <1>1, <1>2 DEF UpperInv
  <2>1. UpperOf(t) BY DEF Table, UpperInv
  <2>2. CASE t # s BY <1>1, <1>8, <2>1, <2>2, CalmUpper
  <2>3. CASE t = s
    <3>1. sess[s].data \in DOMAIN rt BY DEF Inv, SessionInv
    <3>2. sess[s].epoch \in Epochs BY DrawnFacts DEF Ground, AddressInv, SessOK, Epochs
    <3>3. answered[sess[s].epoch] \in Nat BY <3>2 DEF HeardInv
    <3>4. Len(<<>>) = 0 OBVIOUS
    <3>5. Len(rt'[d].msgs) <= answered[sess[s].epoch] BY <1>4, <3>3, <3>4
    <3>6. rt'[sess[s].data].got = rt[sess[s].data].got BY <1>4, <3>1 DEF SameTraffic
    <3> QED BY <1>1, <1>4, <2>1, <2>3, <3>5, <3>6 DEF UpperOf
  <2> QED BY <2>2, <2>3
<1>10. EmptyInv' BY <1>3, EmptyKept DEF Table
<1> QED BY <1>6, <1>7, <1>9, <1>10 DEF Table

LEMMA PeerControlTable ==
  ASSUME Inv, Ground, HeardInv, Steady, Table, NEW w \in Readers, PeerControlFor(w) PROVE Table'
<1>1. UNCHANGED <<peers, lost, answered>> BY PeerControlRemote
<1> DEFINE s == reader[w].sess
           i == sess[s].control
           e == reader[w].src
<1>2. s \in DOMAIN sess /\ (sess[s].closed \/ InTable(s)) /\ sess[s].epoch = e /\ e \in Epochs BY PeerControlFacts
<1>3. e \in lost \/ InTable(s) BY <1>2 DEF Table, ClosedInv
<1>4. \/ Opens(s) /\ upper' = upper
      \/ /\ i \in DOMAIN rt /\ i[1] = Server /\ rt[i].plane = "control" /\ rt[i].dst = e /\ sess' = sess
         /\ Delivers(i, e, "control", reader[w].pkts)
  BY PeerControlFacts
<1> HIDE DEF s, e
<1>5. CASE Opens(s) /\ upper' = upper BY <1>1, <1>2, <1>5, OpensTable
<1>6. CASE /\ i \in DOMAIN rt /\ i[1] = Server /\ rt[i].plane = "control" /\ rt[i].dst = e /\ sess' = sess
           /\ Delivers(i, e, "control", reader[w].pkts)
  BY <1>1, <1>2, <1>3, <1>6, DeliversTable DEF Planes
<1> QED BY <1>4, <1>5, <1>6

\* The server has heard one hello of an epoch that is not lost.
LEMMA HeardOnce ==
  ASSUME Inv, Ground, HelloInv, Table, NEW s \in DOMAIN sess, InTable(s), sess[s].epoch \notin lost, sess[s].control # None
  PROVE  Len(upper["control"][sess[s].epoch]) <= 1
<1> DEFINE i == sess[s].control
           q == rt[i].got
<1>1. i \in DOMAIN rt /\ i[1] = Server /\ rt[i].plane = "control"
  BY DEF Ground, AddressInv, SessOK, Inv, SessionInv
<1>2. upper["control"][sess[s].epoch] = q BY DEF Table, UpperInv, UpperOf
<1>3. q \in Seq(SentBy(rt)) BY <1>1, RuntimeFields DEF Inv, RoomTypes
<1>4. \A n \in DOMAIN q : q[n][2] = n /\ q[n][1][1] # Server /\ rt[q[n][1]].plane = "control"
  BY <1>1 DEF Ground, OriginInv, Numbered, ServerRtOK, FromClient
<1>5. \A n \in DOMAIN q : q[n][1] \in DOMAIN rt /\ q[n][2] \in 1 .. Len(rt[q[n][1]].msgs) BY <1>3, SentBySomeone
<1>6. \A n \in DOMAIN q : Len(rt[q[n][1]].msgs) <= 1 BY <1>4, <1>5 DEF HelloInv
<1>7. \A n \in DOMAIN q : Len(rt[q[n][1]].msgs) \in Nat BY <1>5, RuntimeFields DEF Inv, RoomTypes
<1>8. \A n \in DOMAIN q : n \in 1 .. Len(rt[q[n][1]].msgs) BY <1>4, <1>5
<1> HIDE DEF q
<1>9. \A n \in DOMAIN q : n <= 1 BY <1>6, <1>7, <1>8
<1>10. Len(q) \in Nat /\ DOMAIN q = 1 .. Len(q) BY <1>3
<1>11. Len(q) <= 1 BY <1>9, <1>10
<1> QED BY <1>2, <1>11

LEMMA SendToTable ==
  ASSUME Inv, Ground, Steady, Table, NEW e, SendTo(e) PROVE Table'
<1>1. UNCHANGED <<sess, upper, lost, answered>> BY DEF SendTo
<1> DEFINE i == sess[Get(e)].data
<1>2. rt[i].plane = "data" /\ \E f : Answers(e, i, 0, f) BY SendToFacts
<1>3. Sends(i, 0) /\ \A s : InTable(s)' <=> InTable(s) BY <1>2 DEF Answers
<1> HIDE DEF i
<1>4. KeepSess /\ KeepTable /\ KeptTable /\ CloseLost BY <1>1, <1>3, SameTableKept
<1>5. OldData BY <1>3 DEF Sends, OldData
<1>6. ClosedInv' /\ UniqueInv' /\ HomeInv' BY <1>4, <1>5, ClosedKept, UniqueKept, HomeKept DEF Table, KeepSess
<1>7. BriefInv' BY <1>1, <1>2, <1>3, BriefKept DEF Table, SameTraffic, Sends
<1>8. ASSUME NEW x PROVE Calm(x) BY <1>1, <1>2, <1>3 DEF Calm, SameTraffic, Sends
<1>9. UpperInv' BY <1>1, <1>3, <1>8, CalmUpper DEF Table, UpperInv
<1>10. EmptyInv' BY <1>1, <1>4, EmptyKept DEF Table
<1> QED BY <1>6, <1>7, <1>9, <1>10 DEF Table

LEMMA WelcomeTable ==
  ASSUME Inv, Ground, HeardInv, HelloInv, Steady, Table, NEW e \in AllEpochs, Welcome(e) PROVE Table'
<1>1. /\ UNCHANGED <<sess, upper, lost>> /\ answered[e] < Len(upper["control"][e])
      /\ answered' = [answered EXCEPT ![e] = @ + 1]
  BY DEF Welcome
<1>2. e \in Epochs /\ answered[e] \in Nat BY WelcomeHeard DEF HeardInv
<1>s. PICK s : s = Get(e) OBVIOUS
<1>i. PICK i : i = sess[s].control OBVIOUS
<1>3. s \in DOMAIN sess /\ InTable(s) /\ sess[s].epoch = e /\ i # None /\ rt[i].plane = "control"
      /\ \E f : Answers(e, i, epoch[Server], f)
  BY <1>s, <1>i, WelcomeFacts
<1>4. i \in DOMAIN rt /\ i[1] = Server /\ rt[i].dst = e /\ Sends(i, epoch[Server]) /\ \A t : InTable(t)' <=> InTable(t)
  BY <1>3 DEF Answers
<1>5. KeepSess /\ KeepTable /\ KeptTable /\ CloseLost BY <1>1, <1>4, SameTableKept
<1>6. OldData BY <1>4 DEF Sends, OldData
<1>7. ClosedInv' /\ UniqueInv' /\ HomeInv' BY <1>5, <1>6, ClosedKept, UniqueKept, HomeKept DEF Table, KeepSess
<1>8. answered'[e] = answered[e] + 1 /\ \A x \in Epochs : x # e => answered'[x] = answered[x]
  BY <1>1, <1>2 DEF HeardInv
<1>9. ASSUME e \notin lost PROVE rt'[i].msgs = Append(rt[i].msgs, epoch[Server]) /\ Len(rt'[i].msgs) = 1 /\ answered'[e] >= 1
  <2>1. UpperOf(s) BY <1>3 DEF Table, UpperInv
  <2>2. Len(rt[i].msgs) <= answered[e] BY <1>i, <1>3, <1>9, <2>1 DEF UpperOf
  <2>3. Len(upper["control"][e]) <= 1 BY <1>i, <1>3, <1>9, HeardOnce
  <2>4. Len(upper["control"][e]) \in Nat BY <1>2, UpperSent DEF Planes
  <2>5. rt[i].msgs \in Seq(E0) /\ Len(rt[i].msgs) \in Nat BY <1>4, RuntimeFields DEF Inv, RoomTypes
  <2>6. Len(rt[i].msgs) = 0 BY <1>1, <1>2, <2>2, <2>3, <2>4, <2>5
  <2>7. rt'[i].msgs = Append(rt[i].msgs, epoch[Server]) BY <1>4 DEF Sends
  <2>8. rt[i].msgs = <<>> BY <2>5, <2>6
  <2>9. Len(Append(<<>>, epoch[Server])) = 1 OBVIOUS
  <2> QED BY <1>2, <1>8, <2>7, <2>8, <2>9
<1>10. BriefInv'
  <2> SUFFICES ASSUME NEW j \in DOMAIN rt', j[1] = Server, rt'[j].plane = "control", rt'[j].dst \notin lost'
               PROVE  Len(rt'[j].msgs) <= 1
    BY DEF BriefInv
  <2>1. CASE j = i BY <1>1, <1>4, <1>9, <2>1 DEF Sends
  <2>2. CASE j # i BY <1>1, <1>4, <2>2 DEF Sends, SameTraffic, Table, BriefInv
  <2> QED BY <2>1, <2>2
<1>11. ASSUME NEW x \in Epochs, x # e PROVE Calm(x) BY <1>1, <1>4, <1>8, <1>11 DEF Calm, SameTraffic, Sends
<1>12. UpperInv'
  <2> SUFFICES ASSUME NEW t \in DOMAIN sess, InTable(t) PROVE UpperOf(t)' BY <1>1, <1>4 DEF UpperInv
  <2>1. UpperOf(t) BY DEF Table, UpperInv
  <2>2. CASE t # s
    <3>1. sess[t].epoch # e BY <1>3, <2>2, OwnEpoch
    <3>2. sess[t].epoch \in Epochs BY DrawnFacts DEF Ground, AddressInv, SessOK, Epochs
    <3> QED BY <1>1, <1>11, <2>1, <3>1, <3>2, CalmUpper
  <2>3. CASE t = s
    <3>1. rt[sess[s].data].plane = "data" /\ sess[s].data \in DOMAIN rt
      BY <1>3 DEF Ground, AddressInv, SessOK, Inv, SessionInv
    <3>2. rt'[sess[s].data].got = rt[sess[s].data].got /\ rt'[i].got = rt[i].got
      BY <1>3, <1>4, <3>1 DEF Sends, SameTraffic
    <3>3. e \notin lost => Len(rt'[i].msgs) <= answered'[e] BY <1>2, <1>8, <1>9
    <3> QED BY <1>i, <1>1, <1>3, <2>1, <2>3, <3>2, <3>3 DEF UpperOf
  <2> QED BY <2>2, <2>3
<1>13. EmptyInv' BY <1>1, <1>5, EmptyKept DEF Table
<1> QED BY <1>7, <1>10, <1>12, <1>13 DEF Table

LEMMA InitTable ==
  ASSUME Init, Inv PROVE Table
<1>1. DOMAIN <<>> = {} OBVIOUS
<1>2. sess = <<>> /\ peers = <<>> /\ \A i \in DOMAIN rt : i[1] # Server BY InitFacts
<1>3. ClosedInv /\ UpperInv BY <1>1, <1>2 DEF ClosedInv, UpperInv
<1>4. UniqueInv /\ HomeInv /\ BriefInv BY <1>2 DEF UniqueInv, HomeInv, BriefInv, DataFor
<1>5. EmptyInv BY InitFacts DEF Planes, EmptyInv
<1> QED BY <1>3, <1>4, <1>5 DEF Table

\* The sessions of the server stay apart, whatever step is taken.
LEMMA NextTable ==
  ASSUME Inv, Ground, HeardInv, Streams, Table, [Next]_vars PROVE Table'
<1>0. Steady /\ HelloInv BY NextGround DEF GroundKept, Streams
<1>1. ASSUME NEW c \in Clients, NEW g \in Goroutines, Restart(c, g) PROVE Table'
  BY <1>0, <1>1, RestartsApart, ClientTable
<1>2. ASSUME NEW c \in Clients, ClientStep(c) PROVE Table' BY <1>0, <1>2, ClientApart, ClientTable
<1>3. ASSUME NEW w \in Readers, ReaderStep(w) PROVE Table'
  BY <1>0, <1>3, TakeFrameTable, PeerSessionTable, DeliverDataTable, PeerControlTable DEF ReaderStep
<1>4. ASSUME NEW e \in AllEpochs, Welcome(e) \/ SendTo(e) PROVE Table' BY <1>0, <1>4, WelcomeTable, SendToTable
<1>5. CASE Sweep \/ ServerReconnects \/ ServerCloses \/ ServerRestarts
  BY <1>0, <1>5, LeaveTable, QuietTable, RestartsTable
<1>6. CASE UNCHANGED vars BY <1>0, <1>6, QuietTable
<1> QED BY <1>1, <1>2, <1>3, <1>4, <1>5, <1>6 DEF Next, ClientStep, ReaderStep

\* Numbered packets of one runtime are its stream from the first packet on.
LEMMA PureBy ==
  ASSUME NEW q \in Seq(SentBy(rt)), \A n \in DOMAIN q : q[n][2] = n, \A n, m \in DOMAIN q : q[n][1] = q[m][1]
  PROVE  Pure(q)
<1> SUFFICES ASSUME NEW k \in DOMAIN q PROVE q[k] = <<q[1][1], k>> BY DEF Pure
<1>1. 1 \in DOMAIN q OBVIOUS
<1>2. q[k] \in SentBy(rt) BY SentBySomeone
<1>3. q[k] = <<q[k][1], q[k][2]>> BY <1>2 DEF SentBy
<1> QED BY <1>1, <1>3

LEMMA ClientStreamIsPure ==
  ASSUME Inv, Ground, Streams, Table, NEW i \in DOMAIN rt, i[1] # Server, rt[i].src \notin lost
  PROVE  Pure(rt[i].got)
<1> DEFINE q == rt[i].got
<1>1. q \in Seq(SentBy(rt)) /\ rt[i].plane \in Planes BY RuntimeFields DEF Inv, RoomTypes
<1>2. \A n \in DOMAIN q : q[n][2] = n /\ q[n][1][1] = Server /\ rt[q[n][1]].plane = rt[i].plane
  BY DEF Ground, OriginInv, Numbered, ClientRtOK
<1>3. \A n \in DOMAIN q : q[n][1] \in DOMAIN rt /\ q[n][2] \in 1 .. Len(rt[q[n][1]].msgs) BY <1>1, SentBySomeone
<1>4. \A n \in DOMAIN q : rt[q[n][1]].dst = rt[i].src BY DEF Streams, GotInv, GotOK
<1>5. \A n, m \in DOMAIN q : q[n][1] = q[m][1]
  <2>1. CASE rt[i].plane = "data" BY <1>2, <1>3, <1>4, <2>1 DEF Streams, GotInv, GotOK, DataFor, Table, UniqueInv
  <2>2. CASE rt[i].plane = "control"
    <3>1. \A n \in DOMAIN q : Len(rt[q[n][1]].msgs) <= 1 BY <1>2, <1>3, <1>4, <2>2 DEF Table, BriefInv
    <3>2. \A n \in DOMAIN q : Len(rt[q[n][1]].msgs) \in Nat BY <1>3, RuntimeFields DEF Inv, RoomTypes
    <3>3. \A n \in DOMAIN q : n \in 1 .. Len(rt[q[n][1]].msgs) BY <1>2, <1>3
    <3> HIDE DEF q
    <3>4. \A n \in DOMAIN q : n = 1 BY <3>1, <3>2, <3>3
    <3> QED BY <3>4
  <2> QED BY <1>1, <2>1, <2>2 DEF Planes
<1> QED BY <1>1, <1>2, <1>5, PureBy

LEMMA UpperIsPure ==
  ASSUME Inv, Ground, HeardInv, Streams, Table, NEW e \in Epochs, e \notin lost
  PROVE  /\ Pure(upper["control"][e])
         /\ answered[e] > 0 /\ e \notin mixed => Pure(upper["data"][e])
<1>0. Pure(<<>>) BY DEF Pure
<1>1. CASE ~Has(e) BY <1>0, <1>1 DEF Table, EmptyInv
<1>2. CASE Has(e)
  <2>1. PICK s \in DOMAIN sess : InTable(s) /\ sess[s].epoch = e BY <1>2, HasOne
  <2> DEFINE d == sess[s].data
             i == sess[s].control
  <2>2. UpperOf(s) BY <2>1 DEF Table, UpperInv
  <2>3. /\ upper["data"][e] = rt[d].got
        /\ i = None => upper["control"][e] = <<>>
        /\ i # None => upper["control"][e] = rt[i].got
    BY <2>1, <2>2 DEF UpperOf
  <2>4. /\ d \in DOMAIN rt /\ d[1] = Server /\ rt[d].plane = "data" /\ rt[d].dst = e
        /\ i # None => i \in DOMAIN rt /\ i[1] = Server /\ rt[i].plane = "control" /\ rt[i].dst = e
    BY <2>1 DEF Ground, AddressInv, SessOK, Inv, SessionInv
  <2> HIDE DEF d, i
  <2>5. ASSUME NEW j \in DOMAIN rt, j[1] = Server
        PROVE  /\ rt[j].got \in Seq(SentBy(rt))
               /\ \A n \in DOMAIN rt[j].got : rt[j].got[n][2] = n /\ FromClient(rt[j].got[n], rt[j].plane, rt[j].dst)
               /\ \A n \in DOMAIN rt[j].got : rt[j].got[n][1] \in DOMAIN rt
                    /\ rt[j].got[n][2] \in 1 .. Len(rt[rt[j].got[n][1]].msgs)
    BY <2>5, RuntimeFields, SentBySomeone DEF Inv, RoomTypes, Ground, OriginInv, Numbered, ServerRtOK
  <2>6. ASSUME i # None PROVE Pure(upper["control"][e])
    <3>1. ASSUME NEW n \in DOMAIN rt[i].got PROVE Speaks(rt[i].got[n][1], e)
      <4>1. rt[i].got[n][2] \in 1 .. Len(rt[rt[i].got[n][1]].msgs) BY <2>4, <2>5, <2>6, <3>1
      <4>2. rt[rt[i].got[n][1]].msgs # <<>> BY <4>1
      <4>3. rt[i].got[n][1] \in DOMAIN rt /\ FromClient(rt[i].got[n], "control", e) BY <2>4, <2>5, <2>6, <3>1
      <4> QED BY <4>2, <4>3 DEF FromClient, Speaks
    <3>2. \A n, m \in DOMAIN rt[i].got : rt[i].got[n][1] = rt[i].got[m][1] BY <3>1 DEF Streams, HelloInv
    <3>3. \A n \in DOMAIN rt[i].got : rt[i].got[n][2] = n BY <2>4, <2>5, <2>6
    <3>4. rt[i].got \in Seq(SentBy(rt)) BY <2>4, <2>5, <2>6
    <3> QED BY <2>3, <2>6, <3>2, <3>3, <3>4, PureBy
  <2>7. Pure(upper["control"][e]) BY <1>0, <2>3, <2>6
  <2>8. ASSUME answered[e] > 0, e \notin mixed PROVE Pure(upper["data"][e])
    <3>1. Sole(e) BY <2>8 DEF HeardInv, Streams, SoleInv
    <3>2. ASSUME NEW n \in DOMAIN rt[d].got PROVE Uses(rt[d].got[n][1], e) BY <2>4, <2>8, <3>2 DEF InSession, Uses
    <3>3. \A n, m \in DOMAIN rt[d].got : rt[d].got[n][1] = rt[d].got[m][1] BY <3>1, <3>2 DEF Sole
    <3>4. rt[d].got \in Seq(SentBy(rt)) /\ \A n \in DOMAIN rt[d].got : rt[d].got[n][2] = n BY <2>4, <2>5
    <3> QED BY <2>3, <3>3, <3>4, PureBy
  <2> QED BY <2>7, <2>8
<1> QED BY <1>1, <1>2

\* What comes out of a KCP session is one session of the other side from its first
\* packet on: the epochs in the headers (AcceptsDst, the filter of control frames,
\* the confirmed epoch) and createMu keep the streams apart in every interleaving of
\* restarts, handshakes, evictions and restarts of the server.
THEOREM EverySessionIsOneStream == Spec => []OneStream
<1> DEFINE All == Inv /\ Ground /\ HeardInv /\ Streams /\ Table
<1>1. Init => All BY InitInv, InitGround, InitStreams, InitTable
<1>2. All /\ [Next]_vars => All' BY NextInv, NextGround, NextStreams, NextTable DEF GroundKept
<1>3. All => OneStream BY ClientStreamIsPure, UpperIsPure DEF OneStream
<1> QED BY <1>1, <1>2, <1>3, PTL DEF Spec

=============================================================================
