---------------------------- MODULE ReplayWindow ----------------------------
(***************************************************************************)
(* The record layer of crypto/chacha.go: concurrent goroutines of a sender *)
(* draw counters with compare-and-swap, the conference loses, reorders,    *)
(* duplicates and damages records, and a receiver keeps one sliding replay *)
(* window per sender prefix, for the maxReplaySenders most recent senders. *)
(*                                                                         *)
(* A record is its header: sender prefix and counter.  The cipher is       *)
(* abstracted to what it decides: a record opens iff it was sealed and     *)
(* arrives undamaged under the associated data of its plane.  The bitmap   *)
(* state.seen is the set of the ages whose bit is set.                     *)
(***************************************************************************)
EXTENDS Integers, Sequences, FiniteSets

CONSTANTS
    Senders,            \* sender prefixes, one per KeySet
    Threads,            \* goroutines of a sender that seal concurrently
    MaxCounter,         \* math.MaxUint64
    replayWindowSize,   \* 64
    maxReplaySenders    \* 256

ASSUME ReplayAssumption ==
    /\ MaxCounter \in Nat \ {0}
    /\ replayWindowSize \in Nat \ {0}
    /\ maxReplaySenders \in Nat \ {0}

Counters == 1..MaxCounter

Idle == -1

VARIABLES
    counter,    \* sealState.counter of each sender
    loaded,     \* what a goroutine in nextCounter has loaded, or Idle
    seals,      \* history: how often a counter was sealed
    senders,    \* the keys of replayCache.senders
    highest,    \* replayState.highest
    seen,       \* replayState.seen: the ages whose bit is set
    lru,        \* replayCache.lru, front first
    opens       \* history: how often a counter was opened since its sender's insertion

vars == <<counter, loaded, seals, senders, highest, seen, lru, opens>>

sendVars == <<counter, loaded, seals>>
cacheVars == <<senders, highest, seen, lru>>

Init ==
    /\ counter = [s \in Senders |-> 0]
    /\ loaded = [s \in Senders |-> [t \in Threads |-> Idle]]
    /\ seals = [s \in Senders |-> [c \in Counters |-> 0]]
    /\ senders = {}
    /\ highest = [s \in Senders |-> 0]
    /\ seen = [s \in Senders |-> {}]
    /\ lru = <<>>
    /\ opens = [s \in Senders |-> [c \in Counters |-> 0]]

-----------------------------------------------------------------------------
(* Sealing *)

\* current := s.counter.Load(); the largest value is never advanced.
LoadCounter(s, t) ==
    /\ loaded[s][t] = Idle
    /\ counter[s] # MaxCounter
    /\ loaded' = [loaded EXCEPT ![s][t] = counter[s]]
    /\ UNCHANGED <<counter, seals, cacheVars, opens>>

\* Mutant: the new value is stored without comparing.
SwapCounterBlind(s, t) ==
    /\ loaded[s][t] # Idle
    /\ counter' = [counter EXCEPT ![s] = loaded[s][t] + 1]
    /\ seals' = [seals EXCEPT ![s][loaded[s][t] + 1] = @ + 1]
    /\ loaded' = [loaded EXCEPT ![s][t] = Idle]
    /\ UNCHANGED <<cacheVars, opens>>

\* The compare-and-swap succeeds and the record with the new counter is sealed.
SwapCounter(s, t) ==
    /\ loaded[s][t] # Idle
    /\ counter[s] = loaded[s][t]
    /\ counter' = [counter EXCEPT ![s] = @ + 1]
    /\ seals' = [seals EXCEPT ![s][counter[s] + 1] = @ + 1]
    /\ loaded' = [loaded EXCEPT ![s][t] = Idle]
    /\ UNCHANGED <<cacheVars, opens>>

\* The compare-and-swap fails and the loop starts again.
SwapFails(s, t) ==
    /\ loaded[s][t] # Idle
    /\ counter[s] # loaded[s][t]
    /\ loaded' = [loaded EXCEPT ![s][t] = Idle]
    /\ UNCHANGED <<counter, seals, cacheVars, opens>>

-----------------------------------------------------------------------------
(* Opening *)

Sealed(s) == {c \in Counters : seals[s][c] > 0}

Delivered(s) == {c \in Counters : opens[s][c] > 0}

\* Mutant: the bit of the former highest counter is lost.
ShiftedOffByOne(bits, shift) ==
    {0} \cup {a \in (shift + 1)..(replayWindowSize - 1) : a - shift \in bits}

\* state.seen<<shift | 1: bits shifted past the width are lost.
Shifted(bits, shift) ==
    IF shift >= replayWindowSize
    THEN {0}
    ELSE {0} \cup {a \in shift..(replayWindowSize - 1) : a - shift \in bits}

\* Mutant: the list is not reordered.
MoveToFrontNever(q, s) == q

MoveToFront(q, s) ==
    LET k == CHOOSE i \in 1..Len(q) : q[i] = s
    IN  [i \in 1..Len(q) |-> IF i = 1 THEN s ELSE IF i <= k THEN q[i-1] ELSE q[i]]

\* The first record of a sender, into a full cache: the oldest sender leaves.
Full == Cardinality(senders) >= maxReplaySenders

Evicted == IF Full THEN {lru[Len(lru)]} ELSE {}

Insert(s, c) ==
    /\ s \notin senders
    /\ senders' = (senders \ Evicted) \cup {s}
    /\ highest' = [x \in Senders |-> IF x = s THEN c
                                     ELSE IF x \in Evicted THEN 0 ELSE highest[x]]
    /\ seen' = [x \in Senders |-> IF x = s THEN {0}
                                  ELSE IF x \in Evicted THEN {} ELSE seen[x]]
    /\ lru' = <<s>> \o (IF Full THEN SubSeq(lru, 1, Len(lru) - 1) ELSE lru)

\* A counter above the highest moves the window.
Advance(s, c) ==
    /\ s \in senders
    /\ c > highest[s]
    /\ seen' = [seen EXCEPT ![s] = Shifted(@, c - highest[s])]
    /\ highest' = [highest EXCEPT ![s] = c]
    /\ lru' = MoveToFront(lru, s)
    /\ UNCHANGED senders

TooOld(s, c) == highest[s] - c >= replayWindowSize

Duplicate(s, c) == highest[s] - c \in seen[s]

\* A counter inside the window whose bit is not set fills its place.
Fill(s, c) ==
    /\ s \in senders
    /\ c <= highest[s]
    /\ ~TooOld(s, c)
    /\ ~Duplicate(s, c)
    /\ seen' = [seen EXCEPT ![s] = @ \cup {highest[s] - c}]
    /\ lru' = MoveToFront(lru, s)
    /\ UNCHANGED <<senders, highest>>

\* ErrReplayTooOld and ErrReplayDuplicate leave the cache alone.
Refuse(s, c) ==
    /\ s \in senders
    /\ c <= highest[s]
    /\ TooOld(s, c) \/ Duplicate(s, c)
    /\ UNCHANGED cacheVars

\* The plaintext reaches muxconn; what an evicted sender sent is forgotten.
Deliver(s, c) ==
    opens' = [x \in Senders |-> IF x = s THEN [opens[s] EXCEPT ![c] = @ + 1]
                                ELSE IF x \in Evicted /\ s \notin senders THEN [d \in Counters |-> 0]
                                ELSE opens[x]]

\* A sealed record arrives undamaged, perhaps again, perhaps late.
OpenInto(s, c) ==
    /\ c \in Sealed(s)
    /\ \/ (Insert(s, c) \/ Advance(s, c) \/ Fill(s, c)) /\ Deliver(s, c)
       \/ Refuse(s, c) /\ UNCHANGED opens
    /\ UNCHANGED sendVars

\* Mutant: the counter is recorded before the record is authenticated.
OpenRefusedBurns(s, c) ==
    /\ Insert(s, c) \/ Advance(s, c) \/ Fill(s, c) \/ Refuse(s, c)
    /\ UNCHANGED <<sendVars, opens>>

\* A damaged record, or one on the wrong plane, or one with the reserved counter
\* zero is refused: whatever its header says, replay state does not change.
OpenRefused(s, c) == UNCHANGED vars

Next ==
    \E s \in Senders :
       \/ \E t \in Threads : LoadCounter(s, t) \/ SwapCounter(s, t) \/ SwapFails(s, t)
       \/ \E c \in Counters : OpenInto(s, c)
       \/ \E c \in 0..MaxCounter : OpenRefused(s, c)

Spec == Init /\ [][Next]_vars

-----------------------------------------------------------------------------
(* Properties *)

TypeOK ==
    /\ counter \in [Senders -> 0..MaxCounter]
    /\ loaded \in [Senders -> [Threads -> {Idle} \cup 0..(MaxCounter - 1)]]
    /\ seals \in [Senders -> [Counters -> Nat]]
    /\ senders \in SUBSET Senders
    /\ highest \in [Senders -> 0..MaxCounter]
    /\ seen \in [Senders -> SUBSET (0..(replayWindowSize - 1))]
    /\ lru \in Seq(Senders)
    /\ opens \in [Senders -> [Counters -> Nat]]

\* However the goroutines of a sender interleave in nextCounter, a counter (and
\* with it a nonce) is sealed at most once, and every counter up to the current
\* one is sealed: no number is skipped and none wraps.
CountersAreUnique ==
    \A s \in Senders, c \in Counters : seals[s][c] = IF c <= counter[s] THEN 1 ELSE 0

\* The bitmap is exact: inside the window a bit is set iff that counter was
\* accepted since the sender was inserted, and nothing above it was accepted.
WindowIsExact ==
    \A s \in senders :
       /\ highest[s] \in Delivered(s)
       /\ \A c \in Delivered(s) : c <= highest[s]
       /\ \A a \in 0..(replayWindowSize - 1) :
             a \in seen[s] <=> highest[s] - a \in Delivered(s)

\* A sealed record that was never accepted, and that is not older than the
\* window, will be accepted when it arrives: neither damaged copies of it nor
\* other records on the way may burn its place.
FreshRecordsPass ==
    \A s \in senders : \A c \in Sealed(s) \ Delivered(s) :
       c <= highest[s] => ~Duplicate(s, c)

\* The map and the list of replayCache agree: the list holds each known sender
\* once and no other, and at most maxReplaySenders of them.
CacheIsConsistent ==
    /\ \A s \in Senders : s \in senders <=> \E i \in 1..Len(lru) : lru[i] = s
    /\ \A i, j \in 1..Len(lru) : lru[i] = lru[j] => i = j
    /\ Cardinality(senders) <= maxReplaySenders

\* The sender that has just been accepted is at the front, and the others keep
\* their order: so the one evicted is the one that has been silent the longest.
LruOrder ==
    [][\A s \in Senders : opens'[s] # opens[s] /\ s \in senders' =>
          /\ lru'[1] = s
          /\ \A x, y \in senders' \ {s} :
                (\E i, j \in 1..Len(lru) : i < j /\ lru[i] = x /\ lru[j] = y)
                   => \E i, j \in 1..Len(lru') : i < j /\ lru'[i] = x /\ lru'[j] = y]_vars

\* The cache forgets the right sender, and forgets it in the map and in the list.
CacheEvictsTheOldest == []CacheIsConsistent /\ LruOrder

\* An accepted record is remembered and an unseen one is not mistaken for it.
WindowDecidesExactly == WindowIsExact /\ FreshRecordsPass

Channel == INSTANCE RecordChannel
    WITH sealed <- seals, opened <- opens

\* The bounded window implements a channel on which a remembered sender's
\* records are opened at most once.
ImplementsChannel == Channel!Spec
=============================================================================
