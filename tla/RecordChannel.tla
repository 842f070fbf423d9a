--------------------------- MODULE RecordChannel ---------------------------
(***************************************************************************)
(* What the record layer of crypto/chacha.go promises to muxconn: every    *)
(* record is sealed once, and a receiver that remembers a sender opens     *)
(* each of its records at most once.  A receiver may forget a sender (its  *)
(* memory is bounded), and may refuse any record.                          *)
(***************************************************************************)
EXTENDS Naturals

CONSTANTS Senders, Counters

VARIABLES
    sealed,    \* how often each counter of a sender was sealed
    opened     \* how often each was opened since the sender was last forgotten

vars == <<sealed, opened>>

Never == [c \in Counters |-> 0]

Init ==
    /\ sealed = [s \in Senders |-> Never]
    /\ opened = [s \in Senders |-> Never]

Seal(s, c) ==
    /\ sealed[s][c] = 0
    /\ sealed' = [sealed EXCEPT ![s] = [@ EXCEPT ![c] = 1]]
    /\ UNCHANGED opened

Forgotten(F) == [s \in Senders |-> IF s \in F THEN Never ELSE opened[s]]

\* A record is opened at most once, and only if it was sealed; opening the
\* first record of a sender may cost the memory of others.
Open(s, c) ==
    /\ sealed[s][c] = 1 /\ opened[s][c] = 0
    /\ \E F \in SUBSET (Senders \ {s}) :
          opened' = [Forgotten(F) EXCEPT ![s] = [opened[s] EXCEPT ![c] = 1]]
    /\ UNCHANGED sealed

Next == \E s \in Senders, c \in Counters : Seal(s, c) \/ Open(s, c)

Spec == Init /\ [][Next]_vars
=============================================================================
