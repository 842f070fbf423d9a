--------------------------- MODULE MessageChannel ---------------------------
(***************************************************************************)
(* What an acknowledged video transport promises to the layer above: a     *)
(* message is handed over only if it was sent, a receiver that remembers   *)
(* it does not hand it over again, and the sender is told that it arrived  *)
(* only if it did, unless the receiver forgot its state in between.        *)
(***************************************************************************)
CONSTANTS Ends, Messages(_)   \* the two sides, and what each may send

VARIABLES
    sent,        \* messages whose transmission began
    known,       \* for each side, the messages it handed over and remembers
    ever,        \* messages handed over at least once
    torn,        \* messages under way when their receiver forgot its state
    confirmed    \* messages whose Send returned without an error

vars == <<sent, known, ever, torn, confirmed>>

Init ==
    /\ sent = {} /\ ever = {} /\ torn = {} /\ confirmed = {}
    /\ known = [e \in Ends |-> {}]

Send(e) ==
    \E m \in Messages(e) \ sent :
        /\ sent' = sent \cup {m}
        /\ UNCHANGED <<known, ever, torn, confirmed>>

HandOver(e) ==
    \E m \in sent \ (Messages(e) \cup known[e]) :
        /\ known' = [known EXCEPT ![e] = @ \cup {m}]
        /\ ever' = ever \cup {m}
        /\ UNCHANGED <<sent, torn, confirmed>>

Confirm(e) ==
    \E m \in (sent \cap Messages(e)) \ confirmed :
        /\ m \in ever \cup torn
        /\ confirmed' = confirmed \cup {m}
        /\ UNCHANGED <<sent, known, ever, torn>>

Forget(e) ==
    /\ known' = [known EXCEPT ![e] = {}]
    /\ torn' = torn \cup (sent \ Messages(e))
    /\ UNCHANGED <<sent, ever, confirmed>>

Next == \E e \in Ends : Send(e) \/ HandOver(e) \/ Confirm(e) \/ Forget(e)

Spec == Init /\ [][Next]_vars
=============================================================================
