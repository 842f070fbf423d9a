----------------------------- MODULE MCAckedLink -----------------------------
EXTENDS AckedLink

\* Two messages one way: the second meets the retransmissions of the first.
MCMsgs == [client |-> 2, server |-> 0]
==============================================================================
