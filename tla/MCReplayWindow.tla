--------------------------- MODULE MCReplayWindow ---------------------------
EXTENDS ReplayWindow, TLC

\* Senders and goroutines are interchangeable.
Symmetry == Permutations(Threads) \cup Permutations(Senders)
=============================================================================
