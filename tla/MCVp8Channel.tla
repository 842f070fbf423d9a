---------------------------- MODULE MCVp8Channel ----------------------------
EXTENDS Vp8Channel

CONSTANTS c1, c2, r1, r2, r3

\* r1 and r2 are interchangeable.
ReaderSymmetry == Permutations({r1, r2})

\* A client that restarts under traffic; two restarts that overlap; two clients
\* and a fault; two clients with traffic that two readers race to deliver.
MCScenes ==
    {[clients |-> {c1}, readers |-> {r3}, epochs |-> 4, sessions |-> 2, msgs |-> 2, faults |-> 1, late |-> 1],
     [clients |-> {c1}, readers |-> {r3}, epochs |-> 5, sessions |-> 2, msgs |-> 0, faults |-> 2, late |-> 0],
     [clients |-> {c1, c2}, readers |-> {r3}, epochs |-> 4, sessions |-> 3, msgs |-> 0, faults |-> 1, late |-> 0],
     [clients |-> {c1, c2}, readers |-> {r1, r2}, epochs |-> 3, sessions |-> 2, msgs |-> 2, faults |-> 0, late |-> 0]}
=============================================================================
