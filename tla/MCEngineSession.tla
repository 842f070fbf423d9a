-------------------------- MODULE MCEngineSession ---------------------------
EXTENDS EngineSession

Scene(k, n, f, c, x) ==
    [kind |-> k, conns |-> n, faults |-> f, calls |-> c, cancels |-> x]

\* Jitsi, whose goroutines are many, is checked in two smaller scenes: one
\* with room for a full reconnect after the first, one with every caller.
MCScenes == {Scene("livekit", 3, 2, 1, TRUE), Scene("goolom", 3, 1, 1, TRUE),
             Scene("jitsi", 3, 1, 0, FALSE), Scene("jitsi", 2, 0, 1, TRUE)}
=============================================================================
