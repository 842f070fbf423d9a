--------------------------- MODULE MCRunLifecycle ---------------------------
EXTENDS RunLifecycle

\* Methods of one Runtime, or functions of the core, called n times.
Calls(k, operations, n, asked) ==
    [kind |-> k, ops |-> operations, calls |-> n, runs |-> n, modes |-> asked,
     profiles |-> 0, maxCycles |-> 0, historyLimit |-> 0, failover |-> FALSE, rotates |-> FALSE]

\* The program with p profiles, c cycles at most and n runs.
Program(p, c, n, isFailover, isRotated) ==
    [kind |-> "cli", ops |-> {}, calls |-> 0, modes |-> {}, runs |-> n, profiles |-> p,
     maxCycles |-> c, historyLimit |-> 3, failover |-> isFailover, rotates |-> isRotated]

MCScenes ==
    {Calls("runtime", {"Start", "WaitReady", "Stop"}, 4, {}),
     Calls("runtime", {"Set", "Start", "Check"}, 3, {}),
     Calls("app", {"StartOlcrtc", "StopOlcrtc", "WaitOlcrtcReady",
                   "StartProfileProbeOlcrtc", "StopProfileProbe"}, 3, {"legacy"}),
     Calls("app", {"StartOlcrtc", "StopAll", "StartXray", "StopXray", "WaitXrayReady", "UrlTest",
                   "StartProfileProbe", "ProfileProbeUrlTest", "StopProfileProbe"}, 3,
           Modes \cup {"unknown"}),
     Program(2, 2, 6, TRUE, TRUE), Program(3, 0, 5, TRUE, FALSE), Program(0, 0, 3, FALSE, TRUE)}

\* One StartOlcrtc that asks for the legacy wire format.
MCLegacy == {Calls("app", {"StartOlcrtc"}, 1, {"legacy"})}
=============================================================================
