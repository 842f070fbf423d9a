----------------------------- MODULE Supervisor -----------------------------
(***************************************************************************)
(* The command-line program: cmd/olcrtc/main.go runs the supervisor        *)
(* (internal/supervisor) until it returns or a signal arrives; the         *)
(* supervisor runs the profiles of the configuration in turn; a profile is *)
(* a session (internal/app/session/run.go) that may be rotated, that is    *)
(* ended and started again, when it reaches its maximal duration.          *)
(***************************************************************************)
EXTENDS ClientRuns

VARIABLES
    sup,    \* where supervisor.Run is, and its Status
    cyc,    \* runSessionCycle: its run, and whether the timer has fired
    main    \* where runManaged is, and whether its context is cancelled

cliVars == <<sup, cyc, main>>
Profiles == 1..scene.profiles
Zeros == [i \in Profiles |-> 0]

InitCli ==
    /\ sup = [pc |-> "next", cycle |-> 1, i |-> 1, err |-> "none", result |-> "none",
              active |-> 0, starts |-> Zeros, failures |-> Zeros, cleanEnds |-> Zeros,
              history |-> <<>>]
    /\ cyc = [pc |-> "none", k |-> 0, rotated |-> FALSE]
    /\ main = [pc |-> "managed", cancelled |-> FALSE]

Alive == kind = "cli" /\ main.pc # "exited"

-----------------------------------------------------------------------------
\* runSessionCycle, its beginning: session.Run has registered the defaults.
\* A run's record is dropped when its result has been read.
LaunchCycle ==
    /\ Len(runs) < scene.runs
    /\ runs' = Append(runs, NewRun("current", "registered", main.cancelled))
    /\ cyc' = [pc |-> "run", k |-> Len(runs) + 1, rotated |-> FALSE]

\* The timer of the maximal duration; it may fire as the run returns.
MaxDuration ==
    /\ Alive /\ scene.rotates
    /\ cyc.pc = "run" /\ ~cyc.rotated
    /\ cyc' = [cyc EXCEPT !.rotated = TRUE]
    /\ runs' = [runs EXCEPT ![cyc.k].cancelled = TRUE]
    /\ UNCHANGED <<scene, registered, sup, main>>

Collected == [NewRun("current", "returned", TRUE) EXCEPT !.result = "nil"]

\* session.Run hands its result to whoever called it.
SessionReturns(err) ==
    /\ sup' = [sup EXCEPT !.pc = "ended", !.err = err]
    /\ cyc' = [cyc EXCEPT !.pc = "none"]

\* The run has returned: runSessionCycle's end and what runWithSessionRotation
\* makes of it.
CycleEnd ==
    /\ Alive /\ cyc.pc = "run" /\ ~Active(cyc.k)
    /\ LET err == runs[cyc.k].result IN
       \/ /\ ~scene.rotates
          /\ SessionReturns(err)
       \/ /\ scene.rotates /\ main.cancelled
          /\ SessionReturns("nil")
       \/ /\ scene.rotates /\ ~main.cancelled /\ err # "nil" /\ ~cyc.rotated
          /\ SessionReturns(err)
       \/ /\ scene.rotates /\ ~main.cancelled /\ (err = "nil" \/ cyc.rotated)
          /\ cyc' = [cyc EXCEPT !.pc = "delay"] /\ sup' = sup
    /\ runs' = [runs EXCEPT ![cyc.k] = Collected]
    /\ UNCHANGED <<scene, registered, main>>

\* waitSessionRestart: the delay elapses, or the context is over first.
RestartDelay ==
    /\ Alive /\ cyc.pc = "delay"
    /\ \/ LaunchCycle /\ sup' = sup
       \/ main.cancelled /\ SessionReturns("nil") /\ runs' = runs
    /\ UNCHANGED <<scene, registered, main>>

-----------------------------------------------------------------------------
\* appendHistory keeps the last historyLimit events.
AppendHistory(h, event) ==
    LET longer == Append(h, event) IN
    IF Len(longer) > scene.historyLimit
    THEN SubSeq(longer, Len(longer) - scene.historyLimit + 1, Len(longer)) ELSE longer

\* statusTracker.start and end.
TrackStart(i) ==
    [sup EXCEPT !.pc = "running", !.active = i, !.starts[i] = @ + 1,
                !.history = AppendHistory(@, <<"start", i, sup.cycle>>)]
TrackEnd(i) ==
    [sup EXCEPT !.active = 0,
                !.failures[i] = IF sup.err # "nil" THEN @ + 1 ELSE @,
                !.cleanEnds[i] = IF sup.err = "nil" THEN @ + 1 ELSE @,
                !.history = AppendHistory(@, <<"end", i, sup.cycle>>)]

\* runProfile up to the call of the session; without profiles main calls
\* session.Run itself.
RunProfile ==
    /\ Alive /\ sup.pc = "next" /\ (scene.failover => ~main.cancelled)
    /\ LaunchCycle
    /\ sup' = IF scene.failover THEN TrackStart(sup.i) ELSE [sup EXCEPT !.pc = "running"]
    /\ UNCHANGED <<scene, registered, main>>

\* The context is over: runProfile, runCycle and Run return nil.
RunStops ==
    /\ Alive /\ sup.pc = "next" /\ scene.failover /\ main.cancelled
    /\ sup' = [sup EXCEPT !.pc = "returned", !.result = "nil"]
    /\ UNCHANGED <<scene, runs, registered, cyc, main>>

\* Mutant: MaxCycles is checked after every profile.
MutLastAttempt == scene.maxCycles > 0 /\ sup.cycle >= scene.maxCycles

LastAttempt == scene.maxCycles > 0 /\ sup.cycle >= scene.maxCycles /\ sup.i = scene.profiles

\* runProfile after the session: a cancelled context leaves the status alone.
ProfileEnds ==
    /\ Alive /\ sup.pc = "ended"
    /\ sup' = CASE ~scene.failover -> [sup EXCEPT !.pc = "returned", !.result = sup.err]
                [] scene.failover /\ main.cancelled ->
                     [sup EXCEPT !.pc = "returned", !.result = "nil"]
                [] scene.failover /\ ~main.cancelled ->
                     IF LastAttempt
                     THEN [TrackEnd(sup.i) EXCEPT !.pc = "returned", !.result = "maxCycles"]
                     ELSE [TrackEnd(sup.i) EXCEPT !.pc = "delay"]
    /\ UNCHANGED <<scene, runs, registered, cyc, main>>

\* waitRetryDelay, then the next profile or the next cycle.
RetryDelay ==
    /\ Alive /\ sup.pc = "delay"
    /\ sup' = IF sup.i < scene.profiles
              THEN [sup EXCEPT !.pc = "next", !.i = @ + 1]
              ELSE [sup EXCEPT !.pc = "next", !.i = 1, !.cycle = @ + 1]
    /\ UNCHANGED <<scene, runs, registered, cyc, main>>

-----------------------------------------------------------------------------
\* runManaged: a signal cancels the context, and every run's with it.
Signal ==
    /\ Alive /\ main.pc = "managed"
    /\ main' = [pc |-> "grace", cancelled |-> TRUE]
    /\ runs' = [k \in DOMAIN runs |-> [runs[k] EXCEPT !.cancelled = TRUE]]
    /\ UNCHANGED <<scene, registered, sup, cyc>>

\* The result arrives, before a signal or within the grace period.
MainReturns ==
    /\ Alive /\ sup.pc = "returned"
    /\ main' = [main EXCEPT !.pc = "exited"]
    /\ UNCHANGED <<scene, runs, registered, sup, cyc>>

\* waitForShutdown gives up: the process exits with whatever still runs.
GraceOver ==
    /\ Alive /\ main.pc = "grace"
    /\ main' = [main EXCEPT !.pc = "exited"]
    /\ UNCHANGED <<scene, runs, registered, sup, cyc>>

SupervisorStep == RunProfile \/ RunStops \/ ProfileEnds \/ RetryDelay
SessionStep == CycleEnd \/ RestartDelay
CliStep == SupervisorStep \/ SessionStep \/ MaxDuration \/ Signal \/ MainReturns \/ GraceOver
=============================================================================
