---------------------------- MODULE RunLifecycle ----------------------------
(***************************************************************************)
(* The owners of client runs side by side: a behaviour is that of one      *)
(* Runtime used directly ("runtime"), of the Android core ("app") or of    *)
(* the command-line program ("cli").                                       *)
(***************************************************************************)
EXTENDS MobileCore, Supervisor, FiniteSetsExt

ASSUME RunLifecycleAssumption ==
    /\ Threads \subseteq Nat \ {NoThread}
    /\ \A sc \in Scenes :
         /\ sc.kind \in {"runtime", "app", "cli"}
         /\ {sc.calls, sc.profiles, sc.maxCycles, sc.historyLimit, sc.runs} \subseteq Nat
         /\ sc.modes \subseteq Modes \cup {"unknown"}
         /\ {sc.failover, sc.rotates} \subseteq BOOLEAN
         /\ sc.failover => sc.profiles > 0

vars == <<scene, runs, registered, runtimeVars, coreVars, cliVars>>

Init ==
    /\ scene \in Scenes
    /\ runs = <<>> /\ registered = "current"
    /\ \E missing \in {{}, IF "Set" \in scene.ops THEN {"key"} ELSE {}} :      \* what the setters have left out
         rts = IF kind = "runtime" THEN <<[NewRuntime EXCEPT !.set = Required \ missing]>>
               ELSE <<>>
    /\ gens = <<>> /\ calls = 0
    /\ call = [t \in Threads |-> NoCall]
    /\ InitCore /\ InitCli

\* What a run does by itself; the process may be gone.
Running == kind = "cli" => Alive
RunSteps(k) ==
    /\ Running
    /\ RunRegisters(k) \/ RunOpens(k) \/ RunReturns(k) \/ (kind = "cli" /\ RunReady(k))
    /\ UNCHANGED <<scene, runtimeVars, coreVars, cliVars>>

GenerationSteps(k) ==
    /\ kind # "cli"
    /\ MarkReady(k) \/ Finish(k) \/ CloseDone(k)
    /\ UNCHANGED <<coreVars, cliVars>>

ThreadSteps(t) ==
    /\ kind # "cli"
    /\ (CallStep(t) /\ UNCHANGED core) \/ CoreStep(t)
    /\ UNCHANGED cliVars

CliSteps == CliStep /\ UNCHANGED <<runtimeVars, coreVars>>

Next ==
    \/ \E k \in DOMAIN runs : RunSteps(k) \/ GenerationSteps(k)
    \/ \E t \in Threads : ThreadSteps(t)
    \/ CliSteps

\* A cancelled run returns (its waits are bounded and its shutdown is), and
\* the goroutines of the owners are scheduled.  No timer is relied on, and
\* neither is a call of the application or a signal.
RunSet == 1..Max({sc.runs : sc \in Scenes})
CancelledReturns(k) ==
    /\ k \in DOMAIN runs /\ runs[k].cancelled
    /\ RunReturns(k) /\ Running
    /\ UNCHANGED <<scene, runtimeVars, coreVars, cliVars>>
Finishes(k) ==
    /\ k \in DOMAIN runs /\ kind # "cli"
    /\ Finish(k) \/ CloseDone(k)
    /\ UNCHANGED <<coreVars, cliVars>>

Fairness ==
    /\ \A k \in RunSet : WF_vars(CancelledReturns(k)) /\ WF_vars(Finishes(k))
    /\ WF_vars((SupervisorStep \/ SessionStep \/ MainReturns) /\ UNCHANGED <<runtimeVars, coreVars>>)

Spec == Init /\ [][Next]_vars /\ Fairness

-----------------------------------------------------------------------------
TypeOK ==
    /\ scene \in Scenes
    /\ registered \in Modes
    /\ \A k \in DOMAIN runs : runs[k] \in
         [mode : Modes, used : Modes \cup {"none"}, ready : BOOLEAN, cancelled : BOOLEAN,
          phase : {"launched", "registered", "open", "ready", "returned"},
          result : Results \cup {"none"}]
    /\ \A r \in DOMAIN rts :
         /\ rts[r].state \in {"idle", "starting", "running", "stopping", "stopped"}
         /\ rts[r].current \in 0..Len(runs)
    /\ kind # "cli" => DOMAIN gens = DOMAIN runs
    /\ core.open \subseteq 1..core.made /\ {core.xray, core.probe} \subseteq {0} \cup 1..core.made
    /\ {core.startMu, core.probeMu} \subseteq Threads \cup {NoThread}
    /\ sup.pc \in {"next", "running", "ended", "delay", "returned"}
    /\ cyc.pc \in {"none", "run", "delay"} /\ main.pc \in {"managed", "grace", "exited"}

\* Runs of an owner; the isolated clients of Check and Ping are not.
Owned == {k \in DOMAIN runs : kind = "cli" \/ gens[k].rt # 0}

\* Two tunnels never run at once: they would share the SOCKS port, the device
\* identity and the room.  It takes the state of a Runtime whose Stop timed
\* out, mobilecore's check of the Runtime it is about to replace, and the
\* sequential loops of the supervisor and of the rotation.  The variables keep
\* their types.
OneRunAtATime ==
    /\ TypeOK
    /\ \A j, k \in Owned : Active(j) /\ Active(k) => j = k

\* WaitReady never reports a generation ready that had exited when the call
\* began, although its ready channel stays closed for ever (runtime.go
\* waitGenerationReady).
ReadyIsFresh ==
    \A t \in Threads :
        At(t, "returned") /\ call[t].op \in Waits => ~call[t].stale

\* When a Stop has returned without a timeout, every run launched before it
\* was called has returned: also one that another thread is stopping, or one
\* of a Runtime that has been replaced since.  When Check or Ping has
\* returned, its client is cancelled at least.
StopIsFinal ==
    \A t \in Threads :
        /\ At(t, "returned") /\ call[t].op \in Stops
           => \A k \in Owned : k <= call[t].before => ~Active(k)
        /\ At(t, "returned") /\ call[t].op = "Check" /\ call[t].gen # 0
           => runs[call[t].gen].cancelled

\* The client of a profile probe can always be stopped: while it runs, and
\* nobody is about to change that under profileProbeMu, the mark that makes
\* StopProfileProbe stop it is set.  An Xray instance that runs is in its
\* variable or about to be closed.
Probes == {k \in Owned : \E t \in Threads :
             call[t].op = "StartProfileProbeOlcrtc" /\ call[t].rt = gens[k].rt}
ProbeIsStoppable ==
    /\ \A k \in Probes :
         Active(k) /\ ~runs[k].cancelled /\ core.probeMu = NoThread => core.probeOlcrtc
    /\ \A n \in core.open :
         n \in {core.xray, core.probe} \/ \E t \in Threads : call[t].inst = n /\ ~At(t, "returned")

\* Failover tries the profiles in turn: each has been started once per cycle,
\* its starts are accounted for in the status, the history is the last events,
\* and the supervisor gives up only when every profile had all its attempts.
Total(f) ==
    LET upTo[n \in 0 .. scene.profiles] == IF n = 0 THEN 0 ELSE upTo[n - 1] + f[n]
    IN  upTo[scene.profiles]
Events == Total([i \in Profiles |-> sup.starts[i] + sup.failures[i] + sup.cleanEnds[i]])
FailoverIsFair ==
    kind = "cli" /\ scene.failover =>
        /\ \A i \in Profiles :
             /\ sup.starts[i] = sup.failures[i] + sup.cleanEnds[i] + (IF sup.active = i THEN 1 ELSE 0)
             /\ sup.result # "nil" =>
                  sup.starts[i] = IF i < sup.i \/ (i = sup.i /\ sup.pc # "next")
                                  THEN sup.cycle ELSE sup.cycle - 1
        /\ Len(sup.history) = Min({scene.historyLimit, Events})
        /\ sup.history # <<>> =>
             (sup.history[Len(sup.history)][1] = "start") <=> (sup.active # 0)
        /\ sup.result = "maxCycles" => \A i \in Profiles : sup.starts[i] = scene.maxCycles

\* A tunnel that was asked to stop stops, although Stop itself may give up
\* waiting: the Runtime leaves "stopping" and can be started again.  After a
\* signal the program exits, whatever the supervisor and the rotation are
\* waiting for, without the help of the grace period.
Stopping == {r \in DOMAIN rts : rts[r].state = "stopping"}
StopsComplete ==
    /\ (Stopping # {}) ~> (Stopping = {})
    /\ (main.pc = "grace") ~> (main.pc = "exited")

\* The tunnel speaks the wire format StartOlcrtc was asked for
\* (mobilecore.go registerVP8Transport).
RunUsesItsMode ==
    \A k \in DOMAIN runs : runs[k].used \in {"none", runs[k].mode}
=============================================================================
