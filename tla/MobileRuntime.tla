---------------------------- MODULE MobileRuntime ---------------------------
(***************************************************************************)
(* mobile/runtime.go, config.go and probe.go: a Runtime runs one client    *)
(* generation at a time.  Several threads of the application call it; each *)
(* call is a sequence of steps, one per critical section of r.mu or wait.  *)
(***************************************************************************)
EXTENDS ClientRuns

CONSTANT Threads    \* threads of the application

VARIABLES
    rts,        \* the Runtime objects: state, current generation, settings present
    gens,       \* the runGeneration of each run; rt = 0 for the run of a Check
    call,       \* the call each thread is in, or the last one it made
    calls       \* calls made so far

runtimeVars == <<rts, gens, call, calls>>

\* The settings without a default; the others never keep Start from working.
Required == {"provider", "room", "key"}

NewRuntime == [state |-> "idle", current |-> 0, set |-> {}]
NewGeneration(r) ==
    [rt |-> r, stopRequested |-> FALSE, err |-> "none", ready |-> FALSE,
     finished |-> FALSE, done |-> FALSE]

NoCall == [op |-> "none", pc |-> "returned", rt |-> 0, gen |-> 0, mode |-> "none",
           res |-> "none", stale |-> FALSE, before |-> 0, inst |-> 0]

At(t, pc) == call[t].pc = pc

\* What is remembered of a call that has returned: a success of the ready
\* and stop calls, the client of a Check, the Runtime a probe started.
Waits == {"WaitReady", "WaitOlcrtcReady"}
Stops == {"Stop", "StopOlcrtc"}
Memory(c, res) ==
    CASE c.op \in Waits /\ res = "nil" -> [NoCall EXCEPT !.op = c.op, !.stale = c.stale]
      [] c.op \in Stops /\ res = "nil" -> [NoCall EXCEPT !.op = c.op, !.before = c.before]
      [] c.op = "Check" -> [NoCall EXCEPT !.op = c.op, !.gen = c.gen]
      [] c.op = "StartProfileProbeOlcrtc" -> [NoCall EXCEPT !.op = c.op, !.rt = c.rt]
      [] OTHER -> NoCall

Return(t, res) == call' = [call EXCEPT ![t] = Memory(@, res)]
Goto(t, pc) == call' = [call EXCEPT ![t].pc = pc]

\* A thread enters a method.  History: how many runs there were by then.
Enter(t, op, pc, mode) ==
    /\ At(t, "returned") /\ calls < scene.calls
    /\ op \in scene.ops
    /\ calls' = calls + 1
    /\ call' = [call EXCEPT ![t] =
                  [NoCall EXCEPT !.op = op, !.pc = pc, !.mode = mode,
                                 !.rt = IF kind = "runtime" THEN 1 ELSE 0,
                                 !.before = IF op \in Stops THEN Len(runs) ELSE 0]]
    /\ UNCHANGED <<scene, runs, registered, rts, gens>>

EnterRuntime(t) ==
    /\ kind = "runtime"
    /\ \E method \in {<<"Set", "set">>, <<"Start", "start">>, <<"WaitReady", "wait">>,
                      <<"Stop", "stop">>, <<"Check", "probe">>} :
         Enter(t, method[1], method[2], "current")

-----------------------------------------------------------------------------
\* A setter refuses an invalid value and leaves the field as it was; a field
\* with a default never keeps Start from working, whatever its setter does.
Set(t) ==
    /\ At(t, "set")
    /\ \/ \E name \in Required :
            /\ rts' = [rts EXCEPT ![call[t].rt].set = @ \cup {name}]
            /\ Return(t, "nil")
       \/ rts' = rts /\ \E res \in {"nil", "invalid"} : Return(t, res)
    /\ UNCHANGED <<scene, runs, registered, gens, calls>>

validateRuntimeConfig(r) == Required \subseteq rts[r].set

\* Mutant: a runtime that is stopping counts as inactive.
MutIsActive(r) == rts[r].state \in {"starting", "running"}

isActiveLocked(r) == rts[r].state \in {"starting", "running", "stopping"}
isCurrentGenerationLocked(k) == rts[gens[k].rt].current = k

\* Start's effect: a new generation from a snapshot of the settings.
Launch(r, mode) ==
    /\ runs' = Append(runs, NewRun(mode, "launched", FALSE))
    /\ gens' = Append(gens, NewGeneration(r))

Start(t) ==
    /\ At(t, "start") /\ kind = "runtime"
    /\ LET r == call[t].rt IN
       IF isActiveLocked(r) \/ ~validateRuntimeConfig(r)
       THEN Return(t, "refused") /\ UNCHANGED <<runs, gens, rts>>
       ELSE /\ Launch(r, call[t].mode)
            /\ rts' = [rts EXCEPT ![r].state = "starting", ![r].current = Len(runs) + 1]
            /\ Return(t, "nil")
    /\ UNCHANGED <<scene, registered, calls>>

\* markReady, called by the run: ignored unless the generation is current
\* and still starting.
MarkReady(k) ==
    /\ RunReady(k)
    /\ LET r == gens[k].rt IN
       IF r # 0 /\ rts[r].state = "starting" /\ isCurrentGenerationLocked(k)
       THEN /\ rts' = [rts EXCEPT ![r].state = "running"]
            /\ gens' = [gens EXCEPT ![k].ready = TRUE]
       ELSE UNCHANGED <<rts, gens>>
    /\ UNCHANGED <<scene, call, calls>>

\* finish, up to the unlock; done is closed afterwards.
Finish(k) ==
    /\ ~Active(k) /\ gens[k].rt # 0 /\ ~gens[k].finished
    /\ runs' = [runs EXCEPT ![k].cancelled = TRUE]
    /\ LET stopped == gens[k].stopRequested /\ runs[k].result = "canceled" IN
       gens' = [gens EXCEPT ![k].finished = TRUE,
                            ![k].err = IF stopped THEN "nil" ELSE runs[k].result]
    /\ rts' = IF isCurrentGenerationLocked(k)
              THEN [rts EXCEPT ![gens[k].rt].state = "stopped"] ELSE rts
    /\ UNCHANGED <<scene, registered, call, calls>>

CloseDone(k) ==
    /\ gens[k].finished /\ ~gens[k].done
    /\ gens' = [gens EXCEPT ![k].done = TRUE]
    /\ UNCHANGED <<scene, runs, registered, rts, call, calls>>

-----------------------------------------------------------------------------
\* WaitReady captures the current generation.  History: was it over by then?
WaitReady(t) ==
    /\ At(t, "wait")
    /\ LET k == rts[call[t].rt].current IN
       IF k = 0 THEN Return(t, "notRunning")
       ELSE call' = [call EXCEPT ![t].pc = "waitCheck", ![t].gen = k,
                                 ![t].stale = gens[k].done]
    /\ UNCHANGED <<scene, runs, registered, rts, gens, calls>>

generationError(k) ==
    IF gens[k].err # "nil" THEN gens[k].err
    ELSE IF gens[k].ready THEN "notRunning" ELSE "stoppedBeforeReady"

\* Mutant: the ready latch is looked at first.
MutWaitCheck(t) ==
    /\ At(t, "waitCheck")
    /\ LET k == call[t].gen IN
       IF gens[k].ready THEN Return(t, "nil")
       ELSE IF gens[k].done THEN Return(t, generationError(k))
       ELSE Goto(t, "waitSelect")
    /\ UNCHANGED <<scene, runs, registered, rts, gens, calls>>

\* waitGenerationReady before it sleeps: done first, then ready.
WaitCheck(t) ==
    /\ At(t, "waitCheck")
    /\ LET k == call[t].gen IN
       IF gens[k].done THEN Return(t, generationError(k))
       ELSE IF gens[k].ready THEN Return(t, "nil")
       ELSE Goto(t, "waitSelect")
    /\ UNCHANGED <<scene, runs, registered, rts, gens, calls>>

\* Its select: ready and done may both be closed, and either wins.
WaitSelect(t) ==
    /\ At(t, "waitSelect")
    /\ LET k == call[t].gen IN
       \/ gens[k].ready /\ Return(t, "nil")
       \/ gens[k].done /\ Return(t, generationError(k))
       \/ Return(t, "timeout")
    /\ UNCHANGED <<scene, runs, registered, rts, gens, calls>>

\* Where a call goes after Stop: mobilecore's callers have more to do.
AfterStop(t, res) ==
    CASE call[t].op = "StopAll" -> Goto(t, "takeXray")
      [] call[t].op = "StopProfileProbe" -> Goto(t, "closeProbe")
      [] OTHER -> Return(t, res)

\* Mutant: only a generation that is ready is cancelled.
MutCancelledBy(k) == rts[gens[k].rt].state = "running"

\* Stop cancels the generation's context once.
CancelledBy(k) == rts[gens[k].rt].state # "stopping"

\* Mutant: a second Stop does not wait for the first one's generation.
MutStop(t) ==
    /\ At(t, "stop")
    /\ LET r == call[t].rt
           k == rts[r].current IN
       IF rts[r].state \in {"idle", "stopped", "stopping"} \/ k = 0
       THEN AfterStop(t, "nil") /\ UNCHANGED <<rts, gens, runs>>
       ELSE /\ call' = [call EXCEPT ![t].pc = "stopWait", ![t].gen = k]
            /\ rts' = [rts EXCEPT ![r].state = "stopping"]
            /\ gens' = [gens EXCEPT ![k].stopRequested = TRUE]
            /\ runs' = [runs EXCEPT ![k].cancelled = @ \/ CancelledBy(k)]
    /\ UNCHANGED <<scene, registered, calls>>

Stop(t) ==
    /\ At(t, "stop")
    /\ LET r == call[t].rt
           k == rts[r].current IN
       IF rts[r].state \in {"idle", "stopped"} \/ k = 0
       THEN AfterStop(t, "nil") /\ UNCHANGED <<rts, gens, runs>>
       ELSE /\ call' = [call EXCEPT ![t].pc = "stopWait", ![t].gen = k]
            /\ rts' = [rts EXCEPT ![r].state = "stopping"]
            /\ gens' = [gens EXCEPT ![k].stopRequested = TRUE]
            /\ runs' = [runs EXCEPT ![k].cancelled = @ \/ CancelledBy(k)]
    /\ UNCHANGED <<scene, registered, calls>>

StopWait(t) ==
    /\ At(t, "stopWait")
    /\ \/ gens[call[t].gen].done /\ AfterStop(t, "nil")
       \/ AfterStop(t, "timeout")
    /\ UNCHANGED <<scene, runs, registered, rts, gens, calls>>

-----------------------------------------------------------------------------
\* Check and Ping: an isolated client with a context of its own.
ProbeStart(t) ==
    /\ At(t, "probe")
    /\ \/ /\ Launch(0, "current")
          /\ call' = [call EXCEPT ![t].pc = "probeSelect", ![t].gen = Len(runs) + 1]
       \/ Return(t, "invalid") /\ UNCHANGED <<runs, gens>>     \* probeConfig refuses
    /\ UNCHANGED <<scene, registered, rts, calls>>

\* runProbe's select.  The deferred cancel runs on every return.
Cancelled(k) == runs' = [runs EXCEPT ![k].cancelled = TRUE]

ProbeSelect(t) ==
    /\ At(t, "probeSelect")
    /\ LET k == call[t].gen IN
       \/ /\ runs[k].ready /\ runs' = runs
          /\ Goto(t, "probeAction")
       \/ /\ ~Active(k) /\ ~runs[k].ready
          /\ Cancelled(k)
          /\ Return(t, IF runs[k].result = "nil" THEN "stoppedBeforeReady" ELSE runs[k].result)
       \/ Cancelled(k) /\ call' = [call EXCEPT ![t].pc = "probeWait", ![t].res = "timeout"]
    /\ UNCHANGED <<scene, registered, rts, gens, calls>>

\* finishProbe: Check only reads the clock, Ping's request may fail.
ProbeAction(t) ==
    /\ At(t, "probeAction")
    /\ Cancelled(call[t].gen)
    /\ \E res \in {"latency", "error"} :
         call' = [call EXCEPT ![t].pc = "probeWait", ![t].res = res]
    /\ UNCHANGED <<scene, registered, rts, gens, calls>>

\* waitProbeDone: until the client returns, but two seconds at most.
ProbeWait(t) ==
    /\ At(t, "probeWait")
    /\ Return(t, call[t].res)
    /\ UNCHANGED <<scene, runs, registered, rts, gens, calls>>

CallStep(t) ==
    \/ EnterRuntime(t) \/ Set(t) \/ Start(t)
    \/ WaitReady(t) \/ WaitCheck(t) \/ WaitSelect(t)
    \/ Stop(t) \/ StopWait(t)
    \/ ProbeStart(t) \/ ProbeSelect(t) \/ ProbeAction(t) \/ ProbeWait(t)
=============================================================================
