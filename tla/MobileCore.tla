----------------------------- MODULE MobileCore -----------------------------
(***************************************************************************)
(* native/mobilecore/mobilecore.go: the process-wide core the application  *)
(* calls from several threads.  It keeps one olcRTC Runtime, one Xray      *)
(* instance for the VPN and one for latency probes of profiles, behind     *)
(* four mutexes; olcrtcStartMu and profileProbeMu are held across calls.   *)
(***************************************************************************)
EXTENDS MobileRuntime

VARIABLE core   \* the package's variables, and the Xray instances that run

coreVars == <<core>>
NoThread == 0

InitCore == core = [olcrtcRuntime |-> 0, startMu |-> NoThread, probeMu |-> NoThread,
                    probeOlcrtc |-> FALSE, xray |-> 0, probe |-> 0,
                    open |-> {}, made |-> 0]

\* The slot of core an operation on an Xray instance is about.
Slot(op) == IF op \in {"StartProfileProbe", "ProfileProbeUrlTest", "StopProfileProbe"}
            THEN "probe" ELSE "xray"

EnterCore(t) ==
    /\ kind = "app"
    /\ \/ \E mode \in scene.modes :
            \/ Enter(t, "StartOlcrtc", "checkRunning", mode)
            \/ Enter(t, "StartProfileProbeOlcrtc", "probeLock", mode)
       \/ \E function \in {<<"StopOlcrtc", "capture">>, <<"StopAll", "capture">>,
                           <<"WaitOlcrtcReady", "capture">>,
                           <<"StopProfileProbe", "probeLock">>,
                           <<"StartXray", "startXray">>, <<"StartProfileProbe", "startXray">>,
                           <<"StopXray", "takeXray">>, <<"WaitXrayReady", "pollXray">>,
                           <<"UrlTest", "urlTest">>, <<"ProfileProbeUrlTest", "urlTest">>} :
            Enter(t, function[1], function[2], "none")
    /\ UNCHANGED core

-----------------------------------------------------------------------------
\* A call returns, and with it the mutexes it holds by defer.
Unlocked(t) ==
    [core EXCEPT !.startMu = IF @ = t THEN NoThread ELSE @,
                 !.probeMu = IF @ = t THEN NoThread ELSE @]
ReturnUnlocked(t, res) == Return(t, res) /\ core' = Unlocked(t)

\* Mutant: StopProfileProbe does not take profileProbeMu.
MutProbeLock(t) ==
    /\ At(t, "probeLock")
    /\ \/ /\ call[t].op = "StopProfileProbe"
          /\ Goto(t, "takeProbe") /\ core' = core
       \/ /\ call[t].op = "StartProfileProbeOlcrtc" /\ core.probeMu = NoThread
          /\ core' = [core EXCEPT !.probeMu = t]
          /\ Goto(t, "checkRunning")
    /\ UNCHANGED <<scene, runs, registered, rts, gens, calls>>

ProbeLock(t) ==
    /\ At(t, "probeLock") /\ core.probeMu = NoThread
    /\ core' = [core EXCEPT !.probeMu = t]
    /\ Goto(t, IF call[t].op = "StopProfileProbe" THEN "takeProbe" ELSE "checkRunning")
    /\ UNCHANGED <<scene, runs, registered, rts, gens, calls>>

\* StartOlcrtc, first section: a Runtime that is not running is replaced by
\* a fresh one before the fresh one is configured or started.
CheckRunning(t) ==
    /\ At(t, "checkRunning") /\ core.startMu = NoThread
    /\ IF core.olcrtcRuntime # 0 /\ isActiveLocked(core.olcrtcRuntime)
       THEN ReturnUnlocked(t, "alreadyRunning") /\ UNCHANGED <<rts, registered>>
       ELSE /\ rts' = Append(rts, NewRuntime)
            /\ registered' = "current"      \* newRuntime calls RegisterDefaults
            /\ core' = [core EXCEPT !.olcrtcRuntime = Len(rts) + 1, !.startMu = t]
            /\ call' = [call EXCEPT ![t].pc = "register", ![t].rt = Len(rts) + 1]
    /\ UNCHANGED <<scene, runs, gens, calls>>

RegisterVP8Transport(t) ==
    /\ At(t, "register")
    /\ IF call[t].mode \in Modes
       THEN registered' = call[t].mode /\ Goto(t, "configure") /\ core' = core
       ELSE ReturnUnlocked(t, "unsupported") /\ registered' = registered
    /\ UNCHANGED <<scene, runs, rts, gens, calls>>

\* The setters, then Start on the Runtime only this call has configured.
Configure(t) ==
    /\ At(t, "configure")
    /\ \/ ReturnUnlocked(t, "invalid") /\ UNCHANGED <<runs, gens, rts>>
       \/ LET r == call[t].rt IN
          /\ Launch(r, call[t].mode)
          /\ rts' = [rts EXCEPT ![r] = [state |-> "starting", current |-> Len(runs) + 1,
                                        set |-> Required]]
          /\ IF call[t].op = "StartOlcrtc" THEN ReturnUnlocked(t, "nil")
             ELSE core' = [core EXCEPT !.startMu = NoThread] /\ Goto(t, "flagProbe")
    /\ UNCHANGED <<scene, registered, calls>>

FlagProbe(t) ==
    /\ At(t, "flagProbe")
    /\ core' = [Unlocked(t) EXCEPT !.probeOlcrtc = TRUE]
    /\ Return(t, "nil")
    /\ UNCHANGED <<scene, runs, registered, rts, gens, calls>>

\* StopOlcrtc and WaitOlcrtcReady read the variable, unlock, and use it.
Capture(t) ==
    /\ At(t, "capture")
    /\ LET r == core.olcrtcRuntime
           waits == call[t].op = "WaitOlcrtcReady" IN
       IF r = 0 THEN IF waits THEN Return(t, "notRunning") ELSE AfterStop(t, "nil")
       ELSE call' = [call EXCEPT ![t].rt = r, ![t].pc = IF waits THEN "wait" ELSE "stop"]
    /\ UNCHANGED <<scene, runs, registered, rts, gens, calls, core>>

\* StopProfileProbe takes the instance and the mark, then stops what they name.
TakeProbe(t) ==
    /\ At(t, "takeProbe")
    /\ core' = [core EXCEPT !.probe = 0, !.probeOlcrtc = FALSE]
    /\ call' = [call EXCEPT ![t].inst = core.probe,
                            ![t].pc = IF core.probeOlcrtc THEN "capture" ELSE "closeProbe"]
    /\ UNCHANGED <<scene, runs, registered, rts, gens, calls>>

CloseProbe(t) ==
    /\ At(t, "closeProbe")
    /\ core' = [Unlocked(t) EXCEPT !.open = @ \ {call[t].inst}]
    /\ Return(t, "nil")
    /\ UNCHANGED <<scene, runs, registered, rts, gens, calls>>

-----------------------------------------------------------------------------
\* A new instance, or none: one that does not start is closed again.
newXrayInstance == {core.made + 1, 0}

\* StartXray and StartProfileProbe hold mu throughout.
StartInstance(t) ==
    /\ At(t, "startXray")
    /\ LET slot == Slot(call[t].op) IN
       IF core[slot] # 0 THEN Return(t, "alreadyRunning") /\ core' = core
       ELSE \E n \in newXrayInstance :
              IF n = 0 THEN Return(t, "invalid") /\ core' = core
              ELSE /\ core' = [core EXCEPT ![slot] = n, !.made = n, !.open = @ \cup {n}]
                   /\ Return(t, "nil")
    /\ UNCHANGED <<scene, runs, registered, rts, gens, calls>>

\* StopXray takes the instance under mu and closes it outside.
TakeXray(t) ==
    /\ At(t, "takeXray")
    /\ core' = [core EXCEPT !.xray = 0]
    /\ IF core.xray = 0 THEN Return(t, "nil")
       ELSE call' = [call EXCEPT ![t].pc = "closeXray", ![t].inst = core.xray]
    /\ UNCHANGED <<scene, runs, registered, rts, gens, calls>>

CloseXray(t) ==
    /\ At(t, "closeXray")
    /\ core' = [core EXCEPT !.open = @ \ {call[t].inst}]
    /\ Return(t, "nil")
    /\ UNCHANGED <<scene, runs, registered, rts, gens, calls>>

\* WaitXrayReady polls: a dial to the SOCKS port answers, or the deadline passes.
PollXray(t) ==
    /\ At(t, "pollXray")
    /\ \/ core.xray = 0 /\ Return(t, "notRunning")
       \/ core.xray # 0 /\ \E res \in {"nil", "timeout"} : Return(t, res)
    /\ UNCHANGED <<scene, runs, registered, rts, gens, calls, core>>

\* The URL tests capture the instance and dial through it, closed or not.
UrlTest(t) ==
    /\ At(t, "urlTest")
    /\ LET instance == core[Slot(call[t].op)] IN
       IF instance = 0 THEN Return(t, "notRunning")
       ELSE call' = [call EXCEPT ![t].pc = "dial", ![t].inst = instance]
    /\ UNCHANGED <<scene, runs, registered, rts, gens, calls, core>>

RunUrlTest(t) ==
    /\ At(t, "dial")
    /\ \E res \in {"error"} \cup (IF call[t].inst \in core.open THEN {"latency"} ELSE {}) :
         Return(t, res)
    /\ UNCHANGED <<scene, runs, registered, rts, gens, calls, core>>

CoreStep(t) ==
    \/ EnterCore(t) \/ ProbeLock(t) \/ CheckRunning(t) \/ RegisterVP8Transport(t)
    \/ Configure(t) \/ FlagProbe(t) \/ Capture(t) \/ TakeProbe(t) \/ CloseProbe(t)
    \/ StartInstance(t) \/ TakeXray(t) \/ CloseXray(t) \/ PollXray(t)
    \/ UrlTest(t) \/ RunUrlTest(t)
=============================================================================
