------------------------- MODULE RunLifecycleProofs -------------------------
(***************************************************************************)
(* Proofs about the owners of client runs: a Runtime, the Android core and *)
(* the command-line program.                                               *)
(***************************************************************************)
EXTENDS RunLifecycle, SequenceTheorems, WellFoundedInduction, TLAPS

\* The types of the variables.
RunType ==
    [mode : Modes, used : Modes \cup {"none"}, ready : BOOLEAN, cancelled : BOOLEAN,
     phase : {"launched", "registered", "open", "ready", "returned"},
     result : Results \cup {"none"}]
GenType ==
    [rt : Nat, stopRequested : BOOLEAN, err : Results \cup {"none"}, ready : BOOLEAN,
     finished : BOOLEAN, done : BOOLEAN]
RtType ==
    [state : {"idle", "starting", "running", "stopping", "stopped"}, current : Nat,
     set : SUBSET Required]

\* Where a call of each operation may be; "none" is a call nothing is remembered of.
RuntimePoints ==
    {<<"Set", "set">>, <<"Start", "start">>}
    \cup ({"WaitReady"} \X {"wait", "waitCheck", "waitSelect", "returned"})
    \cup ({"Stop"} \X {"stop", "stopWait", "returned"})
    \cup ({"Check"} \X {"probe", "probeSelect", "probeAction", "probeWait", "returned"})
CorePoints ==
    ({"StartOlcrtc"} \X {"checkRunning", "register", "configure"})
    \cup ({"StartProfileProbeOlcrtc"}
            \X {"probeLock", "checkRunning", "register", "configure", "flagProbe", "returned"})
    \cup ({"StopOlcrtc"} \X {"capture", "stop", "stopWait", "returned"})
    \cup ({"WaitOlcrtcReady"} \X {"capture", "wait", "waitCheck", "waitSelect", "returned"})
    \cup ({"StopAll"} \X {"capture", "stop", "stopWait", "takeXray", "closeXray"})
    \cup ({"StopXray"} \X {"takeXray", "closeXray"})
    \cup ({"StopProfileProbe"}
            \X {"probeLock", "takeProbe", "capture", "stop", "stopWait", "closeProbe"})
    \cup {<<"StartXray", "startXray">>, <<"StartProfileProbe", "startXray">>,
          <<"WaitXrayReady", "pollXray">>,
          <<"UrlTest", "urlTest">>, <<"ProfileProbeUrlTest", "urlTest">>,
          <<"UrlTest", "dial">>, <<"ProfileProbeUrlTest", "dial">>}
Points(owner) ==
    {<<"none", "returned">>}
    \cup (IF owner = "runtime" THEN RuntimePoints ELSE IF owner = "app" THEN CorePoints ELSE {})

Operations ==
    {"none", "Set", "Start", "WaitReady", "Stop", "Check", "StartOlcrtc", "StartProfileProbeOlcrtc",
     "StopOlcrtc", "WaitOlcrtcReady", "StopAll", "StopXray", "StopProfileProbe", "StartXray",
     "StartProfileProbe", "WaitXrayReady", "UrlTest", "ProfileProbeUrlTest"}
Places ==
    {"returned", "set", "start", "wait", "waitCheck", "waitSelect", "stop", "stopWait", "probe",
     "probeSelect", "probeAction", "probeWait", "probeLock", "checkRunning", "register", "configure",
     "flagProbe", "capture", "takeProbe", "closeProbe", "startXray", "takeXray", "closeXray",
     "pollXray", "urlTest", "dial"}
CallType ==
    [op : Operations, pc : Places, rt : Nat, gen : Nat, mode : Modes \cup {"unknown", "none"},
     res : {"none", "timeout", "latency", "error"}, stale : BOOLEAN, before : Nat, inst : Nat]
CoreType ==
    [olcrtcRuntime : Nat, startMu : Threads \cup {NoThread}, probeMu : Threads \cup {NoThread},
     probeOlcrtc : BOOLEAN, xray : Nat, probe : Nat, open : SUBSET Nat, made : Nat]
SupType ==
    [pc : {"next", "running", "ended", "delay", "returned"}, cycle : Nat, i : Nat,
     err : Results \cup {"none"}, result : Results \cup {"none", "maxCycles"}, active : Nat,
     starts : [Profiles -> Nat], failures : [Profiles -> Nat], cleanEnds : [Profiles -> Nat],
     history : Seq({"start", "end"} \X Nat \X Nat)]
CycType == [pc : {"none", "run", "delay"}, k : Nat, rotated : BOOLEAN]
MainType == [pc : {"managed", "grace", "exited"}, cancelled : BOOLEAN]

Shape ==
    /\ scene \in Scenes /\ registered \in Modes
    /\ runs \in Seq(RunType) /\ gens \in Seq(GenType) /\ rts \in Seq(RtType)
    /\ call \in [Threads -> CallType] /\ core \in CoreType
    /\ sup \in SupType /\ cyc \in CycType /\ main \in MainType

\* The program runs one session at a time, and nobody calls a Runtime.
CliInv ==
    kind = "cli" =>
        /\ InitCore /\ rts = <<>> /\ gens = <<>> /\ call = [t \in Threads |-> NoCall]
        /\ cyc.pc # "none" => sup.pc = "running"
        /\ cyc.pc = "run" => cyc.k \in DOMAIN runs
        /\ \A k \in DOMAIN runs : Active(k) => cyc.pc = "run" /\ k = cyc.k

\* A generation that has not finished is the current one of a Runtime that is
\* active, so a Runtime has at most one; Stop has cancelled what is stopping.
GenInv ==
    kind # "cli" =>
        /\ Len(gens) = Len(runs)
        /\ \A k \in DOMAIN runs :
             /\ gens[k].rt \in 0 .. Len(rts)
             /\ gens[k].finished => ~Active(k)
             /\ gens[k].done => gens[k].finished
             /\ gens[k].rt # 0 /\ ~gens[k].finished =>
                  rts[gens[k].rt].current = k /\ isActiveLocked(gens[k].rt)
        /\ \A r \in DOMAIN rts :
             /\ rts[r].current \in 0 .. Len(runs)
             /\ isActiveLocked(r) => rts[r].current # 0
             /\ rts[r].current # 0 => gens[rts[r].current].rt = r
             /\ rts[r].state = "stopping" => runs[rts[r].current].cancelled

\* What a call knows where it is: its Runtime and generation exist, a stale
\* answer can only be refused, and what Stop waits for is all that still runs
\* of what ran when it was called.
CallInv(t) ==
    LET c == call[t] IN
    /\ <<c.op, c.pc>> \in Points(kind)
    /\ c.rt \in 0 .. Len(rts) /\ c.gen \in 0 .. Len(runs) /\ c.before \in 0 .. Len(runs)
    /\ c.pc \in {"set", "start", "wait", "stop"} => c.rt # 0
    /\ c.pc \in {"waitCheck", "waitSelect", "stopWait", "probeSelect", "probeAction", "probeWait"}
         => c.gen # 0
    /\ c.pc \in {"start", "configure"} => c.mode \in Modes
    /\ c.stale => c.pc = "waitCheck" /\ gens[c.gen].done
    /\ c.op \in Stops =>
         \A k \in Owned : k <= c.before /\ Active(k) =>
            /\ c.pc = "stop" => gens[k].rt = c.rt
            /\ c.pc = "stopWait" => k = c.gen
            /\ c.pc # "returned"
    /\ c.op = "Check" =>
         /\ c.pc = "probe" => c.gen = 0
         /\ c.pc \in {"probeWait", "returned"} /\ c.gen # 0 => runs[c.gen].cancelled

\* A Runtime of its own, or the one the core has in its variable, is the only
\* one that can be active; the core configures it under olcrtcStartMu, and a
\* call that has to do with the probe's client holds profileProbeMu.
InProbe(t) ==
    \/ call[t].op = "StartProfileProbeOlcrtc" /\ call[t].pc \notin {"probeLock", "returned"}
    \/ call[t].op = "StopProfileProbe" /\ call[t].pc # "probeLock"
LockInv ==
    /\ kind = "runtime" => Len(rts) = 1
    /\ kind = "app" =>
         /\ core.olcrtcRuntime = Len(rts)
         /\ \A r \in DOMAIN rts : isActiveLocked(r) => r = core.olcrtcRuntime
    /\ \A t \in Threads :
         /\ call[t].pc \in {"register", "configure"} =>
              /\ core.startMu = t /\ call[t].rt = Len(rts)
              /\ Len(rts) # 0 /\ rts[Len(rts)].state = "idle"
              /\ \A u \in Threads \ {t} :
                    call[u].op = "StartProfileProbeOlcrtc" => call[u].rt # call[t].rt
         /\ InProbe(t) => core.probeMu = t

\* Somebody who holds profileProbeMu is about to set the mark, or to stop the client.
SeesTo(t, k) ==
    /\ core.probeMu = t
    /\ \/ call[t].pc = "flagProbe"
       \/ call[t].op = "StopProfileProbe" /\ call[t].pc = "capture"
       \/ call[t].op = "StopProfileProbe" /\ call[t].pc = "stop" /\ call[t].rt = gens[k].rt
ProbeInv ==
    \A k \in Probes :
        Active(k) /\ ~runs[k].cancelled => core.probeOlcrtc \/ \E t \in Threads : SeesTo(t, k)

\* A call that will close the Xray instance it has taken.
Closes(t, n) ==
    /\ call[t].inst = n
    /\ \/ call[t].pc = "closeXray"
       \/ call[t].op = "StopProfileProbe" /\ call[t].pc \in {"capture", "stop", "stopWait", "closeProbe"}
XrayInv ==
    /\ core.open \subseteq 1 .. core.made
    /\ core.xray \in 0 .. core.made /\ core.probe \in 0 .. core.made
    /\ \A n \in core.open : n \in {core.xray, core.probe} \/ \E t \in Threads : Closes(t, n)

Inv ==
    /\ Shape /\ CliInv /\ GenInv /\ (\A t \in Threads : CallInv(t))
    /\ LockInv /\ ProbeInv /\ XrayInv

-----------------------------------------------------------------------------
LEMMA Sizes ==
  ASSUME Shape
  PROVE  /\ Len(runs) \in Nat /\ DOMAIN runs = 1 .. Len(runs)
         /\ Len(gens) \in Nat /\ DOMAIN gens = 1 .. Len(gens)
         /\ Len(rts) \in Nat /\ DOMAIN rts = 1 .. Len(rts)
         /\ \A k \in DOMAIN runs : runs[k] \in RunType
         /\ \A k \in DOMAIN gens : gens[k] \in GenType
         /\ \A r \in DOMAIN rts : rts[r] \in RtType
<1>1. runs \in Seq(RunType) /\ gens \in Seq(GenType) /\ rts \in Seq(RtType)
  BY DEF Shape
<1> QED BY <1>1

\* A run, a generation or a Runtime is replaced by another.
LEMMA RunChanges ==
  ASSUME Shape, NEW k \in DOMAIN runs, NEW run \in RunType, runs' = [runs EXCEPT ![k] = run]
  PROVE  /\ runs' \in Seq(RunType) /\ Len(runs') = Len(runs) /\ runs'[k] = run
         /\ \A j \in DOMAIN runs : j # k => runs'[j] = runs[j]
  BY Sizes, ExceptSeq DEF Shape

LEMMA GenChanges ==
  ASSUME Shape, NEW k \in DOMAIN gens, NEW gen \in GenType, gens' = [gens EXCEPT ![k] = gen]
  PROVE  /\ gens' \in Seq(GenType) /\ Len(gens') = Len(gens) /\ gens'[k] = gen
         /\ \A j \in DOMAIN gens : j # k => gens'[j] = gens[j]
  BY Sizes, ExceptSeq DEF Shape

LEMMA RtChanges ==
  ASSUME Shape, NEW r \in DOMAIN rts, NEW rt \in RtType, rts' = [rts EXCEPT ![r] = rt]
  PROVE  /\ rts' \in Seq(RtType) /\ Len(rts') = Len(rts) /\ rts'[r] = rt
         /\ \A q \in DOMAIN rts : q # r => rts'[q] = rts[q]
  BY Sizes, ExceptSeq DEF Shape

\* A new one comes last.
LEMMA RunLaunched ==
  ASSUME Shape, NEW r \in Nat, NEW mode \in Modes, Launch(r, mode)
  PROVE  /\ runs' \in Seq(RunType) /\ Len(runs') = Len(runs) + 1
         /\ gens' \in Seq(GenType) /\ Len(gens') = Len(gens) + 1
         /\ runs'[Len(runs) + 1] = NewRun(mode, "launched", FALSE)
         /\ gens'[Len(gens) + 1] = NewGeneration(r)
         /\ \A j \in DOMAIN runs : runs'[j] = runs[j]
         /\ \A j \in DOMAIN gens : gens'[j] = gens[j]
<1>1. NewRun(mode, "launched", FALSE) \in RunType /\ NewGeneration(r) \in GenType
  BY DEF NewRun, NewGeneration, RunType, GenType, Results
<1>2. runs' = Append(runs, NewRun(mode, "launched", FALSE)) /\ gens' = Append(gens, NewGeneration(r))
  BY DEF Launch
<1>3. runs \in Seq(RunType) /\ gens \in Seq(GenType)
  BY DEF Shape
<1>4. /\ runs' \in Seq(RunType) /\ Len(runs') = Len(runs) + 1
      /\ runs'[Len(runs) + 1] = NewRun(mode, "launched", FALSE)
      /\ \A j \in DOMAIN runs : runs'[j] = runs[j]
  <2> DEFINE run == NewRun(mode, "launched", FALSE)
  <2>1. run \in RunType /\ runs' = Append(runs, run)
    BY <1>1, <1>2
  <2> HIDE DEF run
  <2>2. /\ runs' \in Seq(RunType) /\ Len(runs') = Len(runs) + 1 /\ runs'[Len(runs) + 1] = run
        /\ \A j \in DOMAIN runs : runs'[j] = runs[j]
    BY <1>3, <2>1, Sizes, AppendProperties
  <2> QED BY <2>2 DEF run
<1>5. /\ gens' \in Seq(GenType) /\ Len(gens') = Len(gens) + 1
      /\ gens'[Len(gens) + 1] = NewGeneration(r)
      /\ \A j \in DOMAIN gens : gens'[j] = gens[j]
  BY <1>1, <1>2, <1>3, Sizes, AppendProperties
<1> QED BY <1>4, <1>5

LEMMA RtMade ==
  ASSUME Shape, rts' = Append(rts, NewRuntime)
  PROVE  /\ rts' \in Seq(RtType) /\ Len(rts') = Len(rts) + 1
         /\ rts'[Len(rts) + 1] = NewRuntime
         /\ \A q \in DOMAIN rts : rts'[q] = rts[q]
<1>1. NewRuntime \in RtType
  BY DEF NewRuntime, RtType
<1> QED BY <1>1, Sizes, AppendProperties DEF Shape

\* Only the call of t changes.
Alone(t) == \A u \in Threads \ {t} : call'[u] = call[u]

LEMMA CallChanges ==
  ASSUME Shape, NEW t \in Threads, NEW c \in CallType, call' = [call EXCEPT ![t] = c]
  PROVE  call' \in [Threads -> CallType] /\ call'[t] = c /\ Alone(t)
  BY DEF Shape, Alone

LEMMA Goes ==
  ASSUME Shape, NEW t \in Threads, NEW p \in Places, Goto(t, p)
  PROVE  /\ call' \in [Threads -> CallType] /\ Alone(t)
         /\ call'[t].pc = p
         /\ call'[t].op = call[t].op /\ call'[t].rt = call[t].rt /\ call'[t].gen = call[t].gen
         /\ call'[t].mode = call[t].mode /\ call'[t].stale = call[t].stale
         /\ call'[t].before = call[t].before /\ call'[t].inst = call[t].inst
<1>1. call[t] \in CallType
  BY DEF Shape
<1>2. [call[t] EXCEPT !.pc = p] \in CallType
  BY <1>1 DEF CallType
<1>3. call' = [call EXCEPT ![t] = [call[t] EXCEPT !.pc = p]]
  BY DEF Goto, Shape
<1>4. call' \in [Threads -> CallType] /\ call'[t] = [call[t] EXCEPT !.pc = p] /\ Alone(t)
  BY <1>2, <1>3, CallChanges
<1> QED BY <1>1, <1>4 DEF CallType

LEMMA Returns ==
  ASSUME Shape, NEW t \in Threads, NEW res, Return(t, res)
  PROVE  /\ call' \in [Threads -> CallType] /\ Alone(t)
         /\ call'[t].pc = "returned" /\ call'[t].inst = 0
         /\ call'[t].op \in {"none", call[t].op}
         /\ call'[t].op \in {"none", "Check", "StartProfileProbeOlcrtc"} \cup Waits \cup Stops
         /\ call'[t].op \in Waits \cup Stops => res = "nil"
         /\ call'[t].stale => call[t].stale /\ call[t].op \in Waits /\ res = "nil"
         /\ call'[t].before \in {0, call[t].before}
         /\ call'[t].gen \in {0, call[t].gen} /\ call'[t].rt \in {0, call[t].rt}
<1>1. call[t] \in CallType
  BY DEF Shape
<1>2. Memory(call[t], res) \in CallType
  <2>1. NoCall \in CallType
    BY DEF NoCall, CallType, Operations, Places
  <2>2. [NoCall EXCEPT !.op = call[t].op, !.stale = call[t].stale] \in CallType
    BY <1>1, <2>1 DEF CallType
  <2>3. [NoCall EXCEPT !.op = call[t].op, !.before = call[t].before] \in CallType
    BY <1>1, <2>1 DEF CallType
  <2>4. [NoCall EXCEPT !.op = call[t].op, !.gen = call[t].gen] \in CallType
    BY <1>1, <2>1 DEF CallType
  <2>5. [NoCall EXCEPT !.op = call[t].op, !.rt = call[t].rt] \in CallType
    BY <1>1, <2>1 DEF CallType
  <2> QED BY <2>1, <2>2, <2>3, <2>4, <2>5 DEF Memory
<1>3. call' = [call EXCEPT ![t] = Memory(call[t], res)]
  BY DEF Return, Shape
<1>4. call' \in [Threads -> CallType] /\ call'[t] = Memory(call[t], res) /\ Alone(t)
  BY <1>2, <1>3, CallChanges
<1>5. ASSUME NEW c, c = Memory(call[t], res)
      PROVE  /\ c.pc = "returned" /\ c.inst = 0
             /\ c.op \in {"none", call[t].op}
             /\ c.op \in {"none", "Check", "StartProfileProbeOlcrtc"} \cup Waits \cup Stops
             /\ c.op \in Waits \cup Stops => res = "nil"
             /\ c.stale => call[t].stale /\ call[t].op \in Waits /\ res = "nil"
             /\ c.before \in {0, call[t].before}
             /\ c.gen \in {0, call[t].gen} /\ c.rt \in {0, call[t].rt}
  BY <1>1, <1>5 DEF CallType, Memory, NoCall, Waits, Stops
<1> QED BY <1>4, <1>5

-----------------------------------------------------------------------------
\* What every step leaves as it was, or lets happen in one direction only.
Later ==
    /\ UNCHANGED scene
    /\ Len(runs) <= Len(runs') /\ Len(rts) <= Len(rts')
    /\ \A k \in DOMAIN runs :
         /\ ~Active(k) => ~Active(k)'
         /\ runs[k].cancelled => runs'[k].cancelled
         /\ gens'[k].rt = gens[k].rt
         /\ gens[k].done => gens'[k].done

LEMMA SameKind == UNCHANGED scene => kind' = kind
  BY DEF kind

LEMMA OwnedLater ==
  ASSUME Shape, Shape', GenInv, Later, kind # "cli"
  PROVE  /\ \A k \in Owned' : k <= Len(runs) => k \in Owned
         /\ \A k \in Owned' : k <= Len(runs) /\ Active(k)' => Active(k)
<1>1. kind' = kind
  BY SameKind DEF Later
<1>2. ASSUME NEW k \in Owned', k <= Len(runs)
      PROVE  k \in DOMAIN runs /\ gens'[k].rt # 0
  <2>1. k \in DOMAIN runs' /\ gens'[k].rt # 0
    BY <1>1, <1>2 DEF Owned
  <2>2. DOMAIN runs' = 1 .. Len(runs') /\ DOMAIN runs = 1 .. Len(runs) /\ Len(runs) \in Nat /\ Len(runs') \in Nat
    BY Sizes DEF Shape
  <2> QED BY <1>2, <2>1, <2>2
<1> QED BY <1>2 DEF Later, Owned

\* A call nobody touches goes on knowing what it knew.
LEMMA CallStays ==
  ASSUME Shape, Shape', GenInv, Later, kind # "cli",
         NEW u \in Threads, CallInv(u), call'[u] = call[u]
  PROVE  CallInv(u)'
<1>1. kind' = kind
  BY SameKind DEF Later
<1>2. /\ Len(runs) \in Nat /\ Len(runs') \in Nat /\ Len(runs) <= Len(runs') /\ DOMAIN runs = 1 .. Len(runs)
      /\ Len(rts) \in Nat /\ Len(rts') \in Nat /\ Len(rts) <= Len(rts')
  BY Sizes DEF Shape, Later
<1> DEFINE c == call[u]
<1>3. call'[u] = c
  OBVIOUS
<1>4. /\ <<c.op, c.pc>> \in Points(kind)
      /\ c.rt \in 0 .. Len(rts) /\ c.gen \in 0 .. Len(runs) /\ c.before \in 0 .. Len(runs)
      /\ c.pc \in {"set", "start", "wait", "stop"} => c.rt # 0
      /\ c.pc \in {"waitCheck", "waitSelect", "stopWait", "probeSelect", "probeAction", "probeWait"}
           => c.gen # 0
      /\ c.pc \in {"start", "configure"} => c.mode \in Modes
      /\ c.stale => c.pc = "waitCheck" /\ gens[c.gen].done
  BY DEF CallInv
<1>5. c.op \in Stops =>
         \A k \in Owned : k <= c.before /\ Active(k) =>
            /\ c.pc = "stop" => gens[k].rt = c.rt
            /\ c.pc = "stopWait" => k = c.gen
            /\ c.pc # "returned"
  BY DEF CallInv
<1>6. c.op = "Check" =>
         /\ c.pc = "probe" => c.gen = 0
         /\ c.pc \in {"probeWait", "returned"} /\ c.gen # 0 => runs[c.gen].cancelled
  BY DEF CallInv
<1> HIDE DEF c
<1>7. <<c.op, c.pc>> \in Points(kind')
  BY <1>1, <1>4
<1>8. c.rt \in 0 .. Len(rts') /\ c.gen \in 0 .. Len(runs') /\ c.before \in 0 .. Len(runs')
  BY <1>2, <1>4
<1>9. c.stale => c.pc = "waitCheck" /\ gens'[c.gen].done
  BY <1>2, <1>4 DEF Later
<1>10. c.op \in Stops =>
         \A k \in Owned' : k <= c.before /\ Active(k)' =>
            /\ c.pc = "stop" => gens'[k].rt = c.rt
            /\ c.pc = "stopWait" => k = c.gen
            /\ c.pc # "returned"
  <2> SUFFICES ASSUME c.op \in Stops, NEW k \in Owned', k <= c.before, Active(k)'
               PROVE  /\ c.pc = "stop" => gens'[k].rt = c.rt
                      /\ c.pc = "stopWait" => k = c.gen
                      /\ c.pc # "returned"
    OBVIOUS
  <2>1. k \in DOMAIN runs'
    BY DEF Owned
  <2>2. k <= Len(runs)
    <3>1. k \in Nat
      BY <2>1, Sizes
    <3> QED BY <1>2, <1>4, <3>1
  <2>3. k \in Owned /\ Active(k)
    BY <2>2, OwnedLater
  <2>4. gens'[k].rt = gens[k].rt
    BY <2>3 DEF Later, Owned
  <2> QED BY <1>5, <2>3, <2>4
<1>11. c.op = "Check" =>
         /\ c.pc = "probe" => c.gen = 0
         /\ c.pc \in {"probeWait", "returned"} /\ c.gen # 0 => runs'[c.gen].cancelled
  BY <1>2, <1>4, <1>6 DEF Later
<1> QED BY <1>3, <1>4, <1>7, <1>8, <1>9, <1>10, <1>11 DEF CallInv

\* The same Runtimes, and the mutexes of the others stay theirs.
OthersKeep(t) ==
    /\ Alone(t)
    /\ core'.olcrtcRuntime = core.olcrtcRuntime
    /\ \A u \in Threads \ {t} :
         /\ core.startMu = u => core'.startMu = u
         /\ core.probeMu = u => core'.probeMu = u

\* A probe's Runtime is remembered by the call that started it only.
SameProbe(t) ==
    call'[t].op = "StartProfileProbeOlcrtc" =>
        call'[t].rt = 0 \/ (call[t].op = "StartProfileProbeOlcrtc" /\ call'[t].rt = call[t].rt)

\* No Runtime becomes active, and an idle one stays idle.
SameRuntimes ==
    /\ UNCHANGED scene
    /\ Len(rts') = Len(rts)
    /\ \A r \in DOMAIN rts : /\ isActiveLocked(r)' => isActiveLocked(r)
                             /\ rts[r].state = "idle" => rts'[r].state = "idle"

LEMMA LocksKept ==
  ASSUME Shape, Shape', LockInv, NEW t \in Threads, SameRuntimes, OthersKeep(t), SameProbe(t),
         call'[t].pc \notin {"register", "configure"}, InProbe(t)' => core'.probeMu = t
  PROVE  LockInv'
<1>1. kind' = kind
  BY SameKind DEF SameRuntimes
<1>2. Len(rts) \in Nat /\ DOMAIN rts = 1 .. Len(rts) /\ DOMAIN rts' = DOMAIN rts /\ Len(rts') = Len(rts)
  BY Sizes DEF Shape, SameRuntimes
<1>3. kind' = "runtime" => Len(rts') = 1
  BY <1>1, <1>2 DEF LockInv
<1>4. kind' = "app" =>
         /\ core'.olcrtcRuntime = Len(rts')
         /\ \A r \in DOMAIN rts' : isActiveLocked(r)' => r = core'.olcrtcRuntime
  BY <1>1, <1>2 DEF LockInv, SameRuntimes, OthersKeep
<1>5. ASSUME NEW u \in Threads, call'[u].pc \in {"register", "configure"}
      PROVE  /\ core'.startMu = u /\ call'[u].rt = Len(rts')
             /\ Len(rts') # 0 /\ rts'[Len(rts')].state = "idle"
             /\ \A v \in Threads \ {u} :
                   call'[v].op = "StartProfileProbeOlcrtc" => call'[v].rt # call'[u].rt
  <2>1. u # t /\ call'[u] = call[u]
    BY <1>5 DEF OthersKeep, Alone
  <2>2. /\ core.startMu = u /\ call[u].rt = Len(rts)
        /\ Len(rts) # 0 /\ rts[Len(rts)].state = "idle"
        /\ \A v \in Threads \ {u} :
              call[v].op = "StartProfileProbeOlcrtc" => call[v].rt # call[u].rt
    BY <1>5, <2>1 DEF LockInv
  <2>3. core'.startMu = u /\ call'[u].rt = Len(rts') /\ Len(rts') # 0 /\ rts'[Len(rts')].state = "idle"
    BY <1>2, <2>1, <2>2 DEF OthersKeep, SameRuntimes
  <2>4. ASSUME NEW v \in Threads \ {u}, call'[v].op = "StartProfileProbeOlcrtc"
        PROVE  call'[v].rt # call'[u].rt
    <3>1. CASE v = t
      BY <1>2, <2>1, <2>2, <2>4, <3>1 DEF SameProbe
    <3>2. CASE v # t
      BY <2>1, <2>2, <2>4, <3>2 DEF OthersKeep, Alone
    <3> QED BY <3>1, <3>2
  <2> QED BY <2>3, <2>4
<1>6. ASSUME NEW u \in Threads, InProbe(u)'
      PROVE  core'.probeMu = u
  <2>1. CASE u = t
    BY <1>6, <2>1
  <2>2. CASE u # t
    <3>1. InProbe(u)
      BY <1>6, <2>2 DEF InProbe, OthersKeep, Alone
    <3> QED BY <2>2, <3>1 DEF LockInv, OthersKeep
  <2> QED BY <2>1, <2>2
<1> QED BY <1>3, <1>4, <1>5, <1>6 DEF LockInv

\* The mark stays, or nobody needs it.
LEMMA ProbesKept ==
  ASSUME Shape, Shape', GenInv, ProbeInv, Later, kind # "cli", NEW t \in Threads, OthersKeep(t), SameProbe(t),
         \A k \in Probes' : k <= Len(runs),
         \A k \in Owned :
            (core.probeOlcrtc \/ SeesTo(t, k)) /\ Active(k)' /\ ~runs'[k].cancelled
            => core'.probeOlcrtc \/ SeesTo(t, k)'
  PROVE  ProbeInv'
<1> SUFFICES ASSUME NEW k \in Probes', Active(k)', ~runs'[k].cancelled
             PROVE  core'.probeOlcrtc \/ \E u \in Threads : SeesTo(u, k)'
  BY DEF ProbeInv
<1>1. k \in Owned' /\ k <= Len(runs)
  BY DEF Probes
<1>2. k \in Owned /\ Active(k)
  BY <1>1, OwnedLater
<1>3. k \in DOMAIN runs /\ gens'[k].rt = gens[k].rt /\ gens[k].rt # 0 /\ ~runs[k].cancelled
  BY <1>2 DEF Later, Owned
<1>4. k \in Probes
  <2>1. PICK u \in Threads : call'[u].op = "StartProfileProbeOlcrtc" /\ call'[u].rt = gens'[k].rt
    BY DEF Probes
  <2>2. call[u].op = "StartProfileProbeOlcrtc" /\ call[u].rt = gens[k].rt
    BY <1>3, <2>1 DEF SameProbe, OthersKeep, Alone
  <2> QED BY <1>2, <2>2 DEF Probes
<1>5. core.probeOlcrtc \/ \E u \in Threads : SeesTo(u, k)
  BY <1>2, <1>3, <1>4 DEF ProbeInv
<1>6. CASE core.probeOlcrtc
  BY <1>2, <1>6
<1>7. CASE \E u \in Threads : SeesTo(u, k)
  <2>1. PICK u \in Threads : SeesTo(u, k)
    BY <1>7
  <2>2. CASE u = t
    BY <1>2, <2>1, <2>2
  <2>3. CASE u # t
    <3>1. SeesTo(u, k)'
      BY <1>3, <2>1, <2>3 DEF SeesTo, OthersKeep, Alone
    <3> QED BY <3>1
  <2> QED BY <2>2, <2>3
<1> QED BY <1>5, <1>6, <1>7

\* Instances that stay open stay in their variable or in the hands of a call.
LEMMA XrayKept ==
  ASSUME XrayInv, NEW t \in Threads, Alone(t),
         core'.open \subseteq core.open, core'.made = core.made,
         core'.xray = core.xray, core'.probe = core.probe,
         \A n \in core'.open : Closes(t, n) => Closes(t, n)'
  PROVE  XrayInv'
<1>1. \A n \in core'.open : n \in {core.xray, core.probe} \/ \E u \in Threads : Closes(u, n)
  BY DEF XrayInv
<1>2. \A n \in core'.open, u \in Threads : Closes(u, n) => Closes(u, n)'
  BY DEF Closes, Alone
<1> QED BY <1>1, <1>2 DEF XrayInv

-----------------------------------------------------------------------------
(* Steps of the runs and of their generations: no call takes part.         *)

LEMMA CliUntouched == ASSUME kind # "cli", UNCHANGED scene PROVE CliInv'
  BY SameKind DEF CliInv

LEMMA BackgroundStep ==
  ASSUME Inv, Shape', GenInv', kind # "cli", Later, SameRuntimes, Len(runs') = Len(runs),
         UNCHANGED <<call, core>>
  PROVE  Inv'
<1>1. kind' = kind /\ CliInv'
  BY SameKind, CliUntouched DEF Later
<1>2. \A t \in Threads : CallInv(t)'
  BY CallStays DEF Inv
<1>3. LockInv'
  <2>1. Len(rts) \in Nat /\ DOMAIN rts = 1 .. Len(rts) /\ DOMAIN rts' = DOMAIN rts /\ Len(rts') = Len(rts)
    BY Sizes DEF Inv, Shape, SameRuntimes
  <2>2. kind' = "runtime" => Len(rts') = 1
    BY <1>1, <2>1 DEF Inv, LockInv
  <2>3. kind' = "app" =>
           /\ core'.olcrtcRuntime = Len(rts')
           /\ \A r \in DOMAIN rts' : isActiveLocked(r)' => r = core'.olcrtcRuntime
    BY <1>1, <2>1 DEF Inv, LockInv, SameRuntimes
  <2>4. ASSUME NEW t \in Threads, call[t].pc \in {"register", "configure"}
        PROVE  /\ core.startMu = t /\ call[t].rt = Len(rts')
               /\ Len(rts') # 0 /\ rts'[Len(rts')].state = "idle"
               /\ \A u \in Threads \ {t} :
                    call[u].op = "StartProfileProbeOlcrtc" => call[u].rt # call[t].rt
    BY <2>1, <2>4 DEF Inv, LockInv, SameRuntimes
  <2>5. \A t \in Threads : InProbe(t)' => core'.probeMu = t
    BY DEF Inv, LockInv, InProbe
  <2> QED BY <2>2, <2>3, <2>4, <2>5 DEF LockInv
<1>4. ProbeInv'
  <2> SUFFICES ASSUME NEW k \in Probes', Active(k)', ~runs'[k].cancelled
               PROVE  core'.probeOlcrtc \/ \E u \in Threads : SeesTo(u, k)'
    BY DEF ProbeInv
  <2>1. k \in Owned'
    BY DEF Probes
  <2>2. k <= Len(runs)
    BY <2>1, Sizes DEF Owned
  <2>3. k \in Owned /\ Active(k)
    BY <2>1, <2>2, OwnedLater DEF Inv
  <2>4. k \in DOMAIN runs /\ gens'[k].rt = gens[k].rt /\ ~runs[k].cancelled
    BY <2>3 DEF Later, Owned
  <2>5. k \in Probes
    BY <2>3, <2>4 DEF Probes
  <2>6. core.probeOlcrtc \/ \E u \in Threads : SeesTo(u, k)
    BY <2>3, <2>4, <2>5 DEF Inv, ProbeInv
  <2> QED BY <2>4, <2>6 DEF SeesTo
<1>5. XrayInv'
  BY DEF Inv, XrayInv, Closes
<1> QED BY <1>1, <1>2, <1>3, <1>4, <1>5 DEF Inv

\* A run goes on or returns, without its owner.
LEMMA RunGoesOn ==
  ASSUME Inv, kind # "cli", NEW k \in DOMAIN runs, NEW run \in RunType,
         runs' = [runs EXCEPT ![k] = run], registered' \in Modes,
         UNCHANGED <<scene, gens, rts, call, core, sup, cyc, main>>,
         runs[k].phase # "returned", run.cancelled = runs[k].cancelled
  PROVE  Inv'
<1>1. Shape /\ kind' = kind
  BY SameKind DEF Inv
<1>2. /\ runs' \in Seq(RunType) /\ Len(runs') = Len(runs) /\ runs'[k] = run
      /\ \A j \in DOMAIN runs : j # k => runs'[j] = runs[j]
  BY <1>1, RunChanges
<1>3. Shape'
  BY <1>1, <1>2 DEF Shape, SupType, Profiles
<1>4. DOMAIN runs' = DOMAIN runs /\ DOMAIN runs = 1 .. Len(runs) /\ Len(runs) \in Nat
  BY <1>1, <1>2, <1>3, Sizes
<1>5. Later
  BY <1>2, <1>4, Sizes DEF Later, Inv, Active, Shape
<1>6. SameRuntimes
  BY DEF SameRuntimes, isActiveLocked
<1>7. GenInv'
  <2>1. \A j \in DOMAIN runs' : gens'[j].finished => ~Active(j)'
    BY <1>2, <1>4 DEF Inv, GenInv, Active
  <2>2. \A r \in DOMAIN rts' : rts'[r].state = "stopping" => runs'[rts'[r].current].cancelled
    <3> SUFFICES ASSUME NEW r \in DOMAIN rts, rts[r].state = "stopping"
                 PROVE  runs'[rts[r].current].cancelled
      OBVIOUS
    <3>1. rts[r].current \in DOMAIN runs /\ runs[rts[r].current].cancelled
      BY <1>4 DEF Inv, GenInv, isActiveLocked
    <3> QED BY <1>2, <3>1
  <2> QED BY <1>1, <1>2, <1>4, <2>1, <2>2 DEF Inv, GenInv, isActiveLocked
<1> QED BY <1>2, <1>3, <1>5, <1>6, <1>7, BackgroundStep

\* What a run does by itself changes nothing but its record.
LEMMA RunMoves ==
  ASSUME Shape, NEW k \in DOMAIN runs, RunSteps(k)
  PROVE  \E run \in RunType : /\ runs' = [runs EXCEPT ![k] = run] /\ registered' \in Modes
                              /\ UNCHANGED <<scene, gens, rts, call, core, sup, cyc, main>>
                              /\ runs[k].phase # "returned" /\ run.cancelled = runs[k].cancelled
<1>1. runs[k] \in RunType /\ registered \in Modes
  BY Sizes DEF Shape
<1>2. UNCHANGED <<scene, gens, rts, call, core, sup, cyc, main>>
  BY DEF RunSteps, runtimeVars, coreVars, cliVars
<1>3. CASE RunRegisters(k)
  <2> DEFINE run == [runs[k] EXCEPT !.phase = "registered"]
  <2>1. run \in RunType
    BY <1>1 DEF RunType
  <2>2. runs' = [runs EXCEPT ![k] = run] /\ registered' \in Modes /\ runs[k].phase # "returned"
    BY <1>3 DEF RunRegisters, Modes
  <2>3. run.cancelled = runs[k].cancelled
    BY <1>1 DEF RunType
  <2> QED BY <1>2, <2>1, <2>2, <2>3
<1>4. CASE RunOpens(k)
  <2> DEFINE run == [runs[k] EXCEPT !.phase = "open", !.used = registered]
  <2>1. run \in RunType
    BY <1>1 DEF RunType
  <2>2. runs' = [runs EXCEPT ![k] = run] /\ registered' \in Modes /\ runs[k].phase # "returned"
    BY <1>1, <1>4 DEF RunOpens
  <2>3. run.cancelled = runs[k].cancelled
    BY <1>1 DEF RunType
  <2> QED BY <1>2, <2>1, <2>2, <2>3
<1>5. CASE RunReturns(k)
  <2>1. PICK result \in ReturnValues(k) :
          runs' = [runs EXCEPT ![k].phase = "returned", ![k].result = result]
    BY <1>5 DEF RunReturns
  <2> DEFINE run == [runs[k] EXCEPT !.phase = "returned", !.result = result]
  <2>2. run \in RunType
    <3>1. result \in Results
      BY DEF ReturnValues, Results
    <3> QED BY <1>1, <3>1 DEF RunType
  <2>3. runs' = [runs EXCEPT ![k] = run] /\ registered' \in Modes /\ runs[k].phase # "returned"
    BY <1>1, <1>5, <2>1 DEF RunReturns, Active
  <2>4. run.cancelled = runs[k].cancelled
    BY <1>1 DEF RunType
  <2> QED BY <1>2, <2>2, <2>3, <2>4
<1>6. CASE RunReady(k)
  <2> DEFINE run == [runs[k] EXCEPT !.phase = "ready", !.ready = TRUE]
  <2>1. run \in RunType
    BY <1>1 DEF RunType
  <2>2. runs' = [runs EXCEPT ![k] = run] /\ registered' \in Modes /\ runs[k].phase # "returned"
    BY <1>1, <1>6 DEF RunReady
  <2>3. run.cancelled = runs[k].cancelled
    BY <1>1 DEF RunType
  <2> QED BY <1>2, <2>1, <2>2, <2>3
<1> QED BY <1>3, <1>4, <1>5, <1>6 DEF RunSteps

LEMMA RunStepsKeep ==
  ASSUME Inv, kind # "cli", NEW k \in DOMAIN runs, RunSteps(k)
  PROVE  Inv'
<1>1. PICK run \in RunType : /\ runs' = [runs EXCEPT ![k] = run] /\ registered' \in Modes
                             /\ UNCHANGED <<scene, gens, rts, call, core, sup, cyc, main>>
                             /\ runs[k].phase # "returned" /\ run.cancelled = runs[k].cancelled
  BY RunMoves DEF Inv
<1> QED BY <1>1, RunGoesOn

LEMMA MarkReadyKeeps ==
  ASSUME Inv, kind # "cli", NEW k \in DOMAIN runs, MarkReady(k), UNCHANGED <<core, sup, cyc, main>>
  PROVE  Inv'
<1>1. Shape /\ GenInv /\ runs[k] \in RunType
  BY Sizes DEF Inv
<1>2. Len(gens) = Len(runs) /\ DOMAIN gens = DOMAIN runs /\ DOMAIN runs = 1 .. Len(runs) /\ Len(runs) \in Nat
      /\ gens[k] \in GenType
  BY <1>1, Sizes DEF GenInv
<1> DEFINE run == [runs[k] EXCEPT !.phase = "ready", !.ready = TRUE]
           gen == [gens[k] EXCEPT !.ready = TRUE]
           r == gens[k].rt
           rt == [rts[r] EXCEPT !.state = "running"]
<1>3. run \in RunType /\ run.phase = "ready" /\ run.cancelled = runs[k].cancelled
  BY <1>1 DEF RunType
<1>4. gen \in GenType /\ gen.rt = gens[k].rt /\ gen.finished = gens[k].finished /\ gen.done = gens[k].done
  BY <1>2 DEF GenType
<1>5. runs' = [runs EXCEPT ![k] = run] /\ registered' = registered /\ runs[k].phase = "open"
  BY DEF MarkReady, RunReady
<1>6. UNCHANGED <<scene, call, core, sup, cyc, main>>
  BY DEF MarkReady
<1>7. /\ runs' \in Seq(RunType) /\ Len(runs') = Len(runs) /\ runs'[k] = run
      /\ \A j \in DOMAIN runs : j # k => runs'[j] = runs[j]
  BY <1>1, <1>3, <1>5, RunChanges
<1> HIDE DEF run
<1>8. /\ gens' \in Seq(GenType) /\ Len(gens') = Len(gens)
      /\ \A j \in DOMAIN gens : /\ gens'[j].rt = gens[j].rt /\ gens'[j].finished = gens[j].finished
                                /\ gens'[j].done = gens[j].done
  <2>1. CASE gens' = gens
    BY <1>1, <2>1 DEF Shape
  <2>2. CASE gens' = [gens EXCEPT ![k].ready = TRUE]
    <3>1. gens' = [gens EXCEPT ![k] = gen]
      BY <2>2
    <3>2. /\ gens' \in Seq(GenType) /\ Len(gens') = Len(gens) /\ gens'[k] = gen
          /\ \A j \in DOMAIN gens : j # k => gens'[j] = gens[j]
      BY <1>1, <1>2, <1>4, <3>1, GenChanges
    <3> QED BY <1>4, <3>2
  <2> QED BY <2>1, <2>2 DEF MarkReady
<1>9. /\ rts' \in Seq(RtType) /\ Len(rts') = Len(rts)
      /\ \A q \in DOMAIN rts :
           /\ rts'[q].current = rts[q].current
           /\ \/ rts'[q].state = rts[q].state
              \/ rts'[q].state = "running" /\ rts[q].state = "starting"
  <2>1. CASE rts' = rts
    BY <1>1, <2>1 DEF Shape
  <2>2. CASE r # 0 /\ rts[r].state = "starting" /\ rts' = [rts EXCEPT ![r].state = "running"]
    <3>1. r \in DOMAIN rts /\ rts[r] \in RtType
      BY <1>1, <1>2, <2>2, Sizes DEF GenInv
    <3>2. rt \in RtType /\ rt.current = rts[r].current /\ rt.state = "running"
      BY <3>1 DEF RtType
    <3>3. rts' = [rts EXCEPT ![r] = rt]
      BY <2>2
    <3> HIDE DEF rt
    <3>4. /\ rts' \in Seq(RtType) /\ Len(rts') = Len(rts) /\ rts'[r] = rt
          /\ \A q \in DOMAIN rts : q # r => rts'[q] = rts[q]
      BY <1>1, <3>1, <3>2, <3>3, RtChanges
    <3> QED BY <2>2, <3>2, <3>4
  <2> QED BY <2>1, <2>2 DEF MarkReady
<1>10. Shape'
  BY <1>1, <1>5, <1>6, <1>7, <1>8, <1>9 DEF Shape, SupType, Profiles
<1>11. /\ DOMAIN runs' = DOMAIN runs /\ DOMAIN rts' = DOMAIN rts
       /\ Len(rts) \in Nat /\ DOMAIN rts = 1 .. Len(rts)
  BY <1>1, <1>7, <1>9, <1>10, Sizes
<1>12. Later
  BY <1>2, <1>3, <1>5, <1>6, <1>7, <1>8, <1>11, <1>9 DEF Later, Active
<1>13. SameRuntimes
  BY <1>6, <1>9 DEF SameRuntimes, isActiveLocked
<1>14. GenInv'
  <2>1. kind' = kind /\ Len(gens') = Len(runs')
    BY <1>2, <1>6, <1>7, <1>8, SameKind
  <2>2. ASSUME NEW j \in DOMAIN runs
        PROVE  /\ gens'[j].rt \in 0 .. Len(rts')
               /\ gens'[j].finished => ~Active(j)'
               /\ gens'[j].done => gens'[j].finished
               /\ gens'[j].rt # 0 /\ ~gens'[j].finished =>
                    rts'[gens'[j].rt].current = j /\ rts'[gens'[j].rt].state \in {"starting", "running", "stopping"}
    <3>1. gens'[j].rt = gens[j].rt /\ gens'[j].finished = gens[j].finished /\ gens'[j].done = gens[j].done
      BY <1>2, <1>8
    <3>2. gens[j].rt \in 0 .. Len(rts) /\ (gens[j].done => gens[j].finished) /\ (gens[j].finished => ~Active(j))
      BY <1>1 DEF GenInv
    <3>3. gens[j].finished => ~Active(j)'
      BY <1>5, <1>7, <3>2 DEF Active
    <3>4. ASSUME gens[j].rt # 0, ~gens[j].finished
          PROVE  rts'[gens[j].rt].current = j /\ rts'[gens[j].rt].state \in {"starting", "running", "stopping"}
      <4>1. rts[gens[j].rt].current = j /\ isActiveLocked(gens[j].rt) /\ gens[j].rt \in DOMAIN rts
        BY <1>1, <1>11, <3>2, <3>4 DEF GenInv
      <4> QED BY <1>9, <4>1 DEF isActiveLocked
    <3> QED BY <1>9, <3>1, <3>2, <3>3, <3>4
  <2>3. ASSUME NEW q \in DOMAIN rts
        PROVE  /\ rts'[q].current \in 0 .. Len(runs')
               /\ isActiveLocked(q)' => rts'[q].current # 0
               /\ rts'[q].current # 0 => gens'[rts'[q].current].rt = q
               /\ rts'[q].state = "stopping" => runs'[rts'[q].current].cancelled
    <3>1. /\ rts[q].current \in 0 .. Len(runs)
          /\ isActiveLocked(q) => rts[q].current # 0
          /\ rts[q].current # 0 => gens[rts[q].current].rt = q
          /\ rts[q].state = "stopping" => runs[rts[q].current].cancelled
      BY <1>1 DEF GenInv
    <3>2. rts'[q].current = rts[q].current /\ (isActiveLocked(q)' => isActiveLocked(q))
      BY <1>9, <1>13 DEF SameRuntimes
    <3>3. rts[q].current # 0 => rts[q].current \in DOMAIN runs
      BY <1>2, <3>1
    <3>4. rts'[q].state = "stopping" => rts[q].state = "stopping" /\ rts[q].current # 0
      BY <1>9, <3>1 DEF isActiveLocked
    <3> QED BY <1>2, <1>3, <1>7, <1>8, <3>1, <3>2, <3>3, <3>4
  <2> QED BY <2>1, <2>2, <2>3, <1>11 DEF GenInv, isActiveLocked
<1> QED BY <1>6, <1>7, <1>10, <1>12, <1>13, <1>14, BackgroundStep

LEMMA FinishKeeps ==
  ASSUME Inv, kind # "cli", NEW k \in DOMAIN runs, Finish(k), UNCHANGED <<core, sup, cyc, main>>
  PROVE  Inv'
<1>1. Shape /\ GenInv /\ runs[k] \in RunType
  BY Sizes DEF Inv
<1>2. Len(gens) = Len(runs) /\ DOMAIN gens = DOMAIN runs /\ DOMAIN runs = 1 .. Len(runs) /\ Len(runs) \in Nat
      /\ gens[k] \in GenType /\ Len(rts) \in Nat /\ DOMAIN rts = 1 .. Len(rts)
  BY <1>1, Sizes DEF GenInv
<1> DEFINE run == [runs[k] EXCEPT !.cancelled = TRUE]
           stopped == gens[k].stopRequested /\ runs[k].result = "canceled"
           gen == [gens[k] EXCEPT !.finished = TRUE, !.err = IF stopped THEN "nil" ELSE runs[k].result]
           r == gens[k].rt
           rt == [rts[r] EXCEPT !.state = "stopped"]
<1>3. run \in RunType /\ run.phase = runs[k].phase /\ run.cancelled
  BY <1>1 DEF RunType
<1>4. gen \in GenType /\ gen.rt = gens[k].rt /\ gen.finished /\ gen.done = gens[k].done
  <2>1. runs[k].result \in Results \cup {"none"}
    BY <1>1 DEF RunType
  <2> QED BY <1>2, <2>1 DEF GenType, Results
<1>5. runs' = [runs EXCEPT ![k] = run] /\ gens' = [gens EXCEPT ![k] = gen] /\ ~Active(k)
      /\ r # 0 /\ ~gens[k].finished
  BY DEF Finish
<1>6. r \in DOMAIN rts /\ rts[r].current = k /\ rts[r] \in RtType /\ isActiveLocked(r)
  BY <1>1, <1>2, <1>5, Sizes DEF GenInv
<1>7. rts' = [rts EXCEPT ![r] = rt] /\ UNCHANGED <<scene, registered, call, core, sup, cyc, main>>
  BY <1>6 DEF Finish, isCurrentGenerationLocked
<1>8. rt \in RtType /\ rt.state = "stopped" /\ rt.current = k
  BY <1>6 DEF RtType
<1> HIDE DEF run, gen, rt, r
<1>9. /\ runs' \in Seq(RunType) /\ Len(runs') = Len(runs) /\ runs'[k] = run
      /\ \A j \in DOMAIN runs : j # k => runs'[j] = runs[j]
  BY <1>1, <1>3, <1>5, RunChanges
<1>10. /\ gens' \in Seq(GenType) /\ Len(gens') = Len(gens) /\ gens'[k] = gen
       /\ \A j \in DOMAIN gens : j # k => gens'[j] = gens[j]
  BY <1>1, <1>2, <1>4, <1>5, GenChanges
<1>11. /\ rts' \in Seq(RtType) /\ Len(rts') = Len(rts) /\ rts'[r] = rt
       /\ \A q \in DOMAIN rts : q # r => rts'[q] = rts[q]
  BY <1>1, <1>6, <1>7, <1>8, RtChanges
<1>12. Shape'
  BY <1>1, <1>7, <1>9, <1>10, <1>11 DEF Shape, SupType, Profiles
<1>13. DOMAIN runs' = DOMAIN runs /\ DOMAIN rts' = DOMAIN rts
  BY <1>1, <1>9, <1>11, <1>12, Sizes
<1>14. Later
  BY <1>2, <1>3, <1>4, <1>7, <1>9, <1>10, <1>11 DEF Later, Active
<1>15. SameRuntimes
  BY <1>6, <1>7, <1>8, <1>11 DEF SameRuntimes, isActiveLocked
<1>16. GenInv'
  <2>1. kind' = kind /\ Len(gens') = Len(runs')
    BY <1>2, <1>7, <1>9, <1>10, SameKind
  <2>2. ASSUME NEW j \in DOMAIN runs
        PROVE  /\ gens'[j].rt \in 0 .. Len(rts')
               /\ gens'[j].finished => ~Active(j)'
               /\ gens'[j].done => gens'[j].finished
               /\ gens'[j].rt # 0 /\ ~gens'[j].finished =>
                    rts'[gens'[j].rt].current = j /\ rts'[gens'[j].rt].state \in {"starting", "running", "stopping"}
    <3>1. gens[j].rt \in 0 .. Len(rts) /\ (gens[j].done => gens[j].finished) /\ (gens[j].finished => ~Active(j))
      BY <1>1 DEF GenInv
    <3>2. CASE j = k
      BY <1>3, <1>4, <1>5, <1>9, <1>10, <1>11, <3>1, <3>2 DEF Active, r
    <3>3. CASE j # k
      <4>1. gens'[j] = gens[j] /\ runs'[j] = runs[j]
        BY <1>2, <1>9, <1>10, <3>3
      <4>2. ASSUME gens[j].rt # 0, ~gens[j].finished
            PROVE  rts'[gens[j].rt].current = j /\ rts'[gens[j].rt].state \in {"starting", "running", "stopping"}
        <5>1. rts[gens[j].rt].current = j /\ isActiveLocked(gens[j].rt) /\ gens[j].rt \in DOMAIN rts
          BY <1>1, <1>2, <3>1, <4>2 DEF GenInv
        <5>2. gens[j].rt # r
          BY <1>6, <3>3, <5>1
        <5> QED BY <1>11, <5>1, <5>2 DEF isActiveLocked
      <4> QED BY <1>11, <3>1, <4>1, <4>2 DEF Active
    <3> QED BY <3>2, <3>3
  <2>3. ASSUME NEW q \in DOMAIN rts
        PROVE  /\ rts'[q].current \in 0 .. Len(runs')
               /\ isActiveLocked(q)' => rts'[q].current # 0
               /\ rts'[q].current # 0 => gens'[rts'[q].current].rt = q
               /\ rts'[q].state = "stopping" => runs'[rts'[q].current].cancelled
    <3>1. /\ rts[q].current \in 0 .. Len(runs)
          /\ isActiveLocked(q) => rts[q].current # 0
          /\ rts[q].current # 0 => gens[rts[q].current].rt = q
          /\ rts[q].state = "stopping" => runs[rts[q].current].cancelled
      BY <1>1 DEF GenInv
    <3>2. rts'[q].current = rts[q].current /\ (isActiveLocked(q)' => isActiveLocked(q))
      BY <1>6, <1>8, <1>11, <1>15 DEF SameRuntimes
    <3>3. rts[q].current # 0 => rts[q].current \in DOMAIN runs
      BY <1>2, <3>1
    <3>4. rts'[q].state = "stopping" => rts[q].state = "stopping" /\ rts[q].current # 0
      BY <1>8, <1>11, <3>1 DEF isActiveLocked
    <3>5. \A j \in DOMAIN runs : gens'[j].rt = gens[j].rt /\ (runs[j].cancelled => runs'[j].cancelled)
      BY <1>14 DEF Later
    <3> QED BY <1>9, <3>1, <3>2, <3>3, <3>4, <3>5
  <2> QED BY <2>1, <2>2, <2>3, <1>13 DEF GenInv, isActiveLocked
<1> QED BY <1>7, <1>9, <1>12, <1>14, <1>15, <1>16, BackgroundStep

LEMMA CloseDoneKeeps ==
  ASSUME Inv, kind # "cli", NEW k \in DOMAIN runs, CloseDone(k), UNCHANGED <<core, sup, cyc, main>>
  PROVE  Inv'
<1>1. Shape /\ GenInv /\ runs[k] \in RunType
  BY Sizes DEF Inv
<1>2. Len(gens) = Len(runs) /\ DOMAIN gens = DOMAIN runs /\ DOMAIN runs = 1 .. Len(runs) /\ Len(runs) \in Nat
      /\ gens[k] \in GenType
  BY <1>1, Sizes DEF GenInv
<1> DEFINE gen == [gens[k] EXCEPT !.done = TRUE]
<1>3. gen \in GenType /\ gen.rt = gens[k].rt /\ gen.finished = gens[k].finished
  BY <1>2 DEF GenType
<1>4. gens' = [gens EXCEPT ![k] = gen] /\ gens[k].finished
      /\ UNCHANGED <<scene, runs, registered, rts, call, core, sup, cyc, main>>
  BY DEF CloseDone
<1>5. gen.done
  BY <1>2 DEF GenType
<1> HIDE DEF gen
<1>6. /\ gens' \in Seq(GenType) /\ Len(gens') = Len(gens) /\ gens'[k] = gen
      /\ \A j \in DOMAIN gens : j # k => gens'[j] = gens[j]
  BY <1>1, <1>2, <1>3, <1>4, GenChanges
<1>7. Shape'
  BY <1>1, <1>4, <1>6 DEF Shape, SupType, Profiles
<1>8. Later
  BY <1>2, <1>3, <1>4, <1>5, <1>6, <1>1, Sizes DEF Later, Active
<1>9. SameRuntimes
  BY <1>4 DEF SameRuntimes, isActiveLocked
<1>10. GenInv'
  <2>1. kind' = kind /\ Len(gens') = Len(runs')
    BY <1>2, <1>4, <1>6, SameKind
  <2>2. \A j \in DOMAIN runs : gens'[j].rt = gens[j].rt /\ gens'[j].finished = gens[j].finished
    BY <1>2, <1>3, <1>6
  <2>3. \A j \in DOMAIN runs : gens'[j].done => gens'[j].finished
    BY <1>1, <1>2, <1>3, <1>4, <1>6 DEF GenInv
  <2>4. \A q \in DOMAIN rts : rts[q].current # 0 => gens'[rts[q].current].rt = q
    <3> SUFFICES ASSUME NEW q \in DOMAIN rts, rts[q].current # 0 PROVE gens'[rts[q].current].rt = q
      OBVIOUS
    <3>1. rts[q].current \in DOMAIN runs /\ gens[rts[q].current].rt = q
      BY <1>1, <1>2 DEF GenInv
    <3> QED BY <2>2, <3>1
  <2> QED BY <1>1, <1>4, <2>1, <2>2, <2>3, <2>4 DEF GenInv, Active, isActiveLocked
<1> QED BY <1>4, <1>7, <1>8, <1>9, <1>10, BackgroundStep

LEMMA GenerationStepsKeep ==
  ASSUME Inv, NEW k \in DOMAIN runs, GenerationSteps(k)
  PROVE  Inv'
<1>1. kind # "cli" /\ UNCHANGED <<core, sup, cyc, main>>
  BY DEF GenerationSteps, coreVars, cliVars
<1> QED BY <1>1, MarkReadyKeeps, FinishKeeps, CloseDoneKeeps DEF GenerationSteps

-----------------------------------------------------------------------------
(* Steps of a call that leave the runs, the generations and the Runtimes   *)
(* alone.                                                                  *)

Quiet == UNCHANGED <<scene, runs, gens, rts, sup, cyc, main>>

LEMMA QuietLater ==
  ASSUME Inv, Quiet, registered' \in Modes, core' \in CoreType, call' \in [Threads -> CallType]
  PROVE  Shape' /\ Later /\ SameRuntimes /\ kind' = kind /\ Owned' = Owned
<1>1. UNCHANGED scene /\ kind' = kind
  BY SameKind DEF Quiet
<1>2. Shape'
  BY DEF Inv, Shape, Quiet, SupType, Profiles
<1>3. Later
  BY Sizes DEF Inv, Quiet, Later, Active
<1>4. SameRuntimes
  BY DEF Quiet, SameRuntimes, isActiveLocked
<1>5. Owned' = Owned
  BY <1>1 DEF Quiet, Owned
<1> QED BY <1>1, <1>2, <1>3, <1>4, <1>5

LEMMA QuietStep ==
  ASSUME Inv, kind # "cli", Quiet, registered' \in Modes, core' \in CoreType,
         call' \in [Threads -> CallType], NEW t \in Threads, Alone(t),
         CallInv(t)', LockInv', ProbeInv', XrayInv'
  PROVE  Inv'
<1>1. Shape' /\ Later /\ kind' = kind
  BY QuietLater
<1>2. CliInv'
  BY CliUntouched DEF Quiet
<1>3. GenInv'
  BY <1>1 DEF Inv, Quiet, GenInv, Active, isActiveLocked
<1>4. \A u \in Threads : CallInv(u)'
  BY <1>1, CallStays DEF Inv, Alone
<1> QED BY <1>1, <1>2, <1>3, <1>4 DEF Inv

\* What has to hold for a call to return: a success of a wait was not stale, a success of
\* Stop is final, the client of a Check is cancelled.
MayReturn(t, res) ==
    /\ call[t].op \in Waits /\ res = "nil" => ~call[t].stale
    /\ call[t].op \in Stops /\ res = "nil" => \A k \in Owned : k <= call[t].before => ~Active(k)
    /\ call[t].op = "Check" /\ call[t].gen # 0 => runs'[call[t].gen].cancelled

LEMMA ReturnedCall ==
  ASSUME Shape, Shape', GenInv, Later, kind # "cli", NEW t \in Threads, CallInv(t), NEW res,
         Return(t, res), MayReturn(t, res)
  PROVE  CallInv(t)'
<1>1. kind' = kind
  BY SameKind DEF Later
<1>2. /\ Len(runs) \in Nat /\ Len(runs') \in Nat /\ Len(runs) <= Len(runs') /\ DOMAIN runs = 1 .. Len(runs)
      /\ Len(rts) \in Nat /\ Len(rts') \in Nat /\ Len(rts) <= Len(rts')
  BY Sizes DEF Shape, Later
<1> DEFINE c == call[t]
           d == call'[t]
<1>3. /\ d.pc = "returned" /\ d.op \in {"none", c.op}
      /\ d.op \in {"none", "Check", "StartProfileProbeOlcrtc"} \cup Waits \cup Stops
      /\ d.op \in Waits \cup Stops => res = "nil"
      /\ d.stale => c.stale /\ c.op \in Waits /\ res = "nil"
      /\ d.before \in {0, c.before} /\ d.gen \in {0, c.gen} /\ d.rt \in {0, c.rt}
  BY Returns
<1>4. /\ <<c.op, c.pc>> \in Points(kind)
      /\ c.rt \in 0 .. Len(rts) /\ c.gen \in 0 .. Len(runs) /\ c.before \in 0 .. Len(runs)
  BY DEF CallInv
<1>5. /\ c.op \in Waits /\ res = "nil" => ~c.stale
      /\ c.op \in Stops /\ res = "nil" => \A k \in Owned : k <= c.before => ~Active(k)
      /\ c.op = "Check" /\ c.gen # 0 => runs'[c.gen].cancelled
  BY DEF MayReturn
<1>6. d = call'[t]
  OBVIOUS
<1> HIDE DEF c, d
<1>7. <<d.op, d.pc>> \in Points(kind')
  BY <1>1, <1>3, <1>4 DEF Points, RuntimePoints, CorePoints, Waits, Stops
<1>8. d.rt \in 0 .. Len(rts') /\ d.gen \in 0 .. Len(runs') /\ d.before \in 0 .. Len(runs')
  BY <1>2, <1>3, <1>4
<1>9. ~d.stale
  BY <1>3, <1>5
<1>10. ASSUME d.op \in Stops, NEW k \in Owned', k <= d.before, Active(k)'
       PROVE  FALSE
  <2>1. d.op = c.op /\ res = "nil"
    BY <1>3, <1>10 DEF Stops
  <2>2. k \in Nat /\ k # 0
    BY <1>10, Sizes DEF Owned
  <2>3. k <= c.before /\ k <= Len(runs)
    BY <1>2, <1>3, <1>4, <1>10, <2>2
  <2>4. k \in Owned /\ Active(k)
    BY <1>10, <2>3, OwnedLater
  <2> QED BY <1>5, <1>10, <2>1, <2>3, <2>4
<1>11. d.op = "Check" /\ d.gen # 0 => runs'[d.gen].cancelled
  BY <1>3, <1>5
<1>12. d.pc = "returned"
  BY <1>3
<1> QED BY <1>6, <1>7, <1>8, <1>9, <1>10, <1>11, <1>12 DEF CallInv

\* The probe of t and the instance in its hands are seen to before it returns.
MayForget(t) ==
    /\ core.probeOlcrtc => core'.probeOlcrtc
    /\ \A k \in Owned : SeesTo(t, k) => core'.probeOlcrtc
    /\ core'.open \subseteq core.open /\ core'.made = core.made
    /\ core'.xray = core.xray /\ core'.probe = core.probe
    /\ \A n \in core'.open : ~Closes(t, n)

LEMMA QuietReturn ==
  ASSUME Inv, kind # "cli", Quiet, registered' \in Modes, core' \in CoreType,
         NEW t \in Threads, NEW res, Return(t, res), MayReturn(t, res), OthersKeep(t), MayForget(t)
  PROVE  Inv'
<1>1. /\ call' \in [Threads -> CallType] /\ Alone(t) /\ call'[t].pc = "returned"
      /\ call'[t].op \in {"none", call[t].op} /\ call'[t].rt \in {0, call[t].rt}
      /\ call'[t].op \in {"none", "Check", "StartProfileProbeOlcrtc"} \cup Waits \cup Stops
  BY Returns DEF Inv
<1>2. Shape' /\ Later /\ SameRuntimes /\ kind' = kind /\ Owned' = Owned
  BY <1>1, QuietLater
<1>3. CallInv(t)'
  BY <1>2, ReturnedCall DEF Inv
<1>4. SameProbe(t) /\ ~InProbe(t)'
  BY <1>1 DEF SameProbe, InProbe, Waits, Stops
<1>5. LockInv'
  BY <1>1, <1>2, <1>4, LocksKept DEF Inv
<1>6. ProbeInv'
  <2>1. \A k \in Probes' : k <= Len(runs)
    BY <1>2, Sizes DEF Probes, Owned, Inv
  <2>2. \A k \in Owned :
            (core.probeOlcrtc \/ SeesTo(t, k)) /\ Active(k)' /\ ~runs'[k].cancelled
            => core'.probeOlcrtc \/ SeesTo(t, k)'
    BY DEF MayForget
  <2> QED BY <1>2, <1>4, <2>1, <2>2, ProbesKept DEF Inv
<1>7. XrayInv'
  BY <1>1, XrayKept DEF Inv, MayForget
<1> QED BY <1>1, <1>3, <1>5, <1>6, <1>7, QuietStep

\* The core is not touched.
LEMMA ForgetsNothing ==
  ASSUME Inv, NEW t \in Threads, core' = core, Alone(t),
         call[t].pc \notin {"flagProbe", "closeXray"},
         call[t].op = "StopProfileProbe" => call[t].pc \in {"probeLock", "takeProbe"}
  PROVE  OthersKeep(t) /\ MayForget(t) /\ core' \in CoreType
<1>1. core' \in CoreType
  BY DEF Inv, Shape
<1>2. \A k \in Owned : ~SeesTo(t, k)
  BY DEF SeesTo
<1>3. \A n \in core.open : ~Closes(t, n)
  BY DEF Closes
<1> QED BY <1>1, <1>2, <1>3 DEF OthersKeep, MayForget

LEMMA QuietGo ==
  ASSUME Inv, kind # "cli", Quiet, registered' \in Modes, core' = core,
         call' \in [Threads -> CallType], NEW t \in Threads, Alone(t), CallInv(t)', SameProbe(t),
         call'[t].pc \notin {"register", "configure"}, InProbe(t)' => core.probeMu = t,
         \A k \in Owned : SeesTo(t, k) /\ Active(k) /\ ~runs[k].cancelled => SeesTo(t, k)',
         \A n \in core.open : Closes(t, n) => Closes(t, n)'
  PROVE  Inv'
<1>1. core' \in CoreType /\ OthersKeep(t)
  BY DEF Inv, Shape, OthersKeep
<1>2. Shape' /\ Later /\ SameRuntimes /\ kind' = kind /\ Owned' = Owned
  BY <1>1, QuietLater
<1>3. LockInv'
  BY <1>1, <1>2, LocksKept DEF Inv
<1>4. ProbeInv'
  <2>1. \A k \in Probes' : k <= Len(runs)
    BY <1>2, Sizes DEF Probes, Owned, Inv
  <2>2. \A k \in Owned :
            (core.probeOlcrtc \/ SeesTo(t, k)) /\ Active(k)' /\ ~runs'[k].cancelled
            => core'.probeOlcrtc \/ SeesTo(t, k)'
    BY DEF Quiet, Active
  <2> QED BY <1>1, <1>2, <2>1, <2>2, ProbesKept DEF Inv
<1>5. XrayInv'
  BY XrayKept DEF Inv
<1> QED BY <1>1, <1>3, <1>4, <1>5, QuietStep

\* A call that has nothing to do with the probe: only what it knows itself can go wrong.
LEMMA PlainGo ==
  ASSUME Inv, kind # "cli", Quiet, registered' = registered, core' = core,
         call' \in [Threads -> CallType], NEW t \in Threads, Alone(t), CallInv(t)',
         call'[t].op = call[t].op, call[t].op \notin {"StartProfileProbeOlcrtc", "StopProfileProbe"},
         call[t].pc \notin {"flagProbe", "closeXray"}, call'[t].pc \notin {"register", "configure"}
  PROVE  Inv'
<1>1. SameProbe(t) /\ ~InProbe(t)' /\ registered' \in Modes
  BY DEF SameProbe, InProbe, Inv, Shape
<1>2. \A k \in Owned : ~SeesTo(t, k)
  BY DEF SeesTo
<1>3. \A n \in core.open : ~Closes(t, n)
  BY DEF Closes
<1> QED BY <1>1, <1>2, <1>3, QuietGo

LEMMA PlainReturn ==
  ASSUME Inv, kind # "cli", Quiet, registered' = registered, core' = core,
         NEW t \in Threads, NEW res, Return(t, res), MayReturn(t, res),
         call[t].pc \notin {"flagProbe", "closeXray"},
         call[t].op = "StopProfileProbe" => call[t].pc \in {"probeLock", "takeProbe"}
  PROVE  Inv'
<1>1. Alone(t) /\ registered' \in Modes
  BY Returns DEF Inv, Shape
<1>2. OthersKeep(t) /\ MayForget(t) /\ core' \in CoreType
  BY <1>1, ForgetsNothing
<1> QED BY <1>1, <1>2, QuietReturn

\* A call enters.
LEMMA EnterKeeps ==
  ASSUME Inv, kind # "cli", NEW t \in Threads, NEW op \in Operations, NEW pc \in Places,
         NEW mode \in Modes \cup {"unknown", "none"}, Enter(t, op, pc, mode),
         UNCHANGED <<core, sup, cyc, main>>, <<op, pc>> \in Points(kind),
         pc \in {"set", "start", "wait", "stop"} => kind = "runtime",
         pc \in {"start", "configure"} => mode = "current",
         pc \in {"set", "start", "wait", "stop", "probe", "probeLock", "checkRunning", "capture",
                 "startXray", "takeXray", "pollXray", "urlTest"},
         op \in {"StartProfileProbeOlcrtc", "StopProfileProbe"} => pc = "probeLock"
  PROVE  Inv'
<1>1. Shape /\ GenInv /\ LockInv /\ call[t] \in CallType /\ call[t].pc = "returned" /\ CallInv(t)
  BY DEF Inv, Shape, Enter, At
<1>2. Quiet /\ registered' = registered /\ core' = core /\ kind' = kind
  BY SameKind DEF Enter, Quiet
<1>3. Len(runs) \in Nat /\ Len(rts) \in Nat /\ DOMAIN runs = 1 .. Len(runs)
  BY <1>1, Sizes
<1> DEFINE c == [NoCall EXCEPT !.op = op, !.pc = pc, !.mode = mode,
                               !.rt = IF kind = "runtime" THEN 1 ELSE 0,
                               !.before = IF op \in Stops THEN Len(runs) ELSE 0]
<1>4. /\ c \in CallType /\ c.op = op /\ c.pc = pc /\ c.mode = mode /\ c.gen = 0 /\ c.inst = 0
      /\ c.rt = (IF kind = "runtime" THEN 1 ELSE 0)
      /\ c.before = (IF op \in Stops THEN Len(runs) ELSE 0) /\ c.stale = FALSE
  BY <1>3 DEF CallType, NoCall
<1>5. call' = [call EXCEPT ![t] = c]
  BY DEF Enter
<1> HIDE DEF c
<1>6. call' \in [Threads -> CallType] /\ call'[t] = c /\ Alone(t)
  BY <1>1, <1>4, <1>5, CallChanges
<1>7. Owned' = Owned
  BY <1>2 DEF Owned, Quiet
<1>8. CallInv(t)'
  <2>1. <<c.op, c.pc>> \in Points(kind')
    BY <1>2, <1>4
  <2>2. c.rt \in 0 .. Len(rts') /\ c.gen \in 0 .. Len(runs') /\ c.before \in 0 .. Len(runs')
    <3>1. Len(rts') = Len(rts) /\ Len(runs') = Len(runs)
      BY <1>2 DEF Quiet
    <3>2. kind = "runtime" => Len(rts) = 1
      BY <1>1 DEF LockInv
    <3>3. c.before \in {0, Len(runs)} /\ c.gen = 0 /\ c.rt \in {0, 1} /\ (c.rt = 1 => kind = "runtime")
      BY <1>4
    <3> QED BY <1>3, <3>1, <3>2, <3>3
  <2>3. c.pc \in {"set", "start", "wait", "stop"} => c.rt # 0
    BY <1>4
  <2>4. c.pc \notin {"waitCheck", "waitSelect", "stopWait", "probeSelect", "probeAction", "probeWait", "returned"}
    BY <1>4
  <2>5. c.pc \in {"start", "configure"} => c.mode \in Modes
    BY <1>4 DEF Modes
  <2>6. c.pc = "stop" => \A k \in Owned : gens[k].rt = c.rt
    <3> SUFFICES ASSUME c.pc = "stop", NEW k \in Owned PROVE gens[k].rt = c.rt
      OBVIOUS
    <3>1. k \in DOMAIN runs /\ gens[k].rt # 0 /\ gens[k].rt \in 0 .. Len(rts)
      BY <1>1 DEF Owned, GenInv
    <3>2. Len(rts) = 1 /\ c.rt = 1
      BY <1>1, <1>4 DEF LockInv
    <3> QED BY <3>1, <3>2
  <2>7. c.op \in Stops =>
         \A k \in Owned' : k <= c.before /\ Active(k)' =>
            /\ c.pc = "stop" => gens'[k].rt = c.rt
            /\ c.pc = "stopWait" => k = c.gen
            /\ c.pc # "returned"
    BY <1>2, <1>7, <2>4, <2>6 DEF Quiet
  <2> QED BY <1>4, <1>6, <2>1, <2>2, <2>3, <2>4, <2>5, <2>7 DEF CallInv
<1>9. SameProbe(t) /\ ~InProbe(t)'
  <2>1. op = "StartProfileProbeOlcrtc" => kind # "runtime"
    BY DEF Points, RuntimePoints
  <2> QED BY <1>4, <1>6, <2>1 DEF SameProbe, InProbe
<1>10. \A k \in Owned : ~SeesTo(t, k)
  BY <1>1 DEF SeesTo
<1>11. \A n \in core.open : ~Closes(t, n)
  BY <1>1 DEF Closes
<1>12. registered' \in Modes /\ call'[t].pc \notin {"register", "configure"}
  BY <1>1, <1>2, <1>4, <1>6 DEF Shape
<1> QED BY <1>2, <1>6, <1>8, <1>9, <1>10, <1>11, <1>12, QuietGo

LEMMA EnterRuntimeKeeps ==
  ASSUME Inv, NEW t \in Threads, EnterRuntime(t), UNCHANGED <<core, sup, cyc, main>>
  PROVE  Inv'
<1>1. kind = "runtime"
  BY DEF EnterRuntime
<1>2. "current" \in Modes \cup {"unknown", "none"}
  BY DEF Modes
<1>3. /\ {"Set", "Start", "WaitReady", "Stop", "Check"} \subseteq Operations
      /\ {"set", "start", "wait", "stop", "probe"} \subseteq Places
  BY DEF Operations, Places
<1>4. \A p \in {<<"Set", "set">>, <<"Start", "start">>, <<"WaitReady", "wait">>,
                <<"Stop", "stop">>, <<"Check", "probe">>} : p \in Points(kind)
  BY <1>1 DEF Points, RuntimePoints
<1>5. \/ Enter(t, "Set", "set", "current") \/ Enter(t, "Start", "start", "current")
      \/ Enter(t, "WaitReady", "wait", "current") \/ Enter(t, "Stop", "stop", "current")
      \/ Enter(t, "Check", "probe", "current")
  BY DEF EnterRuntime
<1> QED BY <1>1, <1>2, <1>3, <1>4, <1>5, EnterKeeps

LEMMA EnterCoreKeeps ==
  ASSUME Inv, NEW t \in Threads, EnterCore(t), UNCHANGED <<sup, cyc, main>>
  PROVE  Inv'
<1>1. kind = "app" /\ UNCHANGED core
  BY DEF EnterCore
<1>2. \A m \in scene.modes : m \in Modes \cup {"unknown", "none"}
  BY RunLifecycleAssumption DEF Inv, Shape
<1>3. /\ {"StartOlcrtc", "StartProfileProbeOlcrtc", "StopOlcrtc", "StopAll", "WaitOlcrtcReady",
           "StopProfileProbe", "StartXray", "StartProfileProbe", "StopXray", "WaitXrayReady",
           "UrlTest", "ProfileProbeUrlTest"} \subseteq Operations
      /\ {"checkRunning", "probeLock", "capture", "startXray", "takeXray", "pollXray", "urlTest"}
           \subseteq Places
  BY DEF Operations, Places
<1>4. \A p \in {<<"StartOlcrtc", "checkRunning">>, <<"StartProfileProbeOlcrtc", "probeLock">>,
                <<"StopOlcrtc", "capture">>, <<"StopAll", "capture">>,
                <<"WaitOlcrtcReady", "capture">>, <<"StopProfileProbe", "probeLock">>,
                <<"StartXray", "startXray">>, <<"StartProfileProbe", "startXray">>,
                <<"StopXray", "takeXray">>, <<"WaitXrayReady", "pollXray">>,
                <<"UrlTest", "urlTest">>, <<"ProfileProbeUrlTest", "urlTest">>} : p \in Points(kind)
  BY <1>1 DEF Points, CorePoints
<1>5. CASE \E mode \in scene.modes : \/ Enter(t, "StartOlcrtc", "checkRunning", mode)
                                     \/ Enter(t, "StartProfileProbeOlcrtc", "probeLock", mode)
  <2>1. PICK mode \in scene.modes : \/ Enter(t, "StartOlcrtc", "checkRunning", mode)
                                    \/ Enter(t, "StartProfileProbeOlcrtc", "probeLock", mode)
    BY <1>5
  <2>2. CASE Enter(t, "StartOlcrtc", "checkRunning", mode)
    BY <1>1, <1>2, <1>3, <1>4, <2>2, EnterKeeps
  <2>3. CASE Enter(t, "StartProfileProbeOlcrtc", "probeLock", mode)
    BY <1>1, <1>2, <1>3, <1>4, <2>3, EnterKeeps
  <2> QED BY <2>1, <2>2, <2>3
<1>6. CASE \/ Enter(t, "StopOlcrtc", "capture", "none") \/ Enter(t, "StopAll", "capture", "none")
           \/ Enter(t, "WaitOlcrtcReady", "capture", "none")
  BY <1>1, <1>3, <1>4, <1>6, EnterKeeps
<1>7. CASE \/ Enter(t, "StopProfileProbe", "probeLock", "none")
           \/ Enter(t, "StartXray", "startXray", "none") \/ Enter(t, "StartProfileProbe", "startXray", "none")
           \/ Enter(t, "StopXray", "takeXray", "none")
  BY <1>1, <1>3, <1>4, <1>7, EnterKeeps
<1>8. CASE \/ Enter(t, "WaitXrayReady", "pollXray", "none")
           \/ Enter(t, "UrlTest", "urlTest", "none") \/ Enter(t, "ProfileProbeUrlTest", "urlTest", "none")
  BY <1>1, <1>3, <1>4, <1>8, EnterKeeps
<1> QED BY <1>5, <1>6, <1>7, <1>8 DEF EnterCore

LEMMA WaitReadyKeeps ==
  ASSUME Inv, kind # "cli", NEW t \in Threads, WaitReady(t), UNCHANGED <<core, sup, cyc, main>>
  PROVE  Inv'
<1>1. Shape /\ GenInv /\ call[t] \in CallType /\ call[t].pc = "wait" /\ CallInv(t)
  BY DEF Inv, Shape, WaitReady, At
<1>2. Quiet /\ registered' = registered /\ kind' = kind
  BY SameKind DEF WaitReady, Quiet
<1>3. call[t].op \in Waits /\ <<call[t].op, "waitCheck">> \in Points(kind) /\ ~call[t].stale
  BY <1>1 DEF CallInv, Points, RuntimePoints, CorePoints, Waits
<1> DEFINE r == call[t].rt
           k == rts[r].current
<1>4. r \in DOMAIN rts /\ k \in 0 .. Len(runs) /\ Len(runs) \in Nat /\ DOMAIN runs = 1 .. Len(runs)
  BY <1>1, Sizes DEF CallInv, GenInv
<1>5. CASE k = 0
  <2>1. Return(t, "notRunning")
    BY <1>5 DEF WaitReady
  <2>2. MayReturn(t, "notRunning")
    BY <1>3 DEF MayReturn, Waits, Stops
  <2> QED BY <1>1, <1>2, <1>3, <2>1, <2>2, PlainReturn DEF Waits
<1>6. CASE k # 0
  <2> DEFINE c == [call[t] EXCEPT !.pc = "waitCheck", !.gen = k, !.stale = gens[k].done]
  <2>1. call' = [call EXCEPT ![t] = c]
    BY <1>6 DEF WaitReady
  <2>2. gens[k].done \in BOOLEAN /\ k \in Nat
    BY <1>1, <1>4, <1>6, Sizes DEF GenInv, GenType
  <2>3. c \in CallType
    BY <1>1, <2>2 DEF CallType, Places
  <2>4. /\ c.pc = "waitCheck" /\ c.gen = k /\ c.op = call[t].op /\ c.rt = call[t].rt
        /\ c.before = call[t].before
    BY <1>1 DEF CallType
  <2>5. c.stale = gens[k].done
    BY <1>1 DEF CallType
  <2> HIDE DEF c
  <2>6. call' \in [Threads -> CallType] /\ call'[t] = c /\ Alone(t)
    BY <1>1, <2>1, <2>3, CallChanges
  <2>7. CallInv(t)'
    <3>1. <<c.op, c.pc>> \in Points(kind')
      BY <1>2, <1>3, <2>4
    <3>2. c.rt \in 0 .. Len(rts') /\ c.gen \in 0 .. Len(runs') /\ c.before \in 0 .. Len(runs') /\ c.gen # 0
      BY <1>1, <1>2, <1>4, <1>6, <2>4 DEF CallInv, Quiet
    <3>3. c.stale => c.pc = "waitCheck" /\ gens'[c.gen].done
      BY <1>2, <2>4, <2>5 DEF Quiet
    <3>4. c.op \notin Stops /\ c.op # "Check"
      BY <1>3, <2>4 DEF Waits, Stops
    <3> QED BY <2>4, <2>6, <3>1, <3>2, <3>3, <3>4 DEF CallInv
  <2> QED BY <1>1, <1>2, <1>3, <2>4, <2>6, <2>7, PlainGo DEF Waits
<1> QED BY <1>5, <1>6

\* What the answer of generationError may be.
LEMMA ErrorIsNoSuccess == \A k : generationError(k) # "nil"
  BY DEF generationError

LEMMA WaitCheckKeeps ==
  ASSUME Inv, kind # "cli", NEW t \in Threads, WaitCheck(t), UNCHANGED <<core, sup, cyc, main>>
  PROVE  Inv'
<1>1. Shape /\ GenInv /\ call[t] \in CallType /\ call[t].pc = "waitCheck" /\ CallInv(t)
  BY DEF Inv, Shape, WaitCheck, At
<1>2. Quiet /\ registered' = registered /\ kind' = kind
  BY SameKind DEF WaitCheck, Quiet
<1>3. call[t].op \in Waits /\ <<call[t].op, "waitSelect">> \in Points(kind)
  BY <1>1 DEF CallInv, Points, RuntimePoints, CorePoints, Waits
<1> DEFINE k == call[t].gen
<1>4. CASE gens[k].done
  <2>1. Return(t, generationError(k)) /\ generationError(k) # "nil"
    BY <1>4, ErrorIsNoSuccess DEF WaitCheck
  <2>2. MayReturn(t, generationError(k))
    BY <1>3, <2>1 DEF MayReturn, Waits, Stops
  <2> QED BY <1>1, <1>2, <1>3, <2>1, <2>2, PlainReturn DEF Waits
<1>5. CASE ~gens[k].done
  <2>1. ~call[t].stale
    BY <1>1, <1>5 DEF CallInv
  <2>2. CASE gens[k].ready
    <3>1. Return(t, "nil")
      BY <1>5, <2>2 DEF WaitCheck
    <3>2. MayReturn(t, "nil")
      BY <1>3, <2>1 DEF MayReturn, Waits, Stops
    <3> QED BY <1>1, <1>2, <1>3, <3>1, <3>2, PlainReturn DEF Waits
  <2>3. CASE ~gens[k].ready
    <3>1. Goto(t, "waitSelect")
      BY <1>5, <2>3 DEF WaitCheck
    <3>2. /\ call' \in [Threads -> CallType] /\ Alone(t) /\ call'[t].pc = "waitSelect"
          /\ call'[t].op = call[t].op /\ call'[t].rt = call[t].rt /\ call'[t].gen = call[t].gen
          /\ call'[t].stale = call[t].stale /\ call'[t].before = call[t].before
      BY <1>1, <3>1, Goes DEF Places
    <3>3. CallInv(t)'
      <4>1. <<call'[t].op, call'[t].pc>> \in Points(kind')
        BY <1>2, <1>3, <3>2
      <4>2. /\ call'[t].rt \in 0 .. Len(rts') /\ call'[t].gen \in 0 .. Len(runs')
            /\ call'[t].before \in 0 .. Len(runs') /\ call'[t].gen # 0
        BY <1>1, <1>2, <3>2 DEF CallInv, Quiet
      <4>3. ~call'[t].stale /\ call'[t].op \notin Stops /\ call'[t].op # "Check"
        BY <1>3, <2>1, <3>2 DEF Waits, Stops
      <4> QED BY <3>2, <4>1, <4>2, <4>3 DEF CallInv
    <3> QED BY <1>1, <1>2, <1>3, <3>2, <3>3, PlainGo DEF Waits
  <2> QED BY <2>2, <2>3
<1> QED BY <1>4, <1>5

LEMMA WaitSelectKeeps ==
  ASSUME Inv, kind # "cli", NEW t \in Threads, WaitSelect(t), UNCHANGED <<core, sup, cyc, main>>
  PROVE  Inv'
<1>1. call[t].pc = "waitSelect" /\ CallInv(t)
  BY DEF Inv, WaitSelect, At
<1>2. Quiet /\ registered' = registered
  BY DEF WaitSelect, Quiet
<1>3. call[t].op \in Waits /\ ~call[t].stale
  BY <1>1 DEF CallInv, Points, RuntimePoints, CorePoints, Waits
<1>4. PICK res : Return(t, res)
  BY DEF WaitSelect
<1>5. MayReturn(t, res)
  BY <1>3 DEF MayReturn, Waits, Stops
<1> QED BY <1>1, <1>2, <1>3, <1>4, <1>5, PlainReturn DEF Waits

LEMMA ProbeWaitKeeps ==
  ASSUME Inv, kind # "cli", NEW t \in Threads, ProbeWait(t), UNCHANGED <<core, sup, cyc, main>>
  PROVE  Inv'
<1>1. call[t].pc = "probeWait" /\ CallInv(t)
  BY DEF Inv, ProbeWait, At
<1>2. Quiet /\ registered' = registered /\ Return(t, call[t].res)
  BY DEF ProbeWait, Quiet
<1>3. call[t].op = "Check"
  BY <1>1 DEF CallInv, Points, RuntimePoints, CorePoints
<1>4. MayReturn(t, call[t].res)
  BY <1>1, <1>2, <1>3 DEF MayReturn, Waits, Stops, CallInv, Quiet
<1> QED BY <1>1, <1>2, <1>3, <1>4, PlainReturn

\* What an owner's run that is active says of its Runtime.
LEMMA ActiveIsCurrent ==
  ASSUME Shape, GenInv, LockInv, kind \in {"runtime", "app"}, NEW k \in Owned, Active(k)
  PROVE  /\ gens[k].rt \in DOMAIN rts /\ rts[gens[k].rt].current = k /\ isActiveLocked(gens[k].rt)
         /\ gens[k].rt = Len(rts)
<1>1. Len(rts) \in Nat /\ DOMAIN rts = 1 .. Len(rts)
  BY Sizes
<1>2. k \in DOMAIN runs /\ gens[k].rt # 0
  BY DEF Owned
<1>3. gens[k].rt \in DOMAIN rts /\ rts[gens[k].rt].current = k /\ isActiveLocked(gens[k].rt)
  BY <1>1, <1>2 DEF GenInv
<1> QED BY <1>1, <1>3 DEF LockInv

LEMMA Kinds == ASSUME Shape PROVE kind \in {"runtime", "app", "cli"}
  BY RunLifecycleAssumption DEF Shape, kind

\* Where a call goes after Stop, when nothing is left that it should have stopped.
LEMMA AfterStopKeeps ==
  ASSUME Inv, kind # "cli", Quiet, registered' = registered, core' = core,
         NEW t \in Threads, NEW res, AfterStop(t, res), call[t].pc \in {"capture", "stop", "stopWait"},
         call[t].op \in Stops \cup {"StopAll", "StopProfileProbe"},
         call[t].op \in Stops /\ res = "nil" => \A k \in Owned : k <= call[t].before => ~Active(k),
         \A k \in Owned : ~(SeesTo(t, k) /\ Active(k) /\ ~runs[k].cancelled)
  PROVE  Inv'
<1>1. Shape /\ GenInv /\ LockInv /\ call[t] \in CallType /\ CallInv(t) /\ kind' = kind /\ registered' \in Modes
  BY SameKind DEF Inv, Shape, Quiet
<1>2. ~call[t].stale
  BY <1>1 DEF CallInv
<1>3. CASE call[t].op \in {"StopAll", "StopProfileProbe"}
  <2> DEFINE p == IF call[t].op = "StopAll" THEN "takeXray" ELSE "closeProbe"
  <2>1. Goto(t, p) /\ p \in Places
    BY <1>3 DEF AfterStop, Places
  <2>2. <<call[t].op, p>> \in Points(kind) /\ p \in {"takeXray", "closeProbe"}
    BY <1>1, <1>3 DEF CallInv, Points, RuntimePoints, CorePoints
  <2> HIDE DEF p
  <2>3. /\ call' \in [Threads -> CallType] /\ Alone(t) /\ call'[t].pc = p
        /\ call'[t].op = call[t].op /\ call'[t].rt = call[t].rt /\ call'[t].gen = call[t].gen
        /\ call'[t].stale = call[t].stale /\ call'[t].before = call[t].before
        /\ call'[t].inst = call[t].inst
    BY <1>1, <2>1, Goes
  <2>4. CallInv(t)'
    <3>1. <<call'[t].op, call'[t].pc>> \in Points(kind')
      BY <1>1, <2>2, <2>3
    <3>2. /\ call'[t].rt \in 0 .. Len(rts') /\ call'[t].gen \in 0 .. Len(runs')
          /\ call'[t].before \in 0 .. Len(runs')
      BY <1>1, <2>3 DEF CallInv, Quiet
    <3>3. ~call'[t].stale /\ call'[t].op \notin Stops /\ call'[t].op # "Check"
      BY <1>2, <1>3, <2>3 DEF Stops
    <3>4. call'[t].pc \in {"takeXray", "closeProbe"}
      BY <2>2, <2>3
    <3> QED BY <3>1, <3>2, <3>3, <3>4 DEF CallInv
  <2>5. SameProbe(t) /\ call'[t].pc \notin {"register", "configure"}
    BY <1>3, <2>2, <2>3 DEF SameProbe
  <2>6. InProbe(t)' => core.probeMu = t
    <3>1. InProbe(t)' => InProbe(t)
      BY <1>3, <2>3 DEF InProbe
    <3> QED BY <1>1, <3>1 DEF LockInv
  <2>7. \A n \in core.open : Closes(t, n) => Closes(t, n)'
    <3> SUFFICES ASSUME NEW n \in core.open, Closes(t, n) PROVE Closes(t, n)'
      OBVIOUS
    <3>1. call[t].op = "StopProfileProbe" /\ call[t].inst = n
      BY DEF Closes
    <3>2. p = "closeProbe"
      BY <3>1 DEF p
    <3> QED BY <2>3, <3>1, <3>2 DEF Closes
  <2> QED BY <1>1, <2>3, <2>4, <2>5, <2>6, <2>7, QuietGo
<1>4. CASE call[t].op \notin {"StopAll", "StopProfileProbe"}
  <2>1. Return(t, res)
    BY <1>4 DEF AfterStop
  <2>2. MayReturn(t, res)
    BY <1>4 DEF MayReturn, Stops, Waits
  <2> QED BY <1>4, <2>1, <2>2, PlainReturn
<1> QED BY <1>3, <1>4

LEMMA StopWaitKeeps ==
  ASSUME Inv, kind # "cli", NEW t \in Threads, StopWait(t), UNCHANGED <<core, sup, cyc, main>>
  PROVE  Inv'
<1>1. Shape /\ GenInv /\ call[t].pc = "stopWait" /\ CallInv(t)
  BY DEF Inv, StopWait, At
<1>2. Quiet /\ registered' = registered
  BY DEF StopWait, Quiet
<1>3. call[t].op \in Stops \cup {"StopAll", "StopProfileProbe"}
  BY <1>1 DEF CallInv, Points, RuntimePoints, CorePoints, Stops
<1>4. \A k \in Owned : ~SeesTo(t, k)
  BY <1>1 DEF SeesTo
<1>5. CASE gens[call[t].gen].done /\ AfterStop(t, "nil")
  <2>1. ASSUME call[t].op \in Stops, NEW k \in Owned, k <= call[t].before
        PROVE  ~Active(k)
    <3>1. Active(k) => k = call[t].gen
      BY <1>1, <2>1 DEF CallInv
    <3>2. gens[k].done => ~Active(k)
      BY <1>1 DEF GenInv, Owned
    <3> QED BY <1>5, <3>1, <3>2
  <2> QED BY <1>1, <1>2, <1>3, <1>4, <1>5, <2>1, AfterStopKeeps
<1>6. CASE AfterStop(t, "timeout")
  BY <1>1, <1>2, <1>3, <1>4, <1>6, AfterStopKeeps
<1> QED BY <1>5, <1>6 DEF StopWait

LEMMA CaptureKeeps ==
  ASSUME Inv, kind # "cli", NEW t \in Threads, Capture(t), UNCHANGED <<sup, cyc, main>>
  PROVE  Inv'
<1>1. Shape /\ GenInv /\ LockInv /\ call[t] \in CallType /\ call[t].pc = "capture" /\ CallInv(t)
  BY DEF Inv, Shape, Capture, At
<1>2. Quiet /\ registered' = registered /\ core' = core /\ kind' = kind /\ registered' \in Modes
  BY <1>1, SameKind DEF Capture, Quiet, Shape
<1>3. /\ call[t].op \in {"StopOlcrtc", "StopAll", "WaitOlcrtcReady", "StopProfileProbe"}
      /\ kind = "app" /\ ~call[t].stale
  BY <1>1, Kinds DEF CallInv, Points, RuntimePoints, CorePoints
<1> DEFINE r == core.olcrtcRuntime
           waits == call[t].op = "WaitOlcrtcReady"
<1>4. r = Len(rts) /\ Len(rts) \in Nat /\ DOMAIN rts = 1 .. Len(rts)
  BY <1>1, <1>3, Sizes DEF LockInv
<1>5. CASE r = 0 /\ waits
  <2>1. Return(t, "notRunning")
    BY <1>5 DEF Capture
  <2>2. MayReturn(t, "notRunning")
    BY <1>5 DEF MayReturn, Waits, Stops
  <2> QED BY <1>1, <1>2, <1>5, <2>1, <2>2, PlainReturn
<1>6. CASE r = 0 /\ ~waits
  <2>1. AfterStop(t, "nil")
    BY <1>6 DEF Capture
  <2>2. \A k \in Owned : FALSE
    BY <1>1, <1>3, <1>4, <1>6 DEF GenInv, Owned
  <2>3. call[t].op \in Stops \cup {"StopAll", "StopProfileProbe"}
    BY <1>3, <1>6 DEF Stops
  <2> QED BY <1>1, <1>2, <2>1, <2>2, <2>3, AfterStopKeeps
<1>7. CASE r # 0
  <2> DEFINE p == IF waits THEN "wait" ELSE "stop"
             c == [call[t] EXCEPT !.rt = r, !.pc = p]
  <2>1. call' = [call EXCEPT ![t] = c]
    BY <1>7 DEF Capture
  <2>2. c \in CallType
    BY <1>1, <1>4 DEF CallType, Places
  <2>3. /\ c.pc = p /\ c.rt = r /\ c.op = call[t].op /\ c.gen = call[t].gen
        /\ c.before = call[t].before /\ c.inst = call[t].inst
    BY <1>1 DEF CallType
  <2>4. ~c.stale
    BY <1>1, <1>3 DEF CallType
  <2> HIDE DEF c
  <2>5. call' \in [Threads -> CallType] /\ call'[t] = c /\ Alone(t)
    BY <1>1, <2>1, <2>2, CallChanges
  <2>6. <<c.op, c.pc>> \in Points(kind)
    BY <1>3, <2>3 DEF Points, CorePoints
  <2>7. CallInv(t)'
    <3>1. <<c.op, c.pc>> \in Points(kind')
      BY <1>2, <2>6
    <3>2. c.rt \in 0 .. Len(rts') /\ c.gen \in 0 .. Len(runs') /\ c.before \in 0 .. Len(runs') /\ c.rt # 0
      BY <1>1, <1>2, <1>4, <1>7, <2>3 DEF CallInv, Quiet
    <3>3. \A k \in Owned' : Active(k)' => gens'[k].rt = c.rt
      <4>1. Owned' = Owned
        BY <1>2 DEF Owned, Quiet
      <4>2. \A k \in Owned : Active(k) => gens[k].rt = r
        BY <1>1, <1>3, <1>4, ActiveIsCurrent
      <4> QED BY <1>2, <2>3, <4>1, <4>2 DEF Quiet, Active
    <3>4. c.op # "Check" /\ c.pc \in {"wait", "stop"}
      BY <1>3, <2>3
    <3> QED BY <2>4, <2>5, <3>1, <3>2, <3>3, <3>4 DEF CallInv
  <2>8. SameProbe(t) /\ call'[t].pc \notin {"register", "configure"}
    BY <1>3, <2>3, <2>5 DEF SameProbe
  <2>9. InProbe(t)' => core.probeMu = t
    <3>1. InProbe(t)' => InProbe(t)
      BY <1>1, <1>3, <2>3, <2>5 DEF InProbe
    <3> QED BY <1>1, <3>1 DEF LockInv
  <2>10. \A k \in Owned : SeesTo(t, k) /\ Active(k) /\ ~runs[k].cancelled => SeesTo(t, k)'
    <3> SUFFICES ASSUME NEW k \in Owned, SeesTo(t, k), Active(k) PROVE SeesTo(t, k)'
      OBVIOUS
    <3>1. call[t].op = "StopProfileProbe" /\ core.probeMu = t
      BY <1>1 DEF SeesTo
    <3>2. gens'[k].rt = r
      BY <1>1, <1>2, <1>3, <1>4, ActiveIsCurrent DEF Quiet
    <3>3. call'[t].op = "StopProfileProbe" /\ call'[t].pc = "stop" /\ call'[t].rt = r
      BY <2>3, <2>5, <3>1
    <3> QED BY <1>2, <3>1, <3>2, <3>3 DEF SeesTo
  <2>11. \A n \in core.open : Closes(t, n) => Closes(t, n)'
    <3> SUFFICES ASSUME NEW n \in core.open, Closes(t, n) PROVE Closes(t, n)'
      OBVIOUS
    <3>1. call[t].op = "StopProfileProbe" /\ call[t].inst = n
      BY <1>1 DEF Closes
    <3> QED BY <2>3, <2>5, <3>1 DEF Closes
  <2> QED BY <1>2, <2>5, <2>7, <2>8, <2>9, <2>10, <2>11, QuietGo
<1> QED BY <1>5, <1>6, <1>7

-----------------------------------------------------------------------------
(* Steps of a call that change a run, a generation or a Runtime.           *)

LEMMA LoudStep ==
  ASSUME Inv, kind # "cli", Shape', GenInv', Later, NEW t \in Threads, Alone(t),
         CallInv(t)', LockInv', ProbeInv', XrayInv'
  PROVE  Inv'
<1>1. CliInv'
  BY CliUntouched DEF Later
<1>2. \A u \in Threads : CallInv(u)'
  BY CallStays DEF Inv, Alone
<1> QED BY <1>1, <1>2 DEF Inv

\* The same for a call that has nothing to do with the probe and leaves the core alone.
LEMMA LoudPlain ==
  ASSUME Inv, kind # "cli", Shape', GenInv', Later, SameRuntimes, core' = core,
         NEW t \in Threads, Alone(t), CallInv(t)', SameProbe(t),
         \A k \in Probes' : k <= Len(runs),
         call[t].op \notin {"StartProfileProbeOlcrtc", "StopProfileProbe"},
         call[t].pc \notin {"flagProbe", "closeXray"},
         call'[t].pc \notin {"register", "configure"}, ~InProbe(t)'
  PROVE  Inv'
<1>1. OthersKeep(t)
  BY DEF OthersKeep
<1>2. LockInv'
  BY <1>1, LocksKept DEF Inv
<1>3. ProbeInv'
  <2>1. \A k \in Owned : ~SeesTo(t, k)
    BY DEF SeesTo
  <2>2. \A k \in Owned :
            (core.probeOlcrtc \/ SeesTo(t, k)) /\ Active(k)' /\ ~runs'[k].cancelled
            => core'.probeOlcrtc \/ SeesTo(t, k)'
    BY <2>1
  <2> QED BY <1>1, <2>2, ProbesKept DEF Inv
<1>4. XrayInv'
  <2>1. \A n \in core.open : ~Closes(t, n)
    BY DEF Closes
  <2> QED BY <2>1, XrayKept DEF Inv
<1> QED BY <1>2, <1>3, <1>4, LoudStep

LEMMA SetKeeps ==
  ASSUME Inv, kind # "cli", NEW t \in Threads, Set(t), UNCHANGED <<core, sup, cyc, main>>
  PROVE  Inv'
<1>1. Shape /\ GenInv /\ call[t] \in CallType /\ call[t].pc = "set" /\ CallInv(t)
  BY DEF Inv, Shape, Set, At
<1>2. call[t].op = "Set"
  BY <1>1 DEF CallInv, Points, RuntimePoints, CorePoints
<1> DEFINE r == call[t].rt
<1>3. r \in DOMAIN rts /\ rts[r] \in RtType
  BY <1>1, Sizes DEF CallInv
<1>4. UNCHANGED <<scene, runs, registered, gens, core, sup, cyc, main>> /\ kind' = kind
  BY SameKind DEF Set
<1>5. PICK res : Return(t, res)
  BY DEF Set
<1>6. MayReturn(t, res)
  BY <1>2 DEF MayReturn, Waits, Stops
<1>7. CASE rts' = rts
  BY <1>1, <1>2, <1>4, <1>5, <1>6, <1>7, PlainReturn DEF Quiet
<1>8. CASE \E name \in Required : rts' = [rts EXCEPT ![r].set = @ \cup {name}]
  <2>1. PICK name \in Required : rts' = [rts EXCEPT ![r].set = @ \cup {name}]
    BY <1>8
  <2> DEFINE rt == [rts[r] EXCEPT !.set = @ \cup {name}]
  <2>2. rt \in RtType /\ rt.state = rts[r].state /\ rt.current = rts[r].current
    BY <1>3 DEF RtType
  <2>3. rts' = [rts EXCEPT ![r] = rt]
    BY <2>1
  <2> HIDE DEF rt
  <2>4. /\ rts' \in Seq(RtType) /\ Len(rts') = Len(rts) /\ rts'[r] = rt
        /\ \A q \in DOMAIN rts : q # r => rts'[q] = rts[q]
    BY <1>1, <1>3, <2>2, <2>3, RtChanges
  <2>5. \A q \in DOMAIN rts : rts'[q].state = rts[q].state /\ rts'[q].current = rts[q].current
    BY <2>2, <2>4
  <2>6. /\ call' \in [Threads -> CallType] /\ Alone(t) /\ call'[t].pc = "returned"
        /\ call'[t].op \in {"none", "Set"}
        /\ call'[t].op \in {"none", "Check", "StartProfileProbeOlcrtc"} \cup Waits \cup Stops
    BY <1>1, <1>2, <1>5, Returns
  <2>7. Shape'
    BY <1>1, <1>4, <2>4, <2>6 DEF Shape, SupType, Profiles
  <2>8. DOMAIN rts' = DOMAIN rts /\ DOMAIN rts = 1 .. Len(rts) /\ Len(rts) \in Nat /\ Len(runs) \in Nat
    BY <1>1, <2>4, <2>7, Sizes
  <2>9. Later
    BY <1>4, <2>4, <2>8 DEF Later, Active
  <2>10. SameRuntimes
    BY <1>4, <2>4, <2>5 DEF SameRuntimes, isActiveLocked
  <2>11. GenInv'
    <3>1. ASSUME NEW k \in DOMAIN runs, gens[k].rt # 0, ~gens[k].finished
          PROVE  rts'[gens[k].rt].current = k /\ rts'[gens[k].rt].state \in {"starting", "running", "stopping"}
      <4>1. gens[k].rt \in DOMAIN rts /\ rts[gens[k].rt].current = k /\ isActiveLocked(gens[k].rt)
        BY <1>1, <2>8, <3>1 DEF GenInv
      <4> QED BY <2>5, <4>1 DEF isActiveLocked
    <3> QED BY <1>1, <1>4, <2>4, <2>5, <2>8, <3>1 DEF GenInv, Active, isActiveLocked
  <2>12. CallInv(t)'
    BY <1>1, <1>5, <1>6, <2>7, <2>9, ReturnedCall
  <2>13. SameProbe(t) /\ ~InProbe(t)'
    BY <2>6 DEF SameProbe, InProbe
  <2>14. \A k \in Probes' : k <= Len(runs)
    BY <1>4, <2>7, Sizes DEF Probes, Owned
  <2> QED BY <1>1, <1>2, <1>4, <2>6, <2>7, <2>9, <2>10, <2>11, <2>12, <2>13, <2>14, LoudPlain
<1> QED BY <1>7, <1>8 DEF Set

\* A run is cancelled, by its owner or by the Check that started it.
LEMMA CancelRun ==
  ASSUME Inv, kind # "cli", NEW k \in DOMAIN runs, Cancelled(k), UNCHANGED <<scene, gens, rts>>
  PROVE  /\ runs' \in Seq(RunType) /\ Len(runs') = Len(runs) /\ DOMAIN runs' = DOMAIN runs
         /\ runs'[k].cancelled /\ GenInv' /\ Later /\ SameRuntimes
<1>1. Shape /\ GenInv /\ runs[k] \in RunType
  BY Sizes DEF Inv
<1> DEFINE run == [runs[k] EXCEPT !.cancelled = TRUE]
<1>2. run \in RunType /\ run.phase = runs[k].phase
  BY <1>1 DEF RunType
<1>3. run.cancelled
  BY <1>1 DEF RunType
<1>4. runs' = [runs EXCEPT ![k] = run]
  BY DEF Cancelled
<1> HIDE DEF run
<1>5. /\ runs' \in Seq(RunType) /\ Len(runs') = Len(runs) /\ runs'[k] = run
      /\ \A j \in DOMAIN runs : j # k => runs'[j] = runs[j]
  BY <1>1, <1>2, <1>4, RunChanges
<1>6. DOMAIN runs' = DOMAIN runs /\ DOMAIN runs = 1 .. Len(runs) /\ Len(runs) \in Nat /\ Len(rts) \in Nat
  BY <1>1, <1>5, Sizes, LenProperties
<1>7. \A j \in DOMAIN runs : /\ runs'[j].phase = runs[j].phase
                             /\ runs[j].cancelled => runs'[j].cancelled
  BY <1>2, <1>3, <1>5
<1>8. Later
  BY <1>5, <1>6, <1>7 DEF Later, Active
<1>9. SameRuntimes
  BY DEF SameRuntimes, isActiveLocked
<1>10. GenInv'
  <2>1. kind' = kind
    BY SameKind
  <2>2. \A r \in DOMAIN rts : rts[r].state = "stopping" => runs'[rts[r].current].cancelled
    <3> SUFFICES ASSUME NEW r \in DOMAIN rts, rts[r].state = "stopping" PROVE runs'[rts[r].current].cancelled
      OBVIOUS
    <3>1. rts[r].current \in DOMAIN runs /\ runs[rts[r].current].cancelled
      BY <1>1, <1>6 DEF GenInv, isActiveLocked
    <3> QED BY <1>7, <3>1
  <2> QED BY <1>1, <1>5, <1>6, <1>7, <2>1, <2>2 DEF GenInv, Active, isActiveLocked
<1> QED BY <1>3, <1>5, <1>6, <1>8, <1>9, <1>10

\* A Check goes to its last wait once its client is cancelled.
LEMMA ToProbeWait ==
  ASSUME Inv, kind # "cli", NEW t \in Threads, call[t].pc \in {"probeSelect", "probeAction"},
         Cancelled(call[t].gen), NEW res \in {"timeout", "latency", "error"},
         call' = [call EXCEPT ![t].pc = "probeWait", ![t].res = res],
         UNCHANGED <<scene, registered, rts, gens, core, sup, cyc, main>>
  PROVE  Inv'
<1>1. Shape /\ GenInv /\ call[t] \in CallType /\ CallInv(t) /\ kind' = kind
  BY SameKind DEF Inv, Shape
<1>2. call[t].op = "Check" /\ <<"Check", "probeWait">> \in Points(kind) /\ ~call[t].stale
  BY <1>1 DEF CallInv, Points, RuntimePoints, CorePoints
<1>3. call[t].gen \in DOMAIN runs /\ call[t].gen # 0 /\ call[t].gen \in Nat
  BY <1>1, Sizes DEF CallInv
<1>4. /\ runs' \in Seq(RunType) /\ Len(runs') = Len(runs) /\ DOMAIN runs' = DOMAIN runs
      /\ runs'[call[t].gen].cancelled /\ GenInv' /\ Later /\ SameRuntimes
  BY <1>3, CancelRun
<1> DEFINE c == [call[t] EXCEPT !.pc = "probeWait", !.res = res]
<1>5. call' = [call EXCEPT ![t] = c]
  OBVIOUS
<1>6. c \in CallType
  BY <1>1 DEF CallType, Places
<1>7. /\ c.pc = "probeWait" /\ c.rt = call[t].rt /\ c.op = call[t].op /\ c.gen = call[t].gen
      /\ c.before = call[t].before /\ c.stale = call[t].stale
  BY <1>1 DEF CallType
<1> HIDE DEF c
<1>8. call' \in [Threads -> CallType] /\ call'[t] = c /\ Alone(t)
  BY <1>1, <1>5, <1>6, CallChanges
<1>9. Shape'
  BY <1>1, <1>4, <1>8 DEF Shape, SupType, Profiles
<1>10. CallInv(t)'
  <2>1. <<c.op, c.pc>> \in Points(kind')
    BY <1>1, <1>2, <1>7
  <2>2. c.rt \in 0 .. Len(rts') /\ c.gen \in 0 .. Len(runs') /\ c.before \in 0 .. Len(runs') /\ c.gen # 0
    BY <1>1, <1>3, <1>4, <1>7 DEF CallInv
  <2>3. ~c.stale /\ c.op \notin Stops /\ runs'[c.gen].cancelled
    BY <1>2, <1>4, <1>7 DEF Stops
  <2> QED BY <1>7, <1>8, <2>1, <2>2, <2>3 DEF CallInv
<1>11. SameProbe(t) /\ ~InProbe(t)' /\ call'[t].pc \notin {"register", "configure"}
  BY <1>2, <1>7, <1>8 DEF SameProbe, InProbe
<1>12. \A k \in Probes' : k <= Len(runs)
  BY <1>4, <1>9, Sizes DEF Probes, Owned
<1> QED BY <1>2, <1>4, <1>8, <1>9, <1>10, <1>11, <1>12, LoudPlain

LEMMA ProbeActionKeeps ==
  ASSUME Inv, kind # "cli", NEW t \in Threads, ProbeAction(t), UNCHANGED <<core, sup, cyc, main>>
  PROVE  Inv'
<1>1. call[t].pc = "probeAction" /\ Cancelled(call[t].gen) /\ UNCHANGED <<scene, registered, rts, gens>>
  BY DEF ProbeAction, At
<1>2. PICK res \in {"latency", "error"} : call' = [call EXCEPT ![t].pc = "probeWait", ![t].res = res]
  BY DEF ProbeAction
<1> QED BY <1>1, <1>2, ToProbeWait

LEMMA ProbeSelectKeeps ==
  ASSUME Inv, kind # "cli", NEW t \in Threads, ProbeSelect(t), UNCHANGED <<core, sup, cyc, main>>
  PROVE  Inv'
<1>1. Shape /\ GenInv /\ call[t] \in CallType /\ CallInv(t) /\ call[t].pc = "probeSelect"
  BY DEF Inv, Shape, ProbeSelect, At
<1>2. call[t].op = "Check" /\ <<"Check", "probeAction">> \in Points(kind) /\ ~call[t].stale
  BY <1>1 DEF CallInv, Points, RuntimePoints, CorePoints
<1> DEFINE k == call[t].gen
<1>3. k \in DOMAIN runs /\ k # 0
  BY <1>1, Sizes DEF CallInv
<1>4. UNCHANGED <<scene, registered, rts, gens, core, sup, cyc, main>> /\ kind' = kind
  BY SameKind DEF ProbeSelect
<1>5. CASE runs' = runs /\ Goto(t, "probeAction")
  <2>1. Quiet
    BY <1>4, <1>5 DEF Quiet
  <2>2. /\ call' \in [Threads -> CallType] /\ Alone(t) /\ call'[t].pc = "probeAction"
        /\ call'[t].op = call[t].op /\ call'[t].rt = call[t].rt /\ call'[t].gen = call[t].gen
        /\ call'[t].stale = call[t].stale /\ call'[t].before = call[t].before
    BY <1>1, <1>5, Goes DEF Places
  <2>3. CallInv(t)'
    <3>1. <<call'[t].op, call'[t].pc>> \in Points(kind')
      BY <1>2, <1>4, <2>2
    <3>2. /\ call'[t].rt \in 0 .. Len(rts') /\ call'[t].gen \in 0 .. Len(runs')
          /\ call'[t].before \in 0 .. Len(runs') /\ call'[t].gen # 0
      BY <1>1, <1>3, <2>1, <2>2 DEF CallInv, Quiet
    <3>3. ~call'[t].stale /\ call'[t].op \notin Stops
      BY <1>2, <2>2 DEF Stops
    <3> QED BY <2>2, <3>1, <3>2, <3>3 DEF CallInv
  <2> QED BY <1>1, <1>2, <1>4, <2>1, <2>2, <2>3, PlainGo
<1>6. CASE Cancelled(k) /\ \E res : Return(t, res)
  <2>1. PICK res : Return(t, res)
    BY <1>6
  <2>2. /\ runs' \in Seq(RunType) /\ Len(runs') = Len(runs) /\ DOMAIN runs' = DOMAIN runs
        /\ runs'[k].cancelled /\ GenInv' /\ Later /\ SameRuntimes
    BY <1>3, <1>4, <1>6, CancelRun
  <2>3. /\ call' \in [Threads -> CallType] /\ Alone(t) /\ call'[t].pc = "returned"
        /\ call'[t].op \in {"none", "Check"}
    BY <1>1, <1>2, <2>1, Returns
  <2>4. Shape'
    BY <1>1, <1>4, <2>2, <2>3 DEF Shape, SupType, Profiles
  <2>5. MayReturn(t, res)
    BY <1>2, <2>2 DEF MayReturn, Waits, Stops
  <2>6. CallInv(t)'
    BY <1>1, <2>1, <2>2, <2>4, <2>5, ReturnedCall
  <2>7. SameProbe(t) /\ ~InProbe(t)' /\ call'[t].pc \notin {"register", "configure"}
    BY <2>3 DEF SameProbe, InProbe
  <2>8. \A j \in Probes' : j <= Len(runs)
    BY <2>2, <2>4, Sizes DEF Probes, Owned
  <2> QED BY <1>1, <1>2, <1>4, <2>2, <2>3, <2>4, <2>6, <2>7, <2>8, LoudPlain
<1>7. CASE Cancelled(k) /\ call' = [call EXCEPT ![t].pc = "probeWait", ![t].res = "timeout"]
  BY <1>1, <1>4, <1>7, ToProbeWait
<1> QED BY <1>5, <1>6, <1>7 DEF ProbeSelect

\* A new run is the last one, and everything else is as before.
LEMMA LaunchLater ==
  ASSUME Inv, kind # "cli", NEW r \in Nat, NEW mode \in Modes, Launch(r, mode), UNCHANGED scene,
         Len(rts') \in Nat, Len(rts) <= Len(rts')
  PROVE  /\ runs' \in Seq(RunType) /\ gens' \in Seq(GenType)
         /\ Len(runs') = Len(runs) + 1 /\ Len(gens') = Len(runs')
         /\ DOMAIN runs' = 1 .. (Len(runs) + 1) /\ DOMAIN runs = 1 .. Len(runs) /\ Len(runs) \in Nat
         /\ \A k \in DOMAIN runs : runs'[k] = runs[k] /\ gens'[k] = gens[k]
         /\ runs'[Len(runs) + 1].phase = "launched" /\ ~runs'[Len(runs) + 1].cancelled
         /\ gens'[Len(runs) + 1] = NewGeneration(r)
         /\ Later
<1>1. Shape /\ GenInv
  BY DEF Inv
<1>2. /\ Len(runs) \in Nat /\ DOMAIN runs = 1 .. Len(runs) /\ Len(gens) = Len(runs)
      /\ DOMAIN gens = DOMAIN runs
  BY <1>1, Sizes DEF GenInv
<1>3. /\ runs' \in Seq(RunType) /\ Len(runs') = Len(runs) + 1
      /\ gens' \in Seq(GenType) /\ Len(gens') = Len(gens) + 1
      /\ runs'[Len(runs) + 1] = NewRun(mode, "launched", FALSE)
      /\ gens'[Len(gens) + 1] = NewGeneration(r)
      /\ \A j \in DOMAIN runs : runs'[j] = runs[j]
      /\ \A j \in DOMAIN gens : gens'[j] = gens[j]
  BY <1>1, RunLaunched
<1>4. DOMAIN runs' = 1 .. (Len(runs) + 1)
  BY <1>3, LenProperties
<1>5. runs'[Len(runs) + 1].phase = "launched" /\ ~runs'[Len(runs) + 1].cancelled
  BY <1>3 DEF NewRun
<1>6. Later
  BY <1>2, <1>3 DEF Later, Active
<1> QED BY <1>2, <1>3, <1>4, <1>5, <1>6

LEMMA ProbeStartKeeps ==
  ASSUME Inv, kind # "cli", NEW t \in Threads, ProbeStart(t), UNCHANGED <<core, sup, cyc, main>>
  PROVE  Inv'
<1>1. Shape /\ GenInv /\ call[t] \in CallType /\ CallInv(t) /\ call[t].pc = "probe"
  BY DEF Inv, Shape, ProbeStart, At
<1>2. call[t].op = "Check" /\ <<"Check", "probeSelect">> \in Points(kind) /\ ~call[t].stale /\ call[t].gen = 0
  BY <1>1 DEF CallInv, Points, RuntimePoints, CorePoints
<1>3. UNCHANGED <<scene, registered, rts, core, sup, cyc, main>> /\ kind' = kind
  BY SameKind DEF ProbeStart
<1>4. CASE Return(t, "invalid") /\ UNCHANGED <<runs, gens>>
  <2>1. MayReturn(t, "invalid")
    BY <1>2 DEF MayReturn, Waits, Stops
  <2> QED BY <1>1, <1>2, <1>3, <1>4, <2>1, PlainReturn DEF Quiet
<1>5. CASE Launch(0, "current") /\ call' = [call EXCEPT ![t].pc = "probeSelect", ![t].gen = Len(runs) + 1]
  <2> DEFINE n == Len(runs) + 1
  <2>1. /\ runs' \in Seq(RunType) /\ gens' \in Seq(GenType)
        /\ Len(runs') = n /\ Len(gens') = Len(runs')
        /\ DOMAIN runs' = 1 .. n /\ DOMAIN runs = 1 .. Len(runs) /\ Len(runs) \in Nat
        /\ \A k \in DOMAIN runs : runs'[k] = runs[k] /\ gens'[k] = gens[k]
        /\ gens'[n] = NewGeneration(0) /\ Later
    <3>1. Len(rts) \in Nat /\ "current" \in Modes
      BY <1>1, Sizes DEF Modes
    <3>2. Len(rts') \in Nat /\ Len(rts) <= Len(rts') /\ UNCHANGED scene /\ Launch(0, "current")
      BY <1>3, <1>5, <3>1
    <3> QED BY <3>1, <3>2, LaunchLater
  <2> DEFINE c == [call[t] EXCEPT !.pc = "probeSelect", !.gen = n]
  <2>2. call' = [call EXCEPT ![t] = c]
    BY <1>5
  <2>3. c \in CallType
    <3>1. n \in Nat
      BY <2>1
    <3> HIDE DEF n
    <3> QED BY <1>1, <3>1 DEF CallType, Places
  <2>4. /\ c.pc = "probeSelect" /\ c.rt = call[t].rt /\ c.op = call[t].op /\ c.gen = n
        /\ c.before = call[t].before /\ c.stale = call[t].stale
    BY <1>1 DEF CallType
  <2> HIDE DEF c
  <2>5. call' \in [Threads -> CallType] /\ call'[t] = c /\ Alone(t)
    BY <1>1, <2>2, <2>3, CallChanges
  <2>6. Shape'
    BY <1>1, <1>3, <2>1, <2>5 DEF Shape, SupType, Profiles
  <2>7. gens'[n].rt = 0 /\ ~gens'[n].finished /\ ~gens'[n].done
    BY <2>1 DEF NewGeneration
  <2>8. GenInv'
    <3>1. ASSUME NEW k \in 1 .. n
          PROVE  /\ gens'[k].rt \in 0 .. Len(rts')
                 /\ gens'[k].finished => ~Active(k)'
                 /\ gens'[k].done => gens'[k].finished
                 /\ gens'[k].rt # 0 /\ ~gens'[k].finished =>
                      /\ rts'[gens'[k].rt].current = k
                      /\ rts'[gens'[k].rt].state \in {"starting", "running", "stopping"}
      <4>1. CASE k = n
        BY <1>1, <1>3, <2>7, <4>1, Sizes
      <4>2. CASE k # n
        <5>1. k \in DOMAIN runs /\ gens'[k] = gens[k] /\ runs'[k] = runs[k]
          BY <2>1, <3>1, <4>2
        <5> QED BY <1>1, <1>3, <5>1 DEF GenInv, Active, isActiveLocked
      <4> QED BY <4>1, <4>2
    <3>2. ASSUME NEW r \in DOMAIN rts
          PROVE  /\ rts'[r].current \in 0 .. Len(runs')
                 /\ isActiveLocked(r)' => rts'[r].current # 0
                 /\ rts'[r].current # 0 => gens'[rts'[r].current].rt = r
                 /\ rts'[r].state = "stopping" => runs'[rts'[r].current].cancelled
      <4>1. /\ rts[r].current \in 0 .. Len(runs)
            /\ isActiveLocked(r) => rts[r].current # 0
            /\ rts[r].current # 0 => gens[rts[r].current].rt = r
            /\ rts[r].state = "stopping" => runs[rts[r].current].cancelled /\ isActiveLocked(r)
        BY <1>1 DEF GenInv, isActiveLocked
      <4>2. rts[r].current # 0 => rts[r].current \in DOMAIN runs
        BY <2>1, <4>1
      <4> QED BY <1>3, <2>1, <4>1, <4>2 DEF isActiveLocked
    <3> QED BY <1>3, <2>1, <3>1, <3>2 DEF GenInv, isActiveLocked
  <2>9. CallInv(t)'
    <3>1. <<c.op, c.pc>> \in Points(kind')
      BY <1>2, <1>3, <2>4
    <3>2. c.rt \in 0 .. Len(rts') /\ c.gen \in 0 .. Len(runs') /\ c.before \in 0 .. Len(runs') /\ c.gen # 0
      BY <1>1, <1>3, <2>1, <2>4 DEF CallInv
    <3>3. ~c.stale /\ c.op \notin Stops
      BY <1>2, <2>4 DEF Stops
    <3> QED BY <2>4, <2>5, <3>1, <3>2, <3>3 DEF CallInv
  <2>10. SameProbe(t) /\ ~InProbe(t)' /\ call'[t].pc \notin {"register", "configure"}
    BY <1>2, <2>4, <2>5 DEF SameProbe, InProbe
  <2>11. \A k \in Probes' : k <= Len(runs)
    <3> SUFFICES ASSUME NEW k \in Probes' PROVE k <= Len(runs)
      OBVIOUS
    <3>1. k \in 1 .. n /\ gens'[k].rt # 0
      BY <1>3, <2>1 DEF Probes, Owned
    <3> QED BY <2>1, <2>7, <3>1
  <2>12. SameRuntimes
    BY <1>3 DEF SameRuntimes, isActiveLocked
  <2> QED BY <1>1, <1>2, <1>3, <2>1, <2>5, <2>6, <2>8, <2>9, <2>10, <2>11, <2>12, LoudPlain
<1> QED BY <1>4, <1>5 DEF ProbeStart

\* A Runtime that is not active gets a new generation.
LEMMA LaunchOwned ==
  ASSUME Inv, kind # "cli", NEW r \in DOMAIN rts, ~isActiveLocked(r), NEW mode \in Modes, Launch(r, mode),
         NEW rt \in RtType, rts' = [rts EXCEPT ![r] = rt], rt.state = "starting",
         rt.current = Len(runs) + 1, UNCHANGED scene
  PROVE  /\ runs' \in Seq(RunType) /\ gens' \in Seq(GenType) /\ rts' \in Seq(RtType)
         /\ DOMAIN runs' = 1 .. (Len(runs) + 1) /\ Len(runs) \in Nat
         /\ gens'[Len(runs) + 1].rt = r
         /\ Len(rts') = Len(rts) /\ \A q \in DOMAIN rts : q # r => rts'[q] = rts[q]
         /\ GenInv' /\ Later
<1>1. Shape /\ GenInv
  BY DEF Inv
<1>2. /\ rts' \in Seq(RtType) /\ Len(rts') = Len(rts) /\ rts'[r] = rt
      /\ \A q \in DOMAIN rts : q # r => rts'[q] = rts[q]
  BY <1>1, RtChanges
<1>3. Len(rts) \in Nat /\ DOMAIN rts = 1 .. Len(rts) /\ DOMAIN rts' = DOMAIN rts /\ r \in Nat /\ r # 0
  BY <1>1, <1>2, Sizes, LenProperties
<1> DEFINE n == Len(runs) + 1
<1>4. /\ runs' \in Seq(RunType) /\ gens' \in Seq(GenType)
      /\ Len(runs') = n /\ Len(gens') = Len(runs')
      /\ DOMAIN runs' = 1 .. n /\ DOMAIN runs = 1 .. Len(runs) /\ Len(runs) \in Nat
      /\ \A k \in DOMAIN runs : runs'[k] = runs[k] /\ gens'[k] = gens[k]
      /\ runs'[n].phase = "launched"
      /\ gens'[n] = NewGeneration(r) /\ Later
  BY <1>2, <1>3, LaunchLater
<1>5. gens'[n].rt = r /\ ~gens'[n].finished /\ ~gens'[n].done
  BY <1>4 DEF NewGeneration
<1>6. kind' = kind
  BY SameKind
<1>7. ASSUME NEW k \in 1 .. n
      PROVE  /\ gens'[k].rt \in 0 .. Len(rts')
             /\ gens'[k].finished => ~Active(k)'
             /\ gens'[k].done => gens'[k].finished
             /\ gens'[k].rt # 0 /\ ~gens'[k].finished =>
                  /\ rts'[gens'[k].rt].current = k
                  /\ rts'[gens'[k].rt].state \in {"starting", "running", "stopping"}
  <2>1. CASE k = n
    BY <1>2, <1>3, <1>5, <2>1
  <2>2. CASE k # n
    <3>1. k \in DOMAIN runs /\ gens'[k] = gens[k] /\ runs'[k] = runs[k]
      BY <1>4, <1>7, <2>2
    <3>2. /\ gens[k].rt \in 0 .. Len(rts) /\ (gens[k].finished => ~Active(k))
          /\ (gens[k].done => gens[k].finished)
      BY <1>1, <3>1 DEF GenInv
    <3>3. ASSUME gens[k].rt # 0, ~gens[k].finished
          PROVE  rts'[gens[k].rt].current = k /\ rts'[gens[k].rt].state \in {"starting", "running", "stopping"}
      <4>1. gens[k].rt \in DOMAIN rts /\ rts[gens[k].rt].current = k /\ isActiveLocked(gens[k].rt)
        BY <1>1, <1>3, <3>1, <3>2, <3>3 DEF GenInv
      <4>2. gens[k].rt # r
        BY <4>1
      <4> QED BY <1>2, <4>1, <4>2 DEF isActiveLocked
    <3> QED BY <1>2, <3>1, <3>2, <3>3 DEF Active
  <2> QED BY <2>1, <2>2
<1>8. ASSUME NEW q \in DOMAIN rts
      PROVE  /\ rts'[q].current \in 0 .. Len(runs')
             /\ isActiveLocked(q)' => rts'[q].current # 0
             /\ rts'[q].current # 0 => gens'[rts'[q].current].rt = q
             /\ rts'[q].state = "stopping" => runs'[rts'[q].current].cancelled
  <2>1. CASE q = r
    BY <1>2, <1>4, <1>5, <2>1
  <2>2. CASE q # r
    <3>1. /\ rts[q].current \in 0 .. Len(runs)
          /\ isActiveLocked(q) => rts[q].current # 0
          /\ rts[q].current # 0 => gens[rts[q].current].rt = q
          /\ rts[q].state = "stopping" => runs[rts[q].current].cancelled /\ isActiveLocked(q)
      BY <1>1 DEF GenInv, isActiveLocked
    <3>2. rts[q].current # 0 => rts[q].current \in DOMAIN runs
      BY <1>4, <3>1
    <3>3. rts'[q] = rts[q]
      BY <1>2, <2>2
    <3> QED BY <1>4, <3>1, <3>2, <3>3 DEF isActiveLocked
  <2> QED BY <2>1, <2>2
<1>9. GenInv'
  BY <1>3, <1>4, <1>6, <1>7, <1>8 DEF GenInv, isActiveLocked
<1> QED BY <1>2, <1>4, <1>5, <1>9

LEMMA StartKeeps ==
  ASSUME Inv, NEW t \in Threads, Start(t), UNCHANGED <<core, sup, cyc, main>>
  PROVE  Inv'
<1>1. Shape /\ GenInv /\ LockInv /\ call[t] \in CallType /\ CallInv(t) /\ call[t].pc = "start" /\ kind = "runtime"
  BY DEF Inv, Shape, Start, At
<1>2. call[t].op = "Start" /\ call[t].mode \in Modes
  BY <1>1 DEF CallInv, Points, RuntimePoints, CorePoints
<1> DEFINE r == call[t].rt
<1>3. r \in DOMAIN rts /\ rts[r] \in RtType /\ Len(runs) \in Nat
  BY <1>1, Sizes DEF CallInv
<1>4. UNCHANGED <<scene, registered, core, sup, cyc, main>> /\ kind' = kind
  BY SameKind DEF Start
<1>5. CASE isActiveLocked(r) \/ ~validateRuntimeConfig(r)
  <2>1. Return(t, "refused") /\ UNCHANGED <<runs, gens, rts>>
    BY <1>5 DEF Start
  <2>2. MayReturn(t, "refused")
    BY <1>2 DEF MayReturn, Waits, Stops
  <2> QED BY <1>1, <1>2, <1>4, <2>1, <2>2, PlainReturn DEF Quiet
<1>6. CASE ~isActiveLocked(r) /\ validateRuntimeConfig(r)
  <2> DEFINE rt == [rts[r] EXCEPT !.state = "starting", !.current = Len(runs) + 1]
  <2>1. /\ Launch(r, call[t].mode) /\ Return(t, "nil") /\ rts' = [rts EXCEPT ![r] = rt]
    BY <1>6 DEF Start
  <2>2. rt \in RtType /\ rt.state = "starting" /\ rt.current = Len(runs) + 1
    <3>1. Len(runs) + 1 \in Nat
      BY <1>3
    <3> QED BY <1>3, <3>1 DEF RtType
  <2> HIDE DEF rt
  <2>3. /\ runs' \in Seq(RunType) /\ gens' \in Seq(GenType) /\ rts' \in Seq(RtType)
        /\ DOMAIN runs' = 1 .. (Len(runs) + 1) /\ gens'[Len(runs) + 1].rt = r
        /\ Len(rts') = Len(rts) /\ \A q \in DOMAIN rts : q # r => rts'[q] = rts[q]
        /\ GenInv' /\ Later
    BY <1>1, <1>2, <1>3, <1>4, <1>6, <2>1, <2>2, LaunchOwned
  <2>4. /\ call' \in [Threads -> CallType] /\ Alone(t) /\ call'[t].pc = "returned"
        /\ call'[t].op \in {"none", "Start"}
    BY <1>1, <1>2, <2>1, Returns
  <2>5. Shape'
    BY <1>1, <1>4, <2>3, <2>4 DEF Shape, SupType, Profiles
  <2>6. MayReturn(t, "nil")
    BY <1>2 DEF MayReturn, Waits, Stops
  <2>7. CallInv(t)'
    BY <1>1, <2>1, <2>3, <2>5, <2>6, ReturnedCall
  <2>8. \A u \in Threads : /\ <<call'[u].op, call'[u].pc>> \in Points("runtime")
                           /\ call'[u].pc \notin {"register", "configure"} /\ ~InProbe(u)'
                           /\ call'[u].op # "StartProfileProbeOlcrtc"
    <3> SUFFICES ASSUME NEW u \in Threads
                 PROVE  /\ <<call'[u].op, call'[u].pc>> \in Points("runtime")
                        /\ call'[u].pc \notin {"register", "configure"} /\ ~InProbe(u)'
                        /\ call'[u].op # "StartProfileProbeOlcrtc"
      OBVIOUS
    <3>1. <<call'[u].op, call'[u].pc>> \in Points("runtime")
      BY <1>1, <1>4, <2>4, <2>7 DEF Inv, CallInv, Alone
    <3> QED BY <3>1 DEF Points, RuntimePoints, InProbe
  <2>9. LockInv'
    BY <1>1, <1>4, <2>3, <2>8 DEF LockInv
  <2>10. ProbeInv'
    BY <2>8 DEF ProbeInv, Probes
  <2>11. XrayInv'
    <3>1. \A n \in core.open : ~Closes(t, n)
      BY <1>1, <1>2 DEF Closes
    <3> QED BY <1>4, <2>4, <3>1, XrayKept DEF Inv
  <2> QED BY <1>1, <2>3, <2>4, <2>5, <2>7, <2>9, <2>10, <2>11, LoudStep
<1> QED BY <1>5, <1>6

LEMMA StopKeeps ==
  ASSUME Inv, kind # "cli", NEW t \in Threads, Stop(t), UNCHANGED <<core, sup, cyc, main>>
  PROVE  Inv'
<1>1. Shape /\ GenInv /\ LockInv /\ call[t] \in CallType /\ CallInv(t) /\ call[t].pc = "stop"
      /\ kind \in {"runtime", "app"}
  BY Kinds DEF Inv, Shape, Stop, At
<1>2. /\ call[t].op \in Stops \cup {"StopAll", "StopProfileProbe"}
      /\ <<call[t].op, "stopWait">> \in Points(kind) /\ ~call[t].stale
  BY <1>1 DEF CallInv, Points, RuntimePoints, CorePoints, Stops
<1> DEFINE r == call[t].rt
           k == rts[r].current
<1>3. r \in DOMAIN rts /\ rts[r] \in RtType /\ Len(runs) \in Nat /\ Len(rts) \in Nat /\ r \in Nat
      /\ DOMAIN runs = 1 .. Len(runs) /\ DOMAIN rts = 1 .. Len(rts)
  BY <1>1, Sizes DEF CallInv
<1>4. UNCHANGED <<scene, registered, core, sup, cyc, main>> /\ kind' = kind
  BY SameKind DEF Stop
<1>5. \A j \in Owned : Active(j) /\ gens[j].rt = r => j = k /\ isActiveLocked(r) /\ k # 0
  <2> SUFFICES ASSUME NEW j \in Owned, Active(j), gens[j].rt = r PROVE j = k /\ isActiveLocked(r) /\ k # 0
    OBVIOUS
  <2>1. rts[r].current = j /\ isActiveLocked(r)
    BY <1>1, ActiveIsCurrent
  <2> QED BY <1>1, <1>3, <2>1 DEF GenInv
<1>6. CASE rts[r].state \in {"idle", "stopped"} \/ k = 0
  <2>1. AfterStop(t, "nil") /\ UNCHANGED <<rts, gens, runs>>
    BY <1>6 DEF Stop
  <2>2. \A j \in Owned : ~(Active(j) /\ gens[j].rt = r)
    BY <1>5, <1>6 DEF isActiveLocked
  <2>3. call[t].op \in Stops => \A j \in Owned : j <= call[t].before => ~Active(j)
    BY <1>1, <2>2 DEF CallInv
  <2>4. \A j \in Owned : ~(SeesTo(t, j) /\ Active(j) /\ ~runs[j].cancelled)
    BY <1>1, <2>2 DEF SeesTo
  <2> QED BY <1>1, <1>2, <1>4, <2>1, <2>3, <2>4, AfterStopKeeps DEF Quiet
<1>7. CASE rts[r].state \notin {"idle", "stopped"} /\ k # 0
  <2> DEFINE c == [call[t] EXCEPT !.pc = "stopWait", !.gen = k]
             rt == [rts[r] EXCEPT !.state = "stopping"]
             gen == [gens[k] EXCEPT !.stopRequested = TRUE]
             by == CancelledBy(k)
             run == [runs[k] EXCEPT !.cancelled = @ \/ by]
  <2>1. /\ call' = [call EXCEPT ![t] = c] /\ rts' = [rts EXCEPT ![r] = rt]
        /\ gens' = [gens EXCEPT ![k] = gen] /\ runs' = [runs EXCEPT ![k] = run]
    BY <1>7 DEF Stop
  <2>2. k \in DOMAIN runs /\ gens[k].rt = r /\ isActiveLocked(r) /\ k \in Nat
        /\ (rts[r].state = "stopping" => runs[k].cancelled)
    BY <1>1, <1>3, <1>7 DEF GenInv, isActiveLocked, RtType
  <2>3. DOMAIN gens = DOMAIN runs /\ Len(gens) = Len(runs) /\ gens[k] \in GenType /\ runs[k] \in RunType
    BY <1>1, <2>2, Sizes DEF GenInv
  <2>4. by = (rts[r].state # "stopping")
    BY <2>2 DEF CancelledBy
  <2>5. runs[k].cancelled \/ by
    BY <2>2, <2>4
  <2>6. c \in CallType
    BY <1>1, <2>2 DEF CallType, Places
  <2>7. /\ c.pc = "stopWait" /\ c.gen = k /\ c.op = call[t].op /\ c.rt = call[t].rt
        /\ c.before = call[t].before /\ c.inst = call[t].inst /\ c.stale = call[t].stale
    BY <1>1 DEF CallType
  <2>8. rt \in RtType /\ rt.state = "stopping" /\ rt.current = k
    BY <1>3 DEF RtType
  <2>9. gen \in GenType /\ gen.rt = gens[k].rt /\ gen.finished = gens[k].finished /\ gen.done = gens[k].done
    BY <2>3 DEF GenType
  <2>10. run = [runs[k] EXCEPT !.cancelled = TRUE]
    BY <2>3, <2>5 DEF RunType
  <2>11. run \in RunType /\ run.phase = runs[k].phase
    BY <2>3, <2>10 DEF RunType
  <2>12. run.cancelled
    BY <2>3, <2>10 DEF RunType
  <2> HIDE DEF c, rt, gen, run, by
  <2>13. call' \in [Threads -> CallType] /\ call'[t] = c /\ Alone(t)
    BY <1>1, <2>1, <2>6, CallChanges
  <2>14. /\ rts' \in Seq(RtType) /\ Len(rts') = Len(rts) /\ rts'[r] = rt
         /\ \A q \in DOMAIN rts : q # r => rts'[q] = rts[q]
    BY <1>1, <1>3, <2>1, <2>8, RtChanges
  <2>15. /\ gens' \in Seq(GenType) /\ Len(gens') = Len(gens) /\ gens'[k] = gen
         /\ \A j \in DOMAIN gens : j # k => gens'[j] = gens[j]
    BY <1>1, <2>1, <2>2, <2>3, <2>9, GenChanges
  <2>16. /\ runs' \in Seq(RunType) /\ Len(runs') = Len(runs) /\ runs'[k] = run
         /\ \A j \in DOMAIN runs : j # k => runs'[j] = runs[j]
    BY <1>1, <2>1, <2>2, <2>11, RunChanges
  <2>17. Shape'
    BY <1>1, <1>4, <2>13, <2>14, <2>15, <2>16 DEF Shape, SupType, Profiles
  <2>18. DOMAIN runs' = DOMAIN runs /\ DOMAIN rts' = DOMAIN rts
    BY <1>1, <2>14, <2>16, <2>17, Sizes
  <2>19. \A j \in DOMAIN runs : /\ runs'[j].phase = runs[j].phase
                                /\ runs[j].cancelled => runs'[j].cancelled
                                /\ gens'[j].rt = gens[j].rt /\ gens'[j].finished = gens[j].finished
                                /\ gens'[j].done = gens[j].done
    BY <2>3, <2>9, <2>11, <2>12, <2>15, <2>16
  <2>20. Later
    BY <1>3, <1>4, <2>14, <2>16, <2>19 DEF Later, Active
  <2>21. \A q \in DOMAIN rts :
            /\ rts'[q].current = rts[q].current
            /\ isActiveLocked(q)' <=> isActiveLocked(q)
            /\ rts[q].state = "idle" => rts'[q].state = "idle"
    BY <1>7, <2>2, <2>8, <2>14 DEF isActiveLocked
  <2>22. SameRuntimes
    BY <1>4, <2>14, <2>21 DEF SameRuntimes
  <2>23. GenInv'
    <3>1. ASSUME NEW j \in DOMAIN runs
          PROVE  /\ gens'[j].rt \in 0 .. Len(rts')
                 /\ gens'[j].finished => ~Active(j)'
                 /\ gens'[j].done => gens'[j].finished
                 /\ gens'[j].rt # 0 /\ ~gens'[j].finished =>
                      /\ rts'[gens'[j].rt].current = j
                      /\ rts'[gens'[j].rt].state \in {"starting", "running", "stopping"}
      <4>1. /\ gens[j].rt \in 0 .. Len(rts) /\ (gens[j].finished => ~Active(j))
            /\ (gens[j].done => gens[j].finished)
        BY <1>1 DEF GenInv
      <4>2. ASSUME gens[j].rt # 0, ~gens[j].finished
            PROVE  rts'[gens[j].rt].current = j /\ rts'[gens[j].rt].state \in {"starting", "running", "stopping"}
        <5>1. gens[j].rt \in DOMAIN rts /\ rts[gens[j].rt].current = j /\ isActiveLocked(gens[j].rt)
          BY <1>1, <1>3, <4>1, <4>2 DEF GenInv
        <5>2. \A q \in DOMAIN rts : rts[q].state \in {"starting", "running", "stopping"}
                                    => rts'[q].state \in {"starting", "running", "stopping"}
          BY <2>21 DEF isActiveLocked
        <5> QED BY <2>21, <5>1, <5>2 DEF isActiveLocked
      <4> QED BY <2>14, <2>19, <4>1, <4>2 DEF Active
    <3>2. ASSUME NEW q \in DOMAIN rts
          PROVE  /\ rts'[q].current \in 0 .. Len(runs')
                 /\ isActiveLocked(q)' => rts'[q].current # 0
                 /\ rts'[q].current # 0 => gens'[rts'[q].current].rt = q
                 /\ rts'[q].state = "stopping" => runs'[rts'[q].current].cancelled
      <4>1. /\ rts[q].current \in 0 .. Len(runs)
            /\ isActiveLocked(q) => rts[q].current # 0
            /\ rts[q].current # 0 => gens[rts[q].current].rt = q
            /\ rts[q].state = "stopping" => runs[rts[q].current].cancelled /\ isActiveLocked(q)
        BY <1>1 DEF GenInv, isActiveLocked
      <4>2. rts[q].current # 0 => rts[q].current \in DOMAIN runs
        BY <1>3, <4>1
      <4>3. rts'[q].state = "stopping" => runs'[rts[q].current].cancelled
        <5>1. CASE q = r
          BY <2>12, <2>16, <5>1
        <5>2. CASE q # r
          BY <2>14, <2>19, <4>1, <4>2, <5>2
        <5> QED BY <5>1, <5>2
      <4> QED BY <2>16, <2>19, <2>21, <4>1, <4>2, <4>3
    <3> QED BY <1>4, <2>3, <2>15, <2>16, <2>18, <3>1, <3>2 DEF GenInv, isActiveLocked
  <2>24. CallInv(t)'
    <3>1. <<c.op, c.pc>> \in Points(kind')
      BY <1>2, <1>4, <2>7
    <3>2. c.rt \in 0 .. Len(rts') /\ c.gen \in 0 .. Len(runs') /\ c.before \in 0 .. Len(runs') /\ c.gen # 0
      BY <1>1, <1>3, <1>7, <2>2, <2>7, <2>14, <2>16, SMTT(20) DEF CallInv
    <3>3. ASSUME c.op \in Stops, NEW j \in Owned', j <= c.before, Active(j)' PROVE j = c.gen
      <4>1. j <= Len(runs)
        BY <1>3, <2>18, <3>3 DEF Owned
      <4>2. j \in Owned /\ Active(j)
        BY <1>1, <2>17, <2>20, <3>3, <4>1, OwnedLater
      <4>3. gens[j].rt = r
        BY <1>1, <2>7, <3>3, <4>2 DEF CallInv
      <4> QED BY <1>5, <2>7, <4>2, <4>3
    <3>4. c.op # "Check" /\ ~c.stale
      BY <1>2, <2>7 DEF Stops
    <3> QED BY <2>7, <2>13, <3>1, <3>2, <3>3, <3>4 DEF CallInv
  <2>25. OthersKeep(t) /\ SameProbe(t) /\ call'[t].pc \notin {"register", "configure"}
    BY <1>2, <1>4, <2>7, <2>13 DEF OthersKeep, SameProbe, Stops
  <2>26. InProbe(t)' => core'.probeMu = t
    <3>1. InProbe(t)' => InProbe(t)
      BY <1>1, <1>2, <2>7, <2>13 DEF InProbe, Stops
    <3> QED BY <1>1, <1>4, <3>1 DEF LockInv
  <2>27. LockInv'
    BY <1>1, <2>17, <2>22, <2>25, <2>26, LocksKept
  <2>28. ProbeInv'
    <3>1. \A j \in Probes' : j <= Len(runs)
      BY <1>3, <2>18 DEF Probes, Owned
    <3>2. \A j \in Owned :
            (core.probeOlcrtc \/ SeesTo(t, j)) /\ Active(j)' /\ ~runs'[j].cancelled
            => core'.probeOlcrtc \/ SeesTo(t, j)'
      <4> SUFFICES ASSUME NEW j \in Owned, SeesTo(t, j), Active(j)' PROVE runs'[j].cancelled
        BY <1>4
      <4>1. gens[j].rt = r
        BY <1>1 DEF SeesTo
      <4>2. Active(j)
        BY <2>19 DEF Active, Owned
      <4>3. j = k
        BY <1>5, <4>1, <4>2
      <4> QED BY <2>12, <2>16, <4>3
    <3> QED BY <1>1, <2>17, <2>20, <2>25, <3>1, <3>2, ProbesKept DEF Inv
  <2>29. XrayInv'
    <3>1. \A n \in core'.open : Closes(t, n) => Closes(t, n)'
      BY <1>1, <1>4, <2>7, <2>13 DEF Closes
    <3> QED BY <1>4, <2>13, <3>1, XrayKept DEF Inv
  <2> QED BY <2>13, <2>17, <2>20, <2>23, <2>24, <2>27, <2>28, <2>29, LoudStep
<1> QED BY <1>6, <1>7


-----------------------------------------------------------------------------
(* Steps of the Android core.                                              *)

\* A call that is no Stop and no Check goes to another place of the core.
LEMMA MovedCall ==
  ASSUME Inv, kind # "cli", Later, Shape', NEW t \in Threads,
         call'[t].op = call[t].op, call'[t].gen = call[t].gen, call'[t].before = call[t].before,
         call'[t].stale = call[t].stale, call'[t].rt \in 0 .. Len(rts'),
         call'[t].mode = call[t].mode, call'[t].pc = "configure" => call[t].mode \in Modes,
         <<call[t].op, call'[t].pc>> \in Points(kind), ~call[t].stale, call[t].op \notin Stops \cup {"Check"},
         call'[t].pc \in {"takeProbe", "checkRunning", "register", "configure", "flagProbe", "capture",
                          "closeProbe", "closeXray", "dial"}
  PROVE  CallInv(t)'
<1>1. kind' = kind
  BY SameKind DEF Later
<1>2. /\ Len(runs) \in Nat /\ Len(runs') \in Nat /\ Len(runs) <= Len(runs')
  BY Sizes DEF Inv, Shape, Later
<1> DEFINE c == call[t]
           d == call'[t]
<1>3. c.gen \in 0 .. Len(runs) /\ c.before \in 0 .. Len(runs)
  BY DEF Inv, CallInv
<1>4. /\ d.op = c.op /\ d.gen = c.gen /\ d.before = c.before /\ d.stale = c.stale /\ d.mode = c.mode
      /\ d.rt \in 0 .. Len(rts') /\ (d.pc = "configure" => c.mode \in Modes)
      /\ <<c.op, d.pc>> \in Points(kind) /\ ~c.stale /\ c.op \notin Stops \cup {"Check"}
      /\ d.pc \in {"takeProbe", "checkRunning", "register", "configure", "flagProbe", "capture",
                   "closeProbe", "closeXray", "dial"} /\ d = call'[t]
  OBVIOUS
<1> HIDE DEF c, d
<1>5. <<d.op, d.pc>> \in Points(kind')
  BY <1>1, <1>4
<1>6. d.gen \in 0 .. Len(runs') /\ d.before \in 0 .. Len(runs')
  BY <1>2, <1>3, <1>4
<1> QED BY <1>4, <1>5, <1>6 DEF CallInv

\* A step of one call in the core's variables.
LEMMA CoreGo ==
  ASSUME Inv, kind # "cli", Quiet, registered' \in Modes, core' \in CoreType,
         call' \in [Threads -> CallType], NEW t \in Threads, OthersKeep(t), CallInv(t)', SameProbe(t),
         call'[t].pc \notin {"register", "configure"}, InProbe(t)' => core'.probeMu = t,
         \A k \in Owned : core.probeOlcrtc \/ SeesTo(t, k) => core'.probeOlcrtc \/ SeesTo(t, k)',
         XrayInv'
  PROVE  Inv'
<1>1. Shape' /\ Later /\ SameRuntimes /\ kind' = kind /\ Owned' = Owned
  BY QuietLater
<1>2. LockInv'
  BY <1>1, LocksKept DEF Inv
<1>3. ProbeInv'
  <2>1. \A k \in Probes' : k <= Len(runs)
    BY <1>1, Sizes DEF Probes, Owned, Inv
  <2> QED BY <1>1, <2>1, ProbesKept DEF Inv
<1> QED BY <1>2, <1>3, QuietStep DEF OthersKeep

LEMMA Unlocks ==
  ASSUME Shape, NEW t \in Threads, NEW c, c = Unlocked(t)
  PROVE  /\ c \in CoreType
         /\ \A u \in Threads \ {t} : /\ core.startMu = u => c.startMu = u
                                     /\ core.probeMu = u => c.probeMu = u
         /\ c.olcrtcRuntime = core.olcrtcRuntime /\ c.probeOlcrtc = core.probeOlcrtc
         /\ c.xray = core.xray /\ c.probe = core.probe /\ c.open = core.open /\ c.made = core.made
<1>1. core \in CoreType
  BY DEF Shape
<1> DEFINE a == IF core.startMu = t THEN NoThread ELSE core.startMu
           b == IF core.probeMu = t THEN NoThread ELSE core.probeMu
<1>2. /\ a \in Threads \cup {NoThread} /\ b \in Threads \cup {NoThread}
      /\ \A u \in Threads \ {t} : (core.startMu = u => a = u) /\ (core.probeMu = u => b = u)
  BY <1>1 DEF CoreType
<1>3. c = [core EXCEPT !.startMu = a, !.probeMu = b]
  BY DEF Unlocked
<1> HIDE DEF a, b
<1>4. c \in CoreType
  BY <1>1, <1>2, <1>3 DEF CoreType
<1>5. c.startMu = a /\ c.probeMu = b
  BY <1>1, <1>3 DEF CoreType
<1>6. /\ c.olcrtcRuntime = core.olcrtcRuntime /\ c.probeOlcrtc = core.probeOlcrtc
      /\ c.xray = core.xray /\ c.probe = core.probe /\ c.open = core.open /\ c.made = core.made
  BY <1>1, <1>3 DEF CoreType
<1> QED BY <1>2, <1>4, <1>5, <1>6

\* A start is given up before anything has been launched.
LEMMA GivesUp ==
  ASSUME Inv, kind # "cli", Quiet, registered' \in Modes, NEW t \in Threads, NEW res, ReturnUnlocked(t, res),
         call[t].pc \in {"checkRunning", "register", "configure"}
  PROVE  Inv'
<1>1. Shape /\ CallInv(t) /\ kind \in {"runtime", "app"}
  BY Kinds DEF Inv
<1>2. call[t].op \in {"StartOlcrtc", "StartProfileProbeOlcrtc"}
  BY <1>1 DEF CallInv, Points, RuntimePoints, CorePoints
<1>3. Return(t, res) /\ core' = Unlocked(t)
  BY DEF ReturnUnlocked
<1>4. MayReturn(t, res)
  BY <1>2 DEF MayReturn, Waits, Stops
<1>5. /\ core' \in CoreType
      /\ \A u \in Threads \ {t} : /\ core.startMu = u => core'.startMu = u
                                  /\ core.probeMu = u => core'.probeMu = u
      /\ core'.olcrtcRuntime = core.olcrtcRuntime /\ core'.probeOlcrtc = core.probeOlcrtc
      /\ core'.xray = core.xray /\ core'.probe = core.probe /\ core'.open = core.open /\ core'.made = core.made
  BY <1>1, <1>3, Unlocks
<1>6. Alone(t)
  BY <1>1, <1>3, Returns
<1>7. OthersKeep(t)
  BY <1>5, <1>6 DEF OthersKeep
<1>8. \A k \in Owned : ~SeesTo(t, k)
  BY <1>2 DEF SeesTo
<1>9. \A n \in core.open : ~Closes(t, n)
  BY <1>2 DEF Closes
<1>10. MayForget(t)
  BY <1>5, <1>8, <1>9 DEF MayForget
<1> QED BY <1>3, <1>4, <1>5, <1>7, <1>10, QuietReturn

LEMMA ProbeLockKeeps ==
  ASSUME Inv, kind # "cli", NEW t \in Threads, ProbeLock(t), UNCHANGED <<sup, cyc, main>>
  PROVE  Inv'
<1>1. Shape /\ CallInv(t) /\ call[t] \in CallType /\ core \in CoreType /\ call[t].pc = "probeLock"
      /\ kind \in {"runtime", "app"} /\ core.probeMu = NoThread
  BY Kinds DEF Inv, Shape, ProbeLock, At
<1> DEFINE p == IF call[t].op = "StopProfileProbe" THEN "takeProbe" ELSE "checkRunning"
<1>2. /\ call[t].op \in {"StartProfileProbeOlcrtc", "StopProfileProbe"} /\ ~call[t].stale
      /\ <<call[t].op, p>> \in Points(kind)
  BY <1>1 DEF CallInv, Points, RuntimePoints, CorePoints
<1>3. Quiet /\ registered' \in Modes /\ Goto(t, p) /\ core' = [core EXCEPT !.probeMu = t]
  BY <1>1 DEF ProbeLock, Quiet, Shape
<1>4. p \in Places /\ p \in {"takeProbe", "checkRunning"}
  BY DEF Places
<1> HIDE DEF p
<1>5. /\ call' \in [Threads -> CallType] /\ Alone(t) /\ call'[t].pc = p
      /\ call'[t].op = call[t].op /\ call'[t].rt = call[t].rt /\ call'[t].gen = call[t].gen
      /\ call'[t].mode = call[t].mode /\ call'[t].stale = call[t].stale
      /\ call'[t].before = call[t].before /\ call'[t].inst = call[t].inst
  BY <1>1, <1>3, <1>4, Goes
<1>6. core' \in CoreType
  BY <1>1, <1>3 DEF CoreType
<1>7. /\ core'.probeMu = t /\ core'.startMu = core.startMu /\ core'.olcrtcRuntime = core.olcrtcRuntime
      /\ core'.probeOlcrtc = core.probeOlcrtc
      /\ core'.xray = core.xray /\ core'.probe = core.probe /\ core'.open = core.open /\ core'.made = core.made
  BY <1>1, <1>3 DEF CoreType
<1>8. OthersKeep(t)
  <2>1. \A u \in Threads : u # NoThread
    BY RunLifecycleAssumption
  <2> QED BY <1>1, <1>5, <1>7, <2>1 DEF OthersKeep
<1>9. Shape' /\ Later
  BY <1>3, <1>5, <1>6, QuietLater
<1>10. CallInv(t)'
  <2>1. call'[t].rt \in 0 .. Len(rts')
    BY <1>1, <1>3, <1>5 DEF CallInv, Quiet
  <2>2. call[t].op \notin Stops \cup {"Check"}
    BY <1>2 DEF Stops
  <2> QED BY <1>2, <1>4, <1>5, <1>9, <2>1, <2>2, MovedCall
<1>11. SameProbe(t)
  BY <1>5 DEF SameProbe
<1>12. \A k \in Owned : ~SeesTo(t, k)
  BY <1>1 DEF SeesTo
<1>13. XrayInv'
  <2>1. \A n \in core'.open : ~Closes(t, n)
    BY <1>1 DEF Closes
  <2> QED BY <1>5, <1>7, <2>1, XrayKept DEF Inv
<1> QED BY <1>3, <1>4, <1>5, <1>6, <1>7, <1>8, <1>10, <1>11, <1>12, <1>13, CoreGo

LEMMA FlagProbeKeeps ==
  ASSUME Inv, kind # "cli", NEW t \in Threads, FlagProbe(t), UNCHANGED <<sup, cyc, main>>
  PROVE  Inv'
<1>1. Shape /\ CallInv(t) /\ call[t].pc = "flagProbe" /\ kind \in {"runtime", "app"}
  BY Kinds DEF Inv, FlagProbe, At
<1>2. call[t].op = "StartProfileProbeOlcrtc"
  BY <1>1 DEF CallInv, Points, RuntimePoints, CorePoints
<1>3. Quiet /\ registered' \in Modes /\ Return(t, "nil")
  BY <1>1 DEF FlagProbe, Quiet, Shape
<1> DEFINE c == Unlocked(t)
<1>4. /\ c \in CoreType
      /\ \A u \in Threads \ {t} : /\ core.startMu = u => c.startMu = u
                                  /\ core.probeMu = u => c.probeMu = u
      /\ c.olcrtcRuntime = core.olcrtcRuntime
      /\ c.xray = core.xray /\ c.probe = core.probe /\ c.open = core.open /\ c.made = core.made
  BY <1>1, Unlocks
<1>5. core' = [c EXCEPT !.probeOlcrtc = TRUE]
  BY DEF FlagProbe
<1> HIDE DEF c
<1>6. core' \in CoreType
  BY <1>4, <1>5 DEF CoreType
<1>7. /\ core'.startMu = c.startMu /\ core'.probeMu = c.probeMu /\ core'.olcrtcRuntime = c.olcrtcRuntime
      /\ core'.xray = c.xray /\ core'.probe = c.probe /\ core'.open = c.open /\ core'.made = c.made
  BY <1>4, <1>5 DEF CoreType
<1>8. core'.probeOlcrtc
  BY <1>4, <1>5 DEF CoreType
<1>9. Alone(t)
  BY <1>1, <1>3, Returns
<1>10. OthersKeep(t)
  BY <1>4, <1>7, <1>9 DEF OthersKeep
<1>11. \A n \in core.open : ~Closes(t, n)
  BY <1>1, <1>2 DEF Closes
<1>12. MayForget(t)
  BY <1>4, <1>7, <1>8, <1>11 DEF MayForget
<1>13. MayReturn(t, "nil")
  BY <1>2 DEF MayReturn, Waits, Stops
<1> QED BY <1>3, <1>6, <1>10, <1>12, <1>13, QuietReturn

\* The mark and the instance are taken together, by the call that will stop and close.
LEMMA TakeProbeKeeps ==
  ASSUME Inv, kind # "cli", NEW t \in Threads, TakeProbe(t), UNCHANGED <<sup, cyc, main>>
  PROVE  Inv'
<1>1. Shape /\ LockInv /\ XrayInv /\ CallInv(t) /\ call[t] \in CallType /\ core \in CoreType
      /\ call[t].pc = "takeProbe" /\ kind \in {"runtime", "app"}
  BY Kinds DEF Inv, Shape, TakeProbe, At
<1> DEFINE p == IF core.probeOlcrtc THEN "capture" ELSE "closeProbe"
           c == [call[t] EXCEPT !.inst = core.probe, !.pc = p]
<1>2. /\ call[t].op = "StopProfileProbe" /\ ~call[t].stale /\ <<call[t].op, p>> \in Points(kind)
  BY <1>1 DEF CallInv, Points, RuntimePoints, CorePoints
<1>3. /\ Quiet /\ registered' \in Modes /\ call' = [call EXCEPT ![t] = c]
      /\ core' = [core EXCEPT !.probe = 0, !.probeOlcrtc = FALSE]
  BY <1>1 DEF TakeProbe, Quiet, Shape
<1>4. p \in Places /\ p \in {"capture", "closeProbe"} /\ (core.probeOlcrtc => p = "capture")
  BY DEF Places
<1> HIDE DEF p
<1>5. c \in CallType
  BY <1>1, <1>4 DEF CallType, CoreType
<1>6. /\ c.pc = p /\ c.inst = core.probe /\ c.op = call[t].op /\ c.rt = call[t].rt /\ c.gen = call[t].gen
      /\ c.mode = call[t].mode /\ c.stale = call[t].stale /\ c.before = call[t].before
  BY <1>1 DEF CallType
<1> HIDE DEF c
<1>7. call' \in [Threads -> CallType] /\ call'[t] = c /\ Alone(t)
  BY <1>1, <1>3, <1>5, CallChanges
<1>8. core' \in CoreType
  BY <1>1, <1>3 DEF CoreType
<1>9. /\ core'.probeMu = core.probeMu /\ core'.startMu = core.startMu
      /\ core'.olcrtcRuntime = core.olcrtcRuntime
      /\ core'.xray = core.xray /\ core'.probe = 0 /\ core'.open = core.open /\ core'.made = core.made
  BY <1>1, <1>3 DEF CoreType
<1>10. OthersKeep(t)
  BY <1>7, <1>9 DEF OthersKeep
<1>11. Shape' /\ Later /\ Owned' = Owned
  BY <1>3, <1>7, <1>8, QuietLater
<1>12. CallInv(t)'
  <2>1. call'[t].rt \in 0 .. Len(rts')
    BY <1>1, <1>3, <1>6, <1>7 DEF CallInv, Quiet
  <2>2. call[t].op \notin Stops \cup {"Check"}
    BY <1>2 DEF Stops
  <2> QED BY <1>2, <1>4, <1>6, <1>7, <1>11, <2>1, <2>2, MovedCall
<1>13. SameProbe(t)
  BY <1>2, <1>6, <1>7 DEF SameProbe
<1>14. core.probeMu = t
  BY <1>1, <1>2 DEF LockInv, InProbe
<1>15. \A k \in Owned : core.probeOlcrtc \/ SeesTo(t, k) => core'.probeOlcrtc \/ SeesTo(t, k)'
  <2>1. \A k \in Owned : ~SeesTo(t, k)
    BY <1>1 DEF SeesTo
  <2>2. ASSUME NEW k \in Owned, core.probeOlcrtc PROVE SeesTo(t, k)'
    BY <1>2, <1>4, <1>6, <1>7, <1>9, <1>14, <2>2 DEF SeesTo
  <2> QED BY <2>1, <2>2
<1>16. XrayInv'
  <2>1. core'.open \subseteq 1 .. core'.made /\ core'.xray \in 0 .. core'.made
    BY <1>1, <1>9 DEF XrayInv
  <2>2. core'.probe \in 0 .. core'.made
    BY <1>1, <1>9 DEF CoreType
  <2>3. ASSUME NEW n \in core'.open
        PROVE  n \in {core'.xray, core'.probe} \/ \E u \in Threads : Closes(u, n)'
    <3>1. n \in {core.xray, core.probe} \/ \E u \in Threads : Closes(u, n)
      BY <1>1, <1>9 DEF XrayInv
    <3>2. n = core.probe => Closes(t, n)'
      BY <1>2, <1>4, <1>6, <1>7 DEF Closes
    <3>3. \A u \in Threads : Closes(u, n) => Closes(u, n)'
      <4>1. ~Closes(t, n)
        BY <1>1 DEF Closes
      <4> QED BY <1>7, <4>1 DEF Closes, Alone
    <3> QED BY <1>9, <3>1, <3>2, <3>3
  <2> QED BY <2>1, <2>2, <2>3 DEF XrayInv
<1>17. call'[t].pc \notin {"register", "configure"} /\ (InProbe(t)' => core'.probeMu = t)
  BY <1>4, <1>6, <1>7, <1>9, <1>14
<1> QED BY <1>3, <1>7, <1>8, <1>10, <1>12, <1>13, <1>15, <1>16, <1>17, CoreGo

LEMMA CloseProbeKeeps ==
  ASSUME Inv, kind # "cli", NEW t \in Threads, CloseProbe(t), UNCHANGED <<sup, cyc, main>>
  PROVE  Inv'
<1>1. Shape /\ CallInv(t) /\ call[t].pc = "closeProbe" /\ kind \in {"runtime", "app"}
  BY Kinds DEF Inv, CloseProbe, At
<1>2. call[t].op = "StopProfileProbe"
  BY <1>1 DEF CallInv, Points, RuntimePoints, CorePoints
<1>3. Quiet /\ registered' \in Modes /\ Return(t, "nil")
  BY <1>1 DEF CloseProbe, Quiet, Shape
<1> DEFINE c == Unlocked(t)
<1>4. /\ c \in CoreType
      /\ \A u \in Threads \ {t} : /\ core.startMu = u => c.startMu = u
                                  /\ core.probeMu = u => c.probeMu = u
      /\ c.olcrtcRuntime = core.olcrtcRuntime /\ c.probeOlcrtc = core.probeOlcrtc
      /\ c.xray = core.xray /\ c.probe = core.probe /\ c.open = core.open /\ c.made = core.made
  BY <1>1, Unlocks
<1>5. core' = [c EXCEPT !.open = @ \ {call[t].inst}]
  BY DEF CloseProbe
<1> HIDE DEF c
<1>6. core' \in CoreType
  BY <1>4, <1>5 DEF CoreType
<1>7. /\ core'.startMu = c.startMu /\ core'.probeMu = c.probeMu /\ core'.olcrtcRuntime = c.olcrtcRuntime
      /\ core'.probeOlcrtc = c.probeOlcrtc
      /\ core'.xray = c.xray /\ core'.probe = c.probe /\ core'.made = c.made
      /\ core'.open = c.open \ {call[t].inst}
  BY <1>4, <1>5 DEF CoreType
<1>8. Alone(t)
  BY <1>1, <1>3, Returns
<1>9. OthersKeep(t)
  BY <1>4, <1>7, <1>8 DEF OthersKeep
<1>10. \A n \in core'.open : ~Closes(t, n)
  BY <1>7 DEF Closes
<1>11. \A k \in Owned : ~SeesTo(t, k)
  BY <1>1 DEF SeesTo
<1>12. MayForget(t)
  BY <1>4, <1>7, <1>10, <1>11 DEF MayForget
<1>13. MayReturn(t, "nil")
  BY <1>2 DEF MayReturn, Waits, Stops
<1> QED BY <1>3, <1>6, <1>9, <1>12, <1>13, QuietReturn

\* Where the calls about the Xray instance of the VPN or of a probe are.
XrayCalls ==
    {<<"StartXray", "startXray">>, <<"StartProfileProbe", "startXray">>, <<"WaitXrayReady", "pollXray">>,
     <<"StopXray", "takeXray">>, <<"StopXray", "closeXray">>, <<"StopAll", "takeXray">>,
     <<"StopAll", "closeXray">>, <<"UrlTest", "urlTest">>, <<"ProfileProbeUrlTest", "urlTest">>,
     <<"UrlTest", "dial">>, <<"ProfileProbeUrlTest", "dial">>}

LEMMA AboutXray ==
  ASSUME Inv, kind # "cli", NEW t \in Threads,
         call[t].pc \in {"startXray", "pollXray", "takeXray", "closeXray", "urlTest", "dial"}
  PROVE  /\ Shape /\ XrayInv /\ CallInv(t) /\ call[t] \in CallType /\ core \in CoreType /\ kind = "app"
         /\ <<call[t].op, call[t].pc>> \in XrayCalls /\ ~call[t].stale
         /\ \A res : MayReturn(t, res)
<1>1. Shape /\ XrayInv /\ CallInv(t) /\ call[t] \in CallType /\ core \in CoreType /\ kind \in {"runtime", "app"}
  BY Kinds DEF Inv, Shape
<1>2. <<call[t].op, call[t].pc>> \in XrayCalls /\ kind = "app" /\ ~call[t].stale
  BY <1>1 DEF CallInv, Points, RuntimePoints, CorePoints, XrayCalls
<1>3. \A res : MayReturn(t, res)
  BY <1>2 DEF MayReturn, Waits, Stops, XrayCalls
<1> QED BY <1>1, <1>2, <1>3

LEMMA StartInstanceKeeps ==
  ASSUME Inv, kind # "cli", NEW t \in Threads, StartInstance(t), UNCHANGED <<sup, cyc, main>>
  PROVE  Inv'
<1>1. call[t].pc = "startXray"
  BY DEF StartInstance, At
<1>2. /\ Shape /\ XrayInv /\ CallInv(t) /\ call[t] \in CallType /\ core \in CoreType
      /\ <<call[t].op, call[t].pc>> \in XrayCalls /\ \A res : MayReturn(t, res)
  BY <1>1, AboutXray
<1>3. Quiet /\ registered' = registered /\ registered' \in Modes
  BY <1>2 DEF StartInstance, Quiet, Shape
<1>4. call[t].op \in {"StartXray", "StartProfileProbe"}
  BY <1>1, <1>2 DEF XrayCalls
<1>5. CASE core' = core /\ \E res : Return(t, res)
  BY <1>1, <1>2, <1>3, <1>4, <1>5, PlainReturn
<1> DEFINE slot == Slot(call[t].op)
           n == core.made + 1
<1>6. CASE /\ core[slot] = 0 /\ Return(t, "nil")
           /\ core' = [core EXCEPT ![slot] = n, !.made = n, !.open = @ \cup {n}]
  <2>1. slot \in {"xray", "probe"} /\ n \in Nat /\ core.made \in Nat /\ core.open \subseteq Nat
    BY <1>2 DEF Slot, CoreType
  <2>2. core[slot] = 0
    BY <1>6
  <2> HIDE DEF slot, n
  <2>3. core' \in CoreType
    BY <1>2, <1>6, <2>1 DEF CoreType
  <2>4. /\ core'.probeMu = core.probeMu /\ core'.startMu = core.startMu
        /\ core'.olcrtcRuntime = core.olcrtcRuntime /\ core'.probeOlcrtc = core.probeOlcrtc
        /\ core'.open = core.open \cup {n} /\ core'.made = n
    BY <1>2, <1>6, <2>1 DEF CoreType
  <2>5. /\ slot = "xray" => core'.xray = n /\ core'.probe = core.probe /\ core.xray = 0
        /\ slot = "probe" => core'.probe = n /\ core'.xray = core.xray /\ core.probe = 0
    BY <1>2, <1>6, <2>1, <2>2 DEF CoreType
  <2>6. /\ call' \in [Threads -> CallType] /\ Alone(t) /\ call'[t].pc = "returned"
        /\ call'[t].op \in {"none", call[t].op}
    BY <1>2, <1>6, Returns
  <2>7. OthersKeep(t)
    BY <2>4, <2>6 DEF OthersKeep
  <2>8. Shape' /\ Later
    BY <1>3, <2>3, <2>6, QuietLater
  <2>9. CallInv(t)'
    <3>1. GenInv
      BY DEF Inv
    <3> QED BY <1>2, <1>6, <2>8, <3>1, ReturnedCall
  <2>10. SameProbe(t) /\ ~InProbe(t)'
    BY <1>4, <2>6 DEF SameProbe, InProbe
  <2>11. \A k \in Owned : core.probeOlcrtc \/ SeesTo(t, k) => core'.probeOlcrtc
    <3>1. \A k \in Owned : ~SeesTo(t, k)
      BY <1>1, <1>4 DEF SeesTo
    <3> QED BY <2>4, <3>1
  <2>12. XrayInv'
    <3>1. n = core.made + 1
      BY DEF n
    <3>2. core'.open \subseteq 1 .. core'.made /\ core'.xray \in 0 .. core'.made /\ core'.probe \in 0 .. core'.made
      BY <1>2, <2>1, <2>4, <2>5, <3>1 DEF XrayInv
    <3>3. ASSUME NEW m \in core'.open
          PROVE  m \in {core'.xray, core'.probe} \/ \E u \in Threads : Closes(u, m)'
      <4>1. CASE m = n
        BY <2>1, <2>5, <4>1
      <4>2. CASE m \in core.open
        <5>1. m \in {core.xray, core.probe} \/ \E u \in Threads : Closes(u, m)
          BY <1>2, <4>2 DEF XrayInv
        <5>2. m # 0
          BY <1>2, <4>2 DEF XrayInv
        <5>3. \A u \in Threads : Closes(u, m) => Closes(u, m)'
          <6>1. ~Closes(t, m)
            BY <1>1, <1>4 DEF Closes
          <6> QED BY <2>6, <6>1 DEF Closes, Alone
        <5> QED BY <2>1, <2>5, <5>1, <5>2, <5>3
      <4> QED BY <2>4, <4>1, <4>2
    <3> QED BY <3>2, <3>3 DEF XrayInv
  <2> QED BY <1>3, <2>3, <2>6, <2>7, <2>9, <2>10, <2>11, <2>12, CoreGo
<1>7. \/ core' = core /\ \E res : Return(t, res)
      \/ /\ core[slot] = 0 /\ Return(t, "nil")
         /\ core' = [core EXCEPT ![slot] = n, !.made = n, !.open = @ \cup {n}]
  BY DEF StartInstance, newXrayInstance
<1> QED BY <1>5, <1>6, <1>7

LEMMA TakeXrayKeeps ==
  ASSUME Inv, kind # "cli", NEW t \in Threads, TakeXray(t), UNCHANGED <<sup, cyc, main>>
  PROVE  Inv'
<1>1. call[t].pc = "takeXray"
  BY DEF TakeXray, At
<1>2. /\ Shape /\ XrayInv /\ CallInv(t) /\ call[t] \in CallType /\ core \in CoreType /\ kind = "app"
      /\ <<call[t].op, call[t].pc>> \in XrayCalls /\ ~call[t].stale /\ \A res : MayReturn(t, res)
  BY <1>1, AboutXray
<1>3. Quiet /\ registered' = registered /\ registered' \in Modes
  BY <1>2 DEF TakeXray, Quiet, Shape
<1>4. call[t].op \in {"StopXray", "StopAll"} /\ <<call[t].op, "closeXray">> \in Points(kind)
  BY <1>1, <1>2 DEF XrayCalls, Points, CorePoints
<1>5. core' = [core EXCEPT !.xray = 0]
  BY DEF TakeXray
<1>6. CASE core.xray = 0 /\ Return(t, "nil")
  <2>1. core' = core
    BY <1>2, <1>5, <1>6 DEF CoreType
  <2> QED BY <1>1, <1>2, <1>3, <1>4, <1>6, <2>1, PlainReturn
<1>7. CASE core.xray # 0 /\ call' = [call EXCEPT ![t].pc = "closeXray", ![t].inst = core.xray]
  <2> DEFINE c == [call[t] EXCEPT !.pc = "closeXray", !.inst = core.xray]
  <2>1. call' = [call EXCEPT ![t] = c]
    BY <1>7
  <2>2. c \in CallType
    BY <1>2 DEF CallType, CoreType, Places
  <2>3. /\ c.pc = "closeXray" /\ c.inst = core.xray /\ c.op = call[t].op /\ c.rt = call[t].rt /\ c.gen = call[t].gen
        /\ c.mode = call[t].mode /\ c.stale = call[t].stale /\ c.before = call[t].before
    BY <1>2 DEF CallType
  <2> HIDE DEF c
  <2>4. call' \in [Threads -> CallType] /\ call'[t] = c /\ Alone(t)
    BY <1>2, <2>1, <2>2, CallChanges
  <2>5. core' \in CoreType
    BY <1>2, <1>5 DEF CoreType
  <2>6. /\ core'.probeMu = core.probeMu /\ core'.startMu = core.startMu
        /\ core'.olcrtcRuntime = core.olcrtcRuntime /\ core'.probeOlcrtc = core.probeOlcrtc
        /\ core'.xray = 0 /\ core'.probe = core.probe /\ core'.open = core.open /\ core'.made = core.made
    BY <1>2, <1>5 DEF CoreType
  <2>7. OthersKeep(t)
    BY <2>4, <2>6 DEF OthersKeep
  <2>8. Shape' /\ Later
    BY <1>3, <2>4, <2>5, QuietLater
  <2>9. CallInv(t)'
    <3>1. call'[t].rt \in 0 .. Len(rts')
      BY <1>2, <1>3, <2>3, <2>4 DEF CallInv, Quiet
    <3>2. call[t].op \notin Stops \cup {"Check"}
      BY <1>4 DEF Stops
    <3> QED BY <1>2, <1>4, <2>3, <2>4, <2>8, <3>1, <3>2, MovedCall
  <2>10. SameProbe(t) /\ ~InProbe(t)' /\ call'[t].pc \notin {"register", "configure"}
    BY <1>4, <2>3, <2>4 DEF SameProbe, InProbe
  <2>11. \A k \in Owned : core.probeOlcrtc \/ SeesTo(t, k) => core'.probeOlcrtc
    <3>1. \A k \in Owned : ~SeesTo(t, k)
      BY <1>1, <1>4 DEF SeesTo
    <3> QED BY <2>6, <3>1
  <2>12. XrayInv'
    <3>1. core'.open \subseteq 1 .. core'.made /\ core'.xray \in 0 .. core'.made /\ core'.probe \in 0 .. core'.made
      BY <1>2, <2>6 DEF XrayInv, CoreType
    <3>2. ASSUME NEW m \in core'.open
          PROVE  m \in {core'.xray, core'.probe} \/ \E u \in Threads : Closes(u, m)'
      <4>1. m \in {core.xray, core.probe} \/ \E u \in Threads : Closes(u, m)
        BY <1>2, <2>6 DEF XrayInv
      <4>2. m = core.xray => Closes(t, m)'
        BY <2>3, <2>4 DEF Closes
      <4>3. \A u \in Threads : Closes(u, m) => Closes(u, m)'
        <5>1. ~Closes(t, m)
          BY <1>1, <1>4 DEF Closes
        <5> QED BY <2>4, <5>1 DEF Closes, Alone
      <4> QED BY <2>6, <4>1, <4>2, <4>3
    <3> QED BY <3>1, <3>2 DEF XrayInv
  <2> QED BY <1>3, <2>4, <2>5, <2>7, <2>9, <2>10, <2>11, <2>12, CoreGo
<1> QED BY <1>6, <1>7 DEF TakeXray

LEMMA CloseXrayKeeps ==
  ASSUME Inv, kind # "cli", NEW t \in Threads, CloseXray(t), UNCHANGED <<sup, cyc, main>>
  PROVE  Inv'
<1>1. call[t].pc = "closeXray"
  BY DEF CloseXray, At
<1>2. /\ Shape /\ call[t] \in CallType /\ core \in CoreType
      /\ <<call[t].op, call[t].pc>> \in XrayCalls /\ \A res : MayReturn(t, res)
  BY <1>1, AboutXray
<1>3. Quiet /\ registered' \in Modes /\ Return(t, "nil") /\ core' = [core EXCEPT !.open = @ \ {call[t].inst}]
  BY <1>2 DEF CloseXray, Quiet, Shape
<1>4. call[t].op \in {"StopXray", "StopAll"}
  BY <1>1, <1>2 DEF XrayCalls
<1>5. core' \in CoreType
  BY <1>2, <1>3 DEF CoreType
<1>6. /\ core'.probeMu = core.probeMu /\ core'.startMu = core.startMu
      /\ core'.olcrtcRuntime = core.olcrtcRuntime /\ core'.probeOlcrtc = core.probeOlcrtc
      /\ core'.xray = core.xray /\ core'.probe = core.probe /\ core'.made = core.made
      /\ core'.open = core.open \ {call[t].inst}
  BY <1>2, <1>3 DEF CoreType
<1>7. OthersKeep(t)
  BY <1>2, <1>3, <1>6, Returns DEF OthersKeep
<1>8. \A k \in Owned : ~SeesTo(t, k)
  BY <1>1, <1>4 DEF SeesTo
<1>9. \A n \in core'.open : ~Closes(t, n)
  BY <1>6 DEF Closes
<1>10. MayForget(t)
  BY <1>6, <1>8, <1>9 DEF MayForget
<1> QED BY <1>2, <1>3, <1>5, <1>7, <1>10, QuietReturn

LEMMA PollAndTestKeep ==
  ASSUME Inv, kind # "cli", NEW t \in Threads, PollXray(t) \/ UrlTest(t) \/ RunUrlTest(t),
         UNCHANGED <<sup, cyc, main>>
  PROVE  Inv'
<1>1. call[t].pc \in {"pollXray", "urlTest", "dial"}
  BY DEF PollXray, UrlTest, RunUrlTest, At
<1>2. /\ Shape /\ XrayInv /\ CallInv(t) /\ call[t] \in CallType /\ core \in CoreType /\ kind = "app"
      /\ <<call[t].op, call[t].pc>> \in XrayCalls /\ ~call[t].stale /\ \A res : MayReturn(t, res)
  BY <1>1, AboutXray
<1>3. Quiet /\ registered' = registered /\ core' = core
  BY DEF PollXray, UrlTest, RunUrlTest, Quiet
<1>4. call[t].op \in {"WaitXrayReady", "UrlTest", "ProfileProbeUrlTest"}
  BY <1>1, <1>2 DEF XrayCalls
<1>5. CASE \E res : Return(t, res)
  BY <1>1, <1>2, <1>3, <1>4, <1>5, PlainReturn
<1> DEFINE n == core[Slot(call[t].op)]
<1>6. CASE call[t].pc = "urlTest" /\ call' = [call EXCEPT ![t].pc = "dial", ![t].inst = n]
  <2> DEFINE c == [call[t] EXCEPT !.pc = "dial", !.inst = n]
  <2>1. call' = [call EXCEPT ![t] = c]
    BY <1>6
  <2>2. n \in Nat
    BY <1>2 DEF Slot, CoreType
  <2> HIDE DEF n
  <2>3. c \in CallType
    BY <1>2, <2>2 DEF CallType, Places
  <2>4. /\ c.pc = "dial" /\ c.op = call[t].op /\ c.rt = call[t].rt /\ c.gen = call[t].gen
        /\ c.mode = call[t].mode /\ c.stale = call[t].stale /\ c.before = call[t].before
    BY <1>2 DEF CallType
  <2> HIDE DEF c
  <2>5. call' \in [Threads -> CallType] /\ call'[t] = c /\ Alone(t)
    BY <1>2, <2>1, <2>3, CallChanges
  <2>6. Shape' /\ Later
    BY <1>2, <1>3, <2>5, QuietLater DEF Shape
  <2>7. <<call[t].op, "dial">> \in Points(kind)
    BY <1>2, <1>6 DEF XrayCalls, Points, CorePoints
  <2>8. CallInv(t)'
    <3>1. call'[t].rt \in 0 .. Len(rts')
      BY <1>2, <1>3, <2>4, <2>5 DEF CallInv, Quiet
    <3>2. call[t].op \notin Stops \cup {"Check"}
      BY <1>4 DEF Stops
    <3> QED BY <1>2, <2>4, <2>5, <2>6, <2>7, <3>1, <3>2, MovedCall
  <2> QED BY <1>1, <1>3, <1>4, <2>4, <2>5, <2>8, PlainGo
<1> QED BY <1>5, <1>6 DEF PollXray, UrlTest, RunUrlTest, At

\* A Runtime that is not active is replaced: none is active then, and nobody knows the new one.
LEMMA CheckRunningKeeps ==
  ASSUME Inv, kind # "cli", NEW t \in Threads, CheckRunning(t), UNCHANGED <<sup, cyc, main>>
  PROVE  Inv'
<1>1. Shape /\ GenInv /\ LockInv /\ CallInv(t) /\ call[t] \in CallType /\ core \in CoreType
      /\ call[t].pc = "checkRunning" /\ kind \in {"runtime", "app"} /\ core.startMu = NoThread
  BY Kinds DEF Inv, Shape, CheckRunning, At
<1>2. /\ call[t].op \in {"StartOlcrtc", "StartProfileProbeOlcrtc"} /\ ~call[t].stale /\ kind = "app"
      /\ <<call[t].op, "register">> \in Points(kind)
  BY <1>1 DEF CallInv, Points, RuntimePoints, CorePoints
<1>3. UNCHANGED <<scene, runs, gens, sup, cyc, main>> /\ kind' = kind
  BY SameKind DEF CheckRunning
<1> DEFINE refused == core.olcrtcRuntime # 0 /\ isActiveLocked(core.olcrtcRuntime)
           n == Len(rts) + 1
<1>4. CASE refused
  <2>1. ReturnUnlocked(t, "alreadyRunning") /\ UNCHANGED <<rts, registered>>
    BY <1>4 DEF CheckRunning
  <2>2. Quiet /\ registered' \in Modes
    BY <1>1, <1>3, <2>1 DEF Quiet, Shape
  <2> QED BY <1>1, <2>1, <2>2, GivesUp
<1>5. CASE ~refused
  <2> DEFINE c == [call[t] EXCEPT !.pc = "register", !.rt = n]
  <2>1. /\ rts' = Append(rts, NewRuntime) /\ registered' = "current"
        /\ core' = [core EXCEPT !.olcrtcRuntime = n, !.startMu = t]
        /\ call' = [call EXCEPT ![t] = c]
    BY <1>5 DEF CheckRunning
  <2>2. n \in Nat /\ Len(rts) \in Nat /\ Len(runs) \in Nat /\ DOMAIN rts = 1 .. Len(rts) /\ DOMAIN runs = 1 .. Len(runs)
    BY <1>1, Sizes
  <2>3. core.olcrtcRuntime = Len(rts) /\ \A r \in DOMAIN rts : ~isActiveLocked(r)
    BY <1>1, <1>2, <1>5, <2>2 DEF LockInv
  <2>4. /\ rts' \in Seq(RtType) /\ Len(rts') = n /\ rts'[n] = NewRuntime
        /\ \A q \in DOMAIN rts : rts'[q] = rts[q]
    BY <1>1, <2>1, RtMade
  <2>5. DOMAIN rts' = 1 .. n
    BY <2>4, LenProperties
  <2>6. rts'[n].state = "idle" /\ rts'[n].current = 0
    BY <2>4 DEF NewRuntime
  <2>7. n = Len(rts) + 1
    OBVIOUS
  <2> HIDE DEF n
  <2>8. c \in CallType
    BY <1>1, <2>2 DEF CallType, Places
  <2>9. /\ c.pc = "register" /\ c.rt = n /\ c.op = call[t].op /\ c.gen = call[t].gen /\ c.inst = call[t].inst
        /\ c.mode = call[t].mode /\ c.stale = call[t].stale /\ c.before = call[t].before
    BY <1>1 DEF CallType
  <2> HIDE DEF c
  <2>10. call' \in [Threads -> CallType] /\ call'[t] = c /\ Alone(t)
    BY <1>1, <2>1, <2>8, CallChanges
  <2>11. core' \in CoreType
    BY <1>1, <2>1, <2>2 DEF CoreType
  <2>12. /\ core'.olcrtcRuntime = n /\ core'.startMu = t
         /\ core'.probeMu = core.probeMu /\ core'.probeOlcrtc = core.probeOlcrtc
         /\ core'.xray = core.xray /\ core'.probe = core.probe /\ core'.open = core.open /\ core'.made = core.made
    BY <1>1, <2>1 DEF CoreType
  <2>13. Shape'
    <3>1. registered' \in Modes
      BY <2>1 DEF Modes
    <3> QED BY <1>1, <1>3, <2>4, <2>10, <2>11, <3>1 DEF Shape, SupType, Profiles
  <2>14. Later
    BY <1>3, <2>2, <2>4, <2>7 DEF Later, Active
  <2>15. GenInv'
    <3>1. ASSUME NEW k \in DOMAIN runs
          PROVE  /\ gens[k].rt \in 0 .. Len(rts')
                 /\ gens[k].finished => ~Active(k)
                 /\ gens[k].done => gens[k].finished
                 /\ gens[k].rt # 0 /\ ~gens[k].finished =>
                      /\ rts'[gens[k].rt].current = k
                      /\ rts'[gens[k].rt].state \in {"starting", "running", "stopping"}
      <4>1. gens[k].rt \in 0 .. Len(rts) /\ (gens[k].finished => ~Active(k)) /\ (gens[k].done => gens[k].finished)
        BY <1>1 DEF GenInv
      <4>2. gens[k].rt # 0 => gens[k].finished
        BY <1>1, <2>2, <2>3, <4>1 DEF GenInv
      <4> QED BY <2>2, <2>4, <2>7, <4>1, <4>2
    <3>2. ASSUME NEW r \in DOMAIN rts'
          PROVE  /\ rts'[r].current \in 0 .. Len(runs)
                 /\ rts'[r].state \notin {"starting", "running", "stopping"}
                 /\ rts'[r].current # 0 => gens[rts'[r].current].rt = r
      <4>1. CASE r = n
        BY <2>2, <2>6, <4>1
      <4>2. CASE r # n
        <5>1. r \in DOMAIN rts /\ rts'[r] = rts[r]
          BY <2>2, <2>4, <2>5, <2>7, <4>2
        <5> QED BY <1>1, <2>3, <5>1 DEF GenInv, isActiveLocked
      <4> QED BY <4>1, <4>2
    <3>3. Len(gens') = Len(runs')
      BY <1>1, <1>3 DEF GenInv
    <3> QED BY <1>3, <3>1, <3>2, <3>3 DEF GenInv, isActiveLocked, Active
  <2>16. CallInv(t)'
    <3>1. call'[t].rt \in 0 .. Len(rts')
      BY <2>2, <2>4, <2>9, <2>10
    <3>2. call[t].op \notin Stops \cup {"Check"}
      BY <1>2 DEF Stops
    <3> QED BY <1>2, <2>9, <2>10, <2>13, <2>14, <3>1, <3>2, MovedCall
  <2>17. \A u \in Threads \ {t} : /\ call'[u] = call[u] /\ call[u].rt # n
                                  /\ call[u].pc \notin {"register", "configure"}
    <3>1. \A u \in Threads : call[u].rt \in 0 .. Len(rts)
      BY DEF Inv, CallInv
    <3>2. \A u \in Threads : call[u].pc \notin {"register", "configure"}
      BY <1>1, RunLifecycleAssumption DEF LockInv
    <3> QED BY <2>2, <2>7, <2>10, <3>1, <3>2 DEF Alone
  <2>18. LockInv'
    <3>1. \A r \in DOMAIN rts' : ~isActiveLocked(r)'
      <4> SUFFICES ASSUME NEW r \in DOMAIN rts' PROVE ~isActiveLocked(r)'
        OBVIOUS
      <4>1. r # n => r \in DOMAIN rts /\ rts'[r] = rts[r]
        BY <2>2, <2>4, <2>5, <2>7
      <4> QED BY <2>3, <2>6, <4>1 DEF isActiveLocked
    <3>2. ASSUME NEW u \in Threads, call'[u].pc \in {"register", "configure"}
          PROVE  /\ core'.startMu = u /\ call'[u].rt = Len(rts')
                 /\ Len(rts') # 0 /\ rts'[Len(rts')].state = "idle"
                 /\ \A v \in Threads \ {u} :
                       call'[v].op = "StartProfileProbeOlcrtc" => call'[v].rt # call'[u].rt
      <4>1. u = t
        BY <2>17, <3>2
      <4> QED BY <2>2, <2>4, <2>6, <2>7, <2>9, <2>10, <2>12, <2>17, <4>1
    <3>3. ASSUME NEW u \in Threads, InProbe(u)' PROVE core'.probeMu = u
      <4>1. InProbe(u)
        BY <1>1, <1>2, <2>9, <2>10, <2>17, <3>3 DEF InProbe
      <4> QED BY <1>1, <2>12, <4>1 DEF LockInv
    <3> QED BY <1>2, <1>3, <2>4, <2>12, <3>1, <3>2, <3>3 DEF LockInv
  <2>19. ProbeInv'
    <3> SUFFICES ASSUME NEW k \in Probes', Active(k)', ~runs'[k].cancelled
                 PROVE  core'.probeOlcrtc \/ \E u \in Threads : SeesTo(u, k)'
      BY DEF ProbeInv
    <3>1. k \in Owned /\ Active(k) /\ ~runs[k].cancelled /\ gens'[k] = gens[k]
      BY <1>3 DEF Probes, Owned, Active
    <3>2. gens[k].rt \in 0 .. Len(rts)
      BY <1>1, <3>1 DEF GenInv, Owned
    <3>3. PICK u \in Threads : call'[u].op = "StartProfileProbeOlcrtc" /\ call'[u].rt = gens[k].rt
      BY <3>1 DEF Probes
    <3>4. u # t
      BY <2>2, <2>7, <2>9, <2>10, <3>2, <3>3
    <3>5. k \in Probes
      BY <2>17, <3>1, <3>3, <3>4 DEF Probes
    <3>6. core.probeOlcrtc \/ \E v \in Threads : SeesTo(v, k)
      BY <3>1, <3>5 DEF ProbeInv, Inv
    <3>7. ASSUME NEW v \in Threads, SeesTo(v, k) PROVE SeesTo(v, k)'
      <4>1. v # t
        BY <1>1, <1>2, <3>7 DEF SeesTo
      <4> QED BY <2>12, <2>17, <3>1, <3>7, <4>1 DEF SeesTo
    <3> QED BY <2>12, <3>6, <3>7
  <2>20. XrayInv'
    <3>1. \A m \in core.open : ~Closes(t, m)
      BY <1>1, <1>2 DEF Closes
    <3> QED BY <2>10, <2>12, <3>1, XrayKept DEF Inv
  <2> QED BY <2>10, <2>13, <2>14, <2>15, <2>16, <2>18, <2>19, <2>20, LoudStep
<1> QED BY <1>4, <1>5

LEMMA RegisterKeeps ==
  ASSUME Inv, kind # "cli", NEW t \in Threads, RegisterVP8Transport(t), UNCHANGED <<sup, cyc, main>>
  PROVE  Inv'
<1>1. Shape /\ LockInv /\ CallInv(t) /\ call[t] \in CallType /\ core \in CoreType
      /\ call[t].pc = "register" /\ kind \in {"runtime", "app"}
  BY Kinds DEF Inv, Shape, RegisterVP8Transport, At
<1>2. /\ call[t].op \in {"StartOlcrtc", "StartProfileProbeOlcrtc"} /\ ~call[t].stale
      /\ <<call[t].op, "configure">> \in Points(kind)
  BY <1>1 DEF CallInv, Points, RuntimePoints, CorePoints
<1>3. Quiet
  BY DEF RegisterVP8Transport, Quiet
<1>4. CASE call[t].mode \notin Modes
  <2>1. ReturnUnlocked(t, "unsupported") /\ registered' \in Modes
    BY <1>1, <1>4 DEF RegisterVP8Transport, Shape
  <2> QED BY <1>1, <1>3, <2>1, GivesUp
<1>5. CASE call[t].mode \in Modes
  <2>1. registered' \in Modes /\ Goto(t, "configure") /\ core' = core /\ core' \in CoreType /\ "configure" \in Places
    BY <1>1, <1>5 DEF RegisterVP8Transport, Places
  <2>2. /\ call' \in [Threads -> CallType] /\ Alone(t) /\ call'[t].pc = "configure"
        /\ call'[t].op = call[t].op /\ call'[t].rt = call[t].rt /\ call'[t].gen = call[t].gen
        /\ call'[t].mode = call[t].mode /\ call'[t].stale = call[t].stale
        /\ call'[t].before = call[t].before /\ call'[t].inst = call[t].inst
    BY <1>1, <2>1, Goes
  <2>3. Shape' /\ Later /\ kind' = kind /\ Owned' = Owned
    BY <1>3, <2>1, <2>2, QuietLater
  <2>4. CallInv(t)'
    <3>1. call'[t].rt \in 0 .. Len(rts')
      BY <1>1, <1>3, <2>2 DEF CallInv, Quiet
    <3>2. call[t].op \notin Stops \cup {"Check"}
      BY <1>2 DEF Stops
    <3> QED BY <1>2, <1>5, <2>2, <2>3, <3>1, <3>2, MovedCall
  <2>5. \A u \in Threads : /\ call'[u].op = call[u].op /\ call'[u].rt = call[u].rt
                           /\ call'[u].pc \in {"register", "configure"} => call[u].pc \in {"register", "configure"}
                           /\ InProbe(u)' => InProbe(u)
    BY <1>1, <2>2 DEF Alone, InProbe
  <2>6. LockInv'
    <3>1. ASSUME NEW u \in Threads, call'[u].pc \in {"register", "configure"}
          PROVE  /\ core.startMu = u /\ call[u].rt = Len(rts)
                 /\ Len(rts) # 0 /\ rts[Len(rts)].state = "idle"
                 /\ \A v \in Threads \ {u} :
                       call[v].op = "StartProfileProbeOlcrtc" => call[v].rt # call[u].rt
      BY <1>1, <2>5, <3>1 DEF LockInv
    <3>2. \A u \in Threads : InProbe(u)' => core.probeMu = u
      BY <1>1, <2>5 DEF LockInv
    <3>3. /\ kind' = "runtime" => Len(rts) = 1
          /\ kind' = "app" =>
               /\ core.olcrtcRuntime = Len(rts)
               /\ \A r \in DOMAIN rts : isActiveLocked(r) => r = core.olcrtcRuntime
      BY <1>1, <2>3 DEF LockInv
    <3>4. rts' = rts
      BY <1>3 DEF Quiet
    <3> QED BY <2>1, <2>5, <3>1, <3>2, <3>3, <3>4 DEF LockInv, isActiveLocked
  <2>7. ProbeInv'
    <3>1. OthersKeep(t) /\ SameProbe(t)
      BY <2>1, <2>2 DEF OthersKeep, SameProbe
    <3>2. \A k \in Probes' : k <= Len(runs)
      BY <1>1, <2>3, Sizes DEF Probes, Owned
    <3>3. \A k \in Owned : ~SeesTo(t, k)
      BY <1>1, <1>2 DEF SeesTo
    <3> QED BY <1>1, <2>1, <2>3, <3>1, <3>2, <3>3, ProbesKept DEF Inv
  <2>8. XrayInv'
    <3>1. \A m \in core.open : ~Closes(t, m)
      BY <1>1, <1>2 DEF Closes
    <3> QED BY <2>1, <2>2, <3>1, XrayKept DEF Inv
  <2> QED BY <1>3, <2>1, <2>2, <2>4, <2>6, <2>7, <2>8, QuietStep
<1> QED BY <1>4, <1>5

\* The Runtime starts under olcrtcStartMu; a probe's start goes on to set the mark.
LEMMA ConfigureKeeps ==
  ASSUME Inv, kind # "cli", NEW t \in Threads, Configure(t), UNCHANGED <<sup, cyc, main>>
  PROVE  Inv'
<1>1. Shape /\ GenInv /\ LockInv /\ CallInv(t) /\ call[t] \in CallType /\ core \in CoreType
      /\ call[t].pc = "configure" /\ kind \in {"runtime", "app"}
  BY Kinds DEF Inv, Shape, Configure, At
<1>2. /\ call[t].op \in {"StartOlcrtc", "StartProfileProbeOlcrtc"} /\ ~call[t].stale /\ kind = "app"
      /\ call[t].op = "StartProfileProbeOlcrtc" => <<call[t].op, "flagProbe">> \in Points(kind)
      /\ call[t].mode \in Modes
  BY <1>1 DEF CallInv, Points, RuntimePoints, CorePoints
<1>3. UNCHANGED <<scene, registered, sup, cyc, main>> /\ kind' = kind /\ registered' \in Modes
  BY <1>1, SameKind DEF Configure, Shape
<1>4. CASE ReturnUnlocked(t, "invalid") /\ UNCHANGED <<runs, gens, rts>>
  <2>1. Quiet
    BY <1>3, <1>4 DEF Quiet
  <2> QED BY <1>1, <1>3, <1>4, <2>1, GivesUp
<1> DEFINE r == call[t].rt
           n == Len(runs) + 1
           rt == [state |-> "starting", current |-> n, set |-> Required]
<1>5. CASE /\ Launch(r, call[t].mode) /\ rts' = [rts EXCEPT ![r] = rt]
           /\ IF call[t].op = "StartOlcrtc" THEN ReturnUnlocked(t, "nil")
              ELSE core' = [core EXCEPT !.startMu = NoThread] /\ Goto(t, "flagProbe")
  <2>1. /\ core.startMu = t /\ r = Len(rts) /\ Len(rts) # 0 /\ rts[r].state = "idle"
        /\ \A u \in Threads \ {t} : call[u].op = "StartProfileProbeOlcrtc" => call[u].rt # r
    BY <1>1 DEF LockInv
  <2>2. /\ Len(rts) \in Nat /\ Len(runs) \in Nat /\ DOMAIN rts = 1 .. Len(rts) /\ DOMAIN runs = 1 .. Len(runs)
        /\ r \in DOMAIN rts /\ n \in Nat /\ ~isActiveLocked(r)
    BY <1>1, <2>1, Sizes DEF isActiveLocked
  <2>3. rt \in RtType /\ rt.state = "starting" /\ rt.current = n
    <3> HIDE DEF n
    <3> QED BY <2>2 DEF RtType
  <2> HIDE DEF rt
  <2>4. /\ runs' \in Seq(RunType) /\ gens' \in Seq(GenType) /\ rts' \in Seq(RtType)
        /\ DOMAIN runs' = 1 .. n /\ gens'[n].rt = r
        /\ Len(rts') = Len(rts) /\ \A q \in DOMAIN rts : q # r => rts'[q] = rts[q]
        /\ GenInv' /\ Later
    BY <1>1, <1>2, <1>3, <1>5, <2>2, <2>3, LaunchOwned
  <2>5. /\ call' \in [Threads -> CallType] /\ Alone(t) /\ core' \in CoreType
        /\ \A u \in Threads \ {t} : core.probeMu = u => core'.probeMu = u
        /\ core'.olcrtcRuntime = core.olcrtcRuntime /\ core'.probeOlcrtc = core.probeOlcrtc
        /\ core'.xray = core.xray /\ core'.probe = core.probe /\ core'.open = core.open /\ core'.made = core.made
        /\ \/ /\ call[t].op = "StartOlcrtc" /\ Return(t, "nil")
              /\ call'[t].pc = "returned" /\ call'[t].op = "none"
           \/ /\ call[t].op = "StartProfileProbeOlcrtc" /\ core'.probeMu = core.probeMu
              /\ call'[t].pc = "flagProbe" /\ call'[t].op = call[t].op /\ call'[t].rt = r
              /\ call'[t].gen = call[t].gen /\ call'[t].mode = call[t].mode
              /\ call'[t].stale = call[t].stale /\ call'[t].before = call[t].before
    <3>1. CASE call[t].op = "StartOlcrtc"
      <4>1. Return(t, "nil") /\ core' = Unlocked(t)
        BY <1>5, <3>1 DEF ReturnUnlocked
      <4>2. /\ call' \in [Threads -> CallType] /\ Alone(t)
            /\ call'[t].pc = "returned" /\ call'[t].op \in {"none", call[t].op}
            /\ call'[t].op \in {"none", "Check", "StartProfileProbeOlcrtc"} \cup Waits \cup Stops
        BY <1>1, <4>1, Returns
      <4>3. call'[t].op = "none"
        BY <3>1, <4>2 DEF Waits, Stops
      <4>4. /\ core' \in CoreType
            /\ \A u \in Threads \ {t} : core.probeMu = u => core'.probeMu = u
            /\ core'.olcrtcRuntime = core.olcrtcRuntime /\ core'.probeOlcrtc = core.probeOlcrtc
            /\ core'.xray = core.xray /\ core'.probe = core.probe /\ core'.open = core.open /\ core'.made = core.made
        BY <1>1, <4>1, Unlocks
      <4> QED BY <3>1, <4>1, <4>2, <4>3, <4>4
    <3>2. CASE call[t].op = "StartProfileProbeOlcrtc"
      <4>1. Goto(t, "flagProbe") /\ core' = [core EXCEPT !.startMu = NoThread] /\ "flagProbe" \in Places
        BY <1>5, <3>2 DEF Places
      <4>2. /\ call' \in [Threads -> CallType] /\ Alone(t) /\ call'[t].pc = "flagProbe"
            /\ call'[t].op = call[t].op /\ call'[t].rt = r /\ call'[t].gen = call[t].gen
            /\ call'[t].mode = call[t].mode /\ call'[t].stale = call[t].stale
            /\ call'[t].before = call[t].before
        BY <1>1, <4>1, Goes
      <4>3. core' \in CoreType
        BY <1>1, <4>1 DEF CoreType
      <4>4. /\ core'.probeMu = core.probeMu
            /\ core'.olcrtcRuntime = core.olcrtcRuntime /\ core'.probeOlcrtc = core.probeOlcrtc
            /\ core'.xray = core.xray /\ core'.probe = core.probe /\ core'.open = core.open /\ core'.made = core.made
        BY <1>1, <4>1 DEF CoreType
      <4> QED BY <3>2, <4>2, <4>3, <4>4
    <3> QED BY <1>2, <3>1, <3>2
  <2>6. Shape'
    BY <1>1, <1>3, <2>4, <2>5 DEF Shape, SupType, Profiles
  <2>7. CallInv(t)'
    <3>1. CASE call[t].op = "StartOlcrtc"
      <4>1. Return(t, "nil")
        BY <2>5, <3>1
      <4>2. MayReturn(t, "nil")
        BY <3>1 DEF MayReturn, Waits, Stops
      <4> QED BY <1>1, <2>4, <2>6, <4>1, <4>2, ReturnedCall
    <3>2. CASE call[t].op = "StartProfileProbeOlcrtc"
      <4>1. call'[t].rt \in 0 .. Len(rts')
        BY <1>1, <2>4, <2>5, <3>2 DEF CallInv
      <4>2. call[t].op \notin Stops \cup {"Check"}
        BY <3>2 DEF Stops
      <4> QED BY <1>2, <2>4, <2>5, <2>6, <3>2, <4>1, <4>2, MovedCall
    <3> QED BY <1>2, <3>1, <3>2
  <2>8. \A u \in Threads : call'[u].pc \notin {"register", "configure"}
    <3>1. \A u \in Threads \ {t} : call[u].pc \notin {"register", "configure"}
      BY <1>1, <2>1 DEF LockInv
    <3> QED BY <2>5, <3>1 DEF Alone
  <2>9. \A u \in Threads : InProbe(u)' => core'.probeMu = u
    <3> SUFFICES ASSUME NEW u \in Threads, InProbe(u)' PROVE core'.probeMu = u
      OBVIOUS
    <3>1. CASE u = t
      <4>1. call[t].op = "StartProfileProbeOlcrtc" /\ core'.probeMu = core.probeMu
        BY <2>5, <3>1 DEF InProbe
      <4>2. InProbe(t)
        BY <1>1, <4>1 DEF InProbe
      <4> QED BY <1>1, <3>1, <4>1, <4>2 DEF LockInv
    <3>2. CASE u # t
      <4>1. InProbe(u)
        BY <2>5, <3>2 DEF InProbe, Alone
      <4> QED BY <1>1, <2>5, <3>2, <4>1 DEF LockInv
    <3> QED BY <3>1, <3>2
  <2>10. LockInv'
    <3>1. core.olcrtcRuntime = r /\ \A q \in DOMAIN rts : isActiveLocked(q) => q = r
      BY <1>1, <1>2, <2>1 DEF LockInv
    <3>2. \A q \in DOMAIN rts' : isActiveLocked(q)' => q = r
      <4>1. DOMAIN rts' = DOMAIN rts
        BY <2>2, <2>4, LenProperties
      <4> QED BY <2>4, <3>1, <4>1 DEF isActiveLocked
    <3> QED BY <1>2, <1>3, <2>1, <2>4, <2>5, <2>8, <2>9, <3>1, <3>2 DEF LockInv
  <2>11. ProbeInv'
    <3> SUFFICES ASSUME NEW k \in Probes', Active(k)', ~runs'[k].cancelled
                 PROVE  core'.probeOlcrtc \/ \E u \in Threads : SeesTo(u, k)'
      BY DEF ProbeInv
    <3>1. k \in Owned' /\ k \in 1 .. n
      BY <2>4 DEF Probes, Owned
    <3>2. PICK u \in Threads : call'[u].op = "StartProfileProbeOlcrtc" /\ call'[u].rt = gens'[k].rt
      BY DEF Probes
    <3>3. CASE k = n
      <4>1. u = t
        BY <2>1, <2>4, <2>5, <3>2, <3>3 DEF Alone
      <4>2. call'[t].pc = "flagProbe"
        BY <2>5, <3>2, <4>1
      <4>3. InProbe(t)'
        BY <3>2, <4>1, <4>2 DEF InProbe
      <4> QED BY <2>9, <4>2, <4>3 DEF SeesTo
    <3>4. CASE k # n
      <4>1. k \in Owned /\ Active(k)
        <5>1. k <= Len(runs)
          BY <2>2, <3>1, <3>4
        <5> QED BY <1>1, <2>4, <2>6, <3>1, <5>1, OwnedLater
      <4>2. gens'[k].rt = gens[k].rt /\ ~runs[k].cancelled
        BY <2>4, <4>1 DEF Later, Owned
      <4>3. k \in Probes
        BY <2>5, <3>2, <4>1, <4>2 DEF Probes, Alone
      <4>4. core.probeOlcrtc \/ \E v \in Threads : SeesTo(v, k)
        BY <4>1, <4>2, <4>3 DEF Inv, ProbeInv
      <4>5. ASSUME NEW v \in Threads, SeesTo(v, k) PROVE SeesTo(v, k)'
        <5>1. v # t
          BY <1>1, <1>2, <4>5 DEF SeesTo
        <5> QED BY <2>5, <4>2, <4>5, <5>1 DEF SeesTo, Alone
      <4> QED BY <2>5, <4>4, <4>5
    <3> QED BY <3>3, <3>4
  <2>12. XrayInv'
    <3>1. \A m \in core.open : ~Closes(t, m)
      BY <1>1, <1>2 DEF Closes
    <3> QED BY <2>5, <3>1, XrayKept DEF Inv
  <2> QED BY <2>4, <2>5, <2>6, <2>7, <2>10, <2>11, <2>12, LoudStep
<1> QED BY <1>4, <1>5 DEF Configure

LEMMA ThreadStepsKeep ==
  ASSUME Inv, NEW t \in Threads, ThreadSteps(t)
  PROVE  Inv'
<1>1. kind # "cli" /\ UNCHANGED <<sup, cyc, main>>
  BY DEF ThreadSteps, cliVars
<1>2. CASE CallStep(t) /\ UNCHANGED core
  BY <1>1, <1>2, EnterRuntimeKeeps, SetKeeps, StartKeeps, WaitReadyKeeps, WaitCheckKeeps, WaitSelectKeeps,
     StopKeeps, StopWaitKeeps, ProbeStartKeeps, ProbeSelectKeeps, ProbeActionKeeps, ProbeWaitKeeps
  DEF CallStep
<1>3. CASE CoreStep(t)
  BY <1>1, <1>3, EnterCoreKeeps, ProbeLockKeeps, CheckRunningKeeps, RegisterKeeps, ConfigureKeeps,
     FlagProbeKeeps, CaptureKeeps, TakeProbeKeeps, CloseProbeKeeps, StartInstanceKeeps, TakeXrayKeeps,
     CloseXrayKeeps, PollAndTestKeep
  DEF CoreStep
<1> QED BY <1>2, <1>3 DEF ThreadSteps

-----------------------------------------------------------------------------
(* Steps of the command-line program: nobody calls a Runtime or the core.  *)

LEMMA CliIdle ==
  ASSUME Shape', CliInv', kind' = "cli"
  PROVE  Inv'
<1>1. /\ InitCore' /\ rts' = <<>> /\ gens' = <<>> /\ call' = [t \in Threads |-> NoCall]
  BY DEF CliInv
<1>2. \A t \in Threads : call'[t] = NoCall
  BY <1>1
<1>3. /\ NoCall.op = "none" /\ NoCall.pc = "returned" /\ NoCall.rt = 0 /\ NoCall.gen = 0
      /\ NoCall.before = 0 /\ ~NoCall.stale
  BY DEF NoCall
<1>4. GenInv'
  BY DEF GenInv
<1>5. ASSUME NEW t \in Threads PROVE CallInv(t)'
  <2>1. Len(runs') \in Nat /\ Len(rts') \in Nat
    BY DEF Shape
  <2>2. <<"none", "returned">> \in Points(kind')
    BY DEF Points
  <2>3. "none" \notin Stops
    BY DEF Stops
  <2> HIDE DEF NoCall
  <2> QED BY <1>2, <1>3, <2>1, <2>2, <2>3 DEF CallInv
<1>6. LockInv'
  BY <1>2, <1>3 DEF LockInv, InProbe
<1>7. ProbeInv'
  BY <1>2, <1>3 DEF ProbeInv, Probes
<1>8. XrayInv'
  BY <1>1 DEF XrayInv, InitCore
<1> QED BY <1>4, <1>5, <1>6, <1>7, <1>8 DEF Inv

\* What stays as it was while the program runs.
LEMMA CliFrame ==
  ASSUME CliInv, kind = "cli", UNCHANGED <<scene, rts, gens, call, core>>
  PROVE  kind' = "cli" /\ InitCore' /\ rts' = <<>> /\ gens' = <<>> /\ call' = [t \in Threads |-> NoCall]
  BY SameKind DEF CliInv, InitCore

LEMMA RunStepsCli ==
  ASSUME Inv, kind = "cli", NEW k \in DOMAIN runs, RunSteps(k)
  PROVE  Inv'
<1>1. PICK run \in RunType : /\ runs' = [runs EXCEPT ![k] = run] /\ registered' \in Modes
                             /\ UNCHANGED <<scene, gens, rts, call, core, sup, cyc, main>>
                             /\ runs[k].phase # "returned" /\ run.cancelled = runs[k].cancelled
  BY RunMoves DEF Inv
<1>2. Shape /\ CliInv
  BY DEF Inv
<1>3. /\ runs' \in Seq(RunType) /\ Len(runs') = Len(runs) /\ runs'[k] = run
      /\ \A j \in DOMAIN runs : j # k => runs'[j] = runs[j]
  BY <1>1, <1>2, RunChanges
<1>4. Shape'
  BY <1>1, <1>2, <1>3 DEF Shape, SupType, Profiles
<1>5. DOMAIN runs' = DOMAIN runs
  BY <1>2, <1>3, <1>4, Sizes, LenProperties
<1>6. kind' = "cli" /\ InitCore' /\ rts' = <<>> /\ gens' = <<>> /\ call' = [t \in Threads |-> NoCall]
  BY <1>1, <1>2, CliFrame
<1>7. \A j \in DOMAIN runs' : Active(j)' => cyc.pc = "run" /\ j = cyc.k
  BY <1>1, <1>2, <1>3, <1>5 DEF CliInv, Active
<1>8. CliInv'
  BY <1>1, <1>2, <1>5, <1>6, <1>7 DEF CliInv
<1> QED BY <1>4, <1>6, <1>8, CliIdle

\* A run of the program is launched when none is active.
LEMMA Launched ==
  ASSUME Shape, LaunchCycle
  PROVE  /\ runs' \in Seq(RunType) /\ cyc' \in CycType
         /\ cyc'.pc = "run" /\ cyc'.k \in DOMAIN runs'
         /\ \A j \in DOMAIN runs' : j # cyc'.k => j \in DOMAIN runs /\ runs'[j] = runs[j]
<1> DEFINE run == NewRun("current", "registered", main.cancelled)
           n == Len(runs) + 1
<1>1. run \in RunType
  <2>1. main.cancelled \in BOOLEAN
    BY DEF Shape, MainType
  <2> QED BY <2>1 DEF NewRun, RunType, Modes, Results
<1>2. runs' = Append(runs, run) /\ cyc' = [pc |-> "run", k |-> n, rotated |-> FALSE]
  BY DEF LaunchCycle
<1>3. Len(runs) \in Nat /\ DOMAIN runs = 1 .. Len(runs) /\ runs \in Seq(RunType)
  BY Sizes DEF Shape
<1> HIDE DEF run
<1>4. runs' \in Seq(RunType) /\ Len(runs') = n /\ \A j \in 1 .. Len(runs) : runs'[j] = runs[j]
  BY <1>1, <1>2, <1>3, AppendProperties
<1>5. DOMAIN runs' = 1 .. n
  BY <1>4, LenProperties
<1>6. n \in Nat
  BY <1>3
<1>7. cyc'.pc = "run" /\ cyc'.k = n
  BY <1>2
<1>8. cyc' \in CycType
  <2> HIDE DEF n
  <2> QED BY <1>2, <1>6 DEF CycType
<1> QED BY <1>3, <1>4, <1>5, <1>7, <1>8

\* The history stays a sequence of events.
LEMMA HistoryGrows ==
  ASSUME Shape, NEW h \in Seq({"start", "end"} \X Nat \X Nat), NEW event \in {"start", "end"} \X Nat \X Nat
  PROVE  AppendHistory(h, event) \in Seq({"start", "end"} \X Nat \X Nat)
<1> DEFINE S == {"start", "end"} \X Nat \X Nat
           l == Append(h, event)
<1>1. l \in Seq(S) /\ Len(l) \in Nat
  BY AppendProperties
<1>2. scene.historyLimit \in Nat
  BY RunLifecycleAssumption DEF Shape
<1> HIDE DEF S, l
<1>3. ASSUME Len(l) > scene.historyLimit
      PROVE  SubSeq(l, Len(l) - scene.historyLimit + 1, Len(l)) \in Seq(S)
  <2> DEFINE m == Len(l) - scene.historyLimit + 1
  <2>1. m \in 1 .. (Len(l) + 1)
    BY <1>1, <1>2, <1>3
  <2>2. \A i \in m .. Len(l) : l[i] \in S
    BY <1>1, <2>1
  <2> HIDE DEF m
  <2>3. SubSeq(l, m, Len(l)) \in Seq(S)
    BY <1>1, <2>1, <2>2, SubSeqProperties
  <2> QED BY <2>3 DEF m
<1> QED BY <1>1, <1>3 DEF AppendHistory, l, S

LEMMA Bumped ==
  ASSUME NEW S, NEW f \in [S -> Nat], NEW i
  PROVE  [f EXCEPT ![i] = @ + 1] \in [S -> Nat]
<1> DEFINE v == f[i] + 1
<1>1. i \in S => v \in Nat
  OBVIOUS
<1>2. [f EXCEPT ![i] = @ + 1] = [f EXCEPT ![i] = v]
  OBVIOUS
<1> HIDE DEF v
<1>3. [f EXCEPT ![i] = v] \in [S -> Nat]
  BY <1>1
<1> QED BY <1>2, <1>3

LEMMA Tracked ==
  ASSUME Shape
  PROVE  /\ TrackStart(sup.i) \in SupType /\ TrackStart(sup.i).pc = "running"
         /\ TrackEnd(sup.i) \in SupType
<1>1. sup \in SupType
  BY DEF Shape
<1> DEFINE start == AppendHistory(sup.history, <<"start", sup.i, sup.cycle>>)
           end == AppendHistory(sup.history, <<"end", sup.i, sup.cycle>>)
<1>2. start \in Seq({"start", "end"} \X Nat \X Nat) /\ end \in Seq({"start", "end"} \X Nat \X Nat)
  <2>1. sup.history \in Seq({"start", "end"} \X Nat \X Nat) /\ sup.i \in Nat /\ sup.cycle \in Nat
    BY <1>1 DEF SupType
  <2> QED BY <2>1, HistoryGrows
<1> HIDE DEF start, end
<1> DEFINE starts == [sup.starts EXCEPT ![sup.i] = @ + 1]
           failures == [sup.failures EXCEPT ![sup.i] = IF sup.err # "nil" THEN @ + 1 ELSE @]
           cleanEnds == [sup.cleanEnds EXCEPT ![sup.i] = IF sup.err = "nil" THEN @ + 1 ELSE @]
<1>3. starts \in [Profiles -> Nat] /\ failures \in [Profiles -> Nat] /\ cleanEnds \in [Profiles -> Nat]
  <2>1. sup.starts \in [Profiles -> Nat] /\ sup.failures \in [Profiles -> Nat] /\ sup.cleanEnds \in [Profiles -> Nat]
    BY <1>1 DEF SupType
  <2>2. starts \in [Profiles -> Nat]
    BY <2>1, Bumped
  <2>3. failures \in [Profiles -> Nat]
    <3>1. CASE sup.err # "nil"
      <4>1. failures = [sup.failures EXCEPT ![sup.i] = @ + 1]
        BY <3>1
      <4> QED BY <2>1, <4>1, Bumped
    <3>2. CASE sup.err = "nil"
      BY <2>1, <3>2
    <3> QED BY <3>1, <3>2
  <2>4. cleanEnds \in [Profiles -> Nat]
    <3>1. CASE sup.err = "nil"
      <4>1. cleanEnds = [sup.cleanEnds EXCEPT ![sup.i] = @ + 1]
        BY <3>1
      <4> QED BY <2>1, <4>1, Bumped
    <3>2. CASE sup.err # "nil"
      BY <2>1, <3>2
    <3> QED BY <3>1, <3>2
  <2> QED BY <2>2, <2>3, <2>4
<1>4. /\ TrackStart(sup.i) = [sup EXCEPT !.pc = "running", !.active = sup.i, !.starts = starts, !.history = start]
      /\ TrackEnd(sup.i) = [sup EXCEPT !.active = 0, !.failures = failures, !.cleanEnds = cleanEnds, !.history = end]
  BY <1>1 DEF TrackStart, TrackEnd, start, end, SupType
<1> HIDE DEF starts, failures, cleanEnds
<1>5. TrackStart(sup.i) \in SupType
  BY <1>1, <1>2, <1>3, <1>4 DEF SupType
<1>6. TrackEnd(sup.i) \in SupType
  <2> DEFINE z == 0
  <2>1. z \in Nat /\ TrackEnd(sup.i) =
          [sup EXCEPT !.active = z, !.failures = failures, !.cleanEnds = cleanEnds, !.history = end]
    BY <1>4
  <2> HIDE DEF z
  <2> QED BY <1>1, <1>2, <1>3, <2>1 DEF SupType
<1>7. TrackStart(sup.i).pc = "running"
  BY <1>1, <1>4 DEF SupType
<1> QED BY <1>5, <1>6, <1>7

LEMMA CliStepsKeep ==
  ASSUME Inv, CliSteps
  PROVE  Inv'
<1>1. Shape /\ CliInv /\ sup \in SupType /\ cyc \in CycType /\ main \in MainType
  BY DEF Inv, Shape
<1>2. kind = "cli" /\ UNCHANGED <<scene, rts, gens, call, core, registered>>
  BY DEF CliSteps, CliStep, runtimeVars, coreVars, SupervisorStep, SessionStep, RunProfile, RunStops, ProfileEnds,
         RetryDelay, CycleEnd, RestartDelay, MaxDuration, Signal, MainReturns, GraceOver, Alive
<1>3. kind' = "cli" /\ InitCore' /\ rts' = <<>> /\ gens' = <<>> /\ call' = [t \in Threads |-> NoCall]
  BY <1>1, <1>2, CliFrame
<1>4. \A k \in DOMAIN runs : Active(k) => cyc.pc = "run" /\ k = cyc.k
  BY <1>1, <1>2 DEF CliInv
<1>5. /\ cyc.pc # "none" => sup.pc = "running"
      /\ cyc.pc = "run" => cyc.k \in DOMAIN runs
  BY <1>1, <1>2 DEF CliInv
<1>6. SUFFICES /\ runs' \in Seq(RunType) /\ sup' \in SupType /\ cyc' \in CycType /\ main' \in MainType
               /\ cyc'.pc # "none" => sup'.pc = "running"
               /\ cyc'.pc = "run" => cyc'.k \in DOMAIN runs'
               /\ \A k \in DOMAIN runs' : Active(k)' => cyc'.pc = "run" /\ k = cyc'.k
  <2>1. Shape'
    BY <1>1, <1>2, <1>6 DEF Shape, SupType, Profiles
  <2>2. CliInv'
    BY <1>3, <1>6 DEF CliInv
  <2> QED BY <1>3, <2>1, <2>2, CliIdle
<1>7. CASE RunProfile
  <2>1. sup.pc = "next" /\ LaunchCycle /\ main' = main
    BY <1>7 DEF RunProfile
  <2>2. sup' \in SupType /\ sup'.pc = "running"
    <3>1. [sup EXCEPT !.pc = "running"] \in SupType /\ [sup EXCEPT !.pc = "running"].pc = "running"
      BY <1>1 DEF SupType
    <3> QED BY <1>1, <1>7, <3>1, Tracked DEF RunProfile
  <2>3. /\ runs' \in Seq(RunType) /\ cyc' \in CycType
        /\ cyc'.pc = "run" /\ cyc'.k \in DOMAIN runs'
        /\ \A j \in DOMAIN runs' : j # cyc'.k => j \in DOMAIN runs /\ runs'[j] = runs[j]
    BY <1>1, <2>1, Launched
  <2>4. \A k \in DOMAIN runs' : Active(k)' => k = cyc'.k
    BY <1>4, <1>5, <2>1, <2>3 DEF Active
  <2> QED BY <1>1, <2>1, <2>2, <2>3, <2>4
<1>8. CASE RestartDelay
  <2>1. cyc.pc = "delay" /\ main' = main
    BY <1>8 DEF RestartDelay
  <2>2. CASE LaunchCycle /\ sup' = sup
    <3>1. /\ runs' \in Seq(RunType) /\ cyc' \in CycType
          /\ cyc'.pc = "run" /\ cyc'.k \in DOMAIN runs'
          /\ \A j \in DOMAIN runs' : j # cyc'.k => j \in DOMAIN runs /\ runs'[j] = runs[j]
      BY <1>1, <2>2, Launched
    <3>2. \A k \in DOMAIN runs' : Active(k)' => k = cyc'.k
      BY <1>4, <2>1, <3>1 DEF Active
    <3> QED BY <1>1, <1>5, <2>1, <2>2, <3>1, <3>2
  <2>3. CASE SessionReturns("nil") /\ runs' = runs
    <3>1. sup' \in SupType /\ cyc' \in CycType
      BY <1>1, <2>3 DEF SessionReturns, SupType, CycType, Results
    <3>2. cyc'.pc = "none"
      BY <1>1, <2>3 DEF SessionReturns, CycType
    <3>3. \A k \in DOMAIN runs' : ~Active(k)'
      BY <1>4, <2>1, <2>3 DEF Active
    <3>4. runs' \in Seq(RunType)
      BY <1>1, <2>3 DEF Shape
    <3> QED BY <1>1, <2>1, <3>1, <3>2, <3>3, <3>4
  <2> QED BY <1>8, <2>2, <2>3 DEF RestartDelay
<1>9. CASE CycleEnd
  <2>1. cyc.pc = "run" /\ ~Active(cyc.k) /\ main' = main /\ runs' = [runs EXCEPT ![cyc.k] = Collected]
    BY <1>9 DEF CycleEnd
  <2>2. cyc.k \in DOMAIN runs /\ runs[cyc.k] \in RunType /\ sup.pc = "running"
    BY <1>1, <1>5, <2>1, Sizes
  <2>3. Collected \in RunType /\ Collected.phase = "returned"
    BY DEF Collected, NewRun, RunType, Modes, Results
  <2> HIDE DEF Collected
  <2>4. /\ runs' \in Seq(RunType) /\ Len(runs') = Len(runs) /\ runs'[cyc.k] = Collected
        /\ \A j \in DOMAIN runs : j # cyc.k => runs'[j] = runs[j]
    BY <1>1, <2>1, <2>2, <2>3, RunChanges
  <2>5. \A k \in DOMAIN runs' : ~Active(k)'
    <3>1. DOMAIN runs' = DOMAIN runs
      BY <1>1, <2>4, Sizes, LenProperties
    <3> QED BY <1>4, <2>3, <2>4, <3>1 DEF Active
  <2>6. /\ sup' \in SupType /\ cyc' \in CycType /\ cyc'.pc \in {"none", "delay"}
        /\ cyc'.pc = "delay" => sup'.pc = "running"
    <3>1. ASSUME NEW err \in Results \cup {"none"}, SessionReturns(err)
          PROVE  sup' \in SupType /\ cyc' \in CycType /\ cyc'.pc = "none"
      BY <1>1, <3>1 DEF SessionReturns, SupType, CycType
    <3>2. runs[cyc.k].result \in Results \cup {"none"} /\ "nil" \in Results \cup {"none"}
      BY <2>2 DEF RunType, Results
    <3>3. CASE cyc' = [cyc EXCEPT !.pc = "delay"] /\ sup' = sup
      BY <1>1, <2>2, <3>3 DEF CycType
    <3>4. \/ SessionReturns(runs[cyc.k].result) \/ SessionReturns("nil")
          \/ cyc' = [cyc EXCEPT !.pc = "delay"] /\ sup' = sup
      BY <1>9 DEF CycleEnd
    <3> QED BY <3>1, <3>2, <3>3, <3>4
  <2> QED BY <1>1, <2>1, <2>4, <2>5, <2>6
<1>10. CASE MaxDuration
  <2> DEFINE run == [runs[cyc.k] EXCEPT !.cancelled = TRUE]
  <2>1. cyc.pc = "run" /\ UNCHANGED <<sup, main>> /\ cyc' = [cyc EXCEPT !.rotated = TRUE]
    BY <1>10 DEF MaxDuration
  <2>2. cyc.k \in DOMAIN runs /\ runs[cyc.k] \in RunType /\ sup.pc = "running"
    BY <1>1, <1>5, <2>1, Sizes
  <2>3. run \in RunType /\ run.phase = runs[cyc.k].phase
    BY <2>2 DEF RunType
  <2>4. runs' = [runs EXCEPT ![cyc.k] = run]
    BY <1>10 DEF MaxDuration
  <2> HIDE DEF run
  <2>5. /\ runs' \in Seq(RunType) /\ Len(runs') = Len(runs) /\ runs'[cyc.k] = run
        /\ \A j \in DOMAIN runs : j # cyc.k => runs'[j] = runs[j]
    BY <1>1, <2>2, <2>3, <2>4, RunChanges
  <2>6. DOMAIN runs' = DOMAIN runs
    BY <1>1, <2>5, Sizes, LenProperties
  <2>7. cyc' \in CycType
    BY <1>1, <2>1 DEF CycType
  <2>8. cyc'.pc = "run" /\ cyc'.k = cyc.k
    BY <1>1, <2>1 DEF CycType
  <2>9. \A k \in DOMAIN runs' : Active(k)' => k = cyc.k
    BY <1>4, <2>5, <2>6 DEF Active
  <2> QED BY <1>1, <2>1, <2>2, <2>5, <2>6, <2>7, <2>8, <2>9
<1>11. CASE Signal
  <2>1. UNCHANGED <<sup, cyc>> /\ runs' = [k \in DOMAIN runs |-> [runs[k] EXCEPT !.cancelled = TRUE]]
        /\ main' = [pc |-> "grace", cancelled |-> TRUE]
    BY <1>11 DEF Signal
  <2>2. Len(runs) \in Nat /\ DOMAIN runs = 1 .. Len(runs) /\ \A k \in DOMAIN runs : runs[k] \in RunType
    BY <1>1, Sizes
  <2>3. \A k \in 1 .. Len(runs) : [runs[k] EXCEPT !.cancelled = TRUE] \in RunType
    BY <2>2, ZenonT(30) DEF RunType
  <2>4. runs' \in [1 .. Len(runs) -> RunType]
    BY <2>1, <2>2, <2>3
  <2>5. runs' \in Seq(RunType) /\ DOMAIN runs' = DOMAIN runs
    BY <2>2, <2>4, SeqDef
  <2>6. \A k \in DOMAIN runs' : runs'[k].phase = runs[k].phase
    BY <2>1, <2>2 DEF RunType
  <2>7. main' \in MainType
    BY <2>1 DEF MainType
  <2> QED BY <1>1, <1>4, <1>5, <2>1, <2>5, <2>6, <2>7 DEF Active
<1>12. CASE MainReturns \/ GraceOver
  <2>1. UNCHANGED <<runs, sup, cyc>> /\ main' = [main EXCEPT !.pc = "exited"]
    BY <1>12 DEF MainReturns, GraceOver
  <2>2. main' \in MainType
    BY <1>1, <2>1 DEF MainType
  <2> QED BY <1>1, <1>4, <1>5, <2>1, <2>2 DEF Active, Shape
<1>13. CASE RunStops \/ ProfileEnds \/ RetryDelay
  <2>1. UNCHANGED <<runs, cyc, main>> /\ sup.pc # "running"
    BY <1>13 DEF RunStops, ProfileEnds, RetryDelay
  <2>2. cyc.pc = "none"
    BY <1>5, <2>1
  <2>3. sup' \in SupType
    <3>1. CASE RunStops
      BY <1>1, <3>1 DEF RunStops, SupType, Results
    <3>2. CASE ProfileEnds
      <4>1. CASE ~scene.failover
        BY <1>1, <3>2, <4>1 DEF ProfileEnds, SupType, Results
      <4>2. CASE scene.failover /\ main.cancelled
        BY <1>1, <3>2, <4>2 DEF ProfileEnds, SupType, Results
      <4>3. CASE scene.failover /\ ~main.cancelled
        <5> DEFINE e == TrackEnd(sup.i)
        <5>1. e \in SupType
          BY <1>1, Tracked
        <5>2. \/ sup' = [e EXCEPT !.pc = "returned", !.result = "maxCycles"]
              \/ sup' = [e EXCEPT !.pc = "delay"]
          BY <3>2, <4>3 DEF ProfileEnds
        <5> HIDE DEF e
        <5> QED BY <5>1, <5>2, ZenonT(30) DEF SupType
      <4> QED BY <4>1, <4>2, <4>3
    <3>3. CASE RetryDelay
      <4> DEFINE i == IF sup.i < scene.profiles THEN sup.i + 1 ELSE 1
                 c == IF sup.i < scene.profiles THEN sup.cycle ELSE sup.cycle + 1
      <4>1. i \in Nat /\ c \in Nat
        BY <1>1 DEF SupType
      <4>2. sup' = [sup EXCEPT !.pc = "next", !.i = i, !.cycle = c]
        BY <1>1, <3>3 DEF RetryDelay, SupType
      <4> HIDE DEF i, c
      <4> QED BY <1>1, <4>1, <4>2 DEF SupType
    <3> QED BY <1>13, <3>1, <3>2, <3>3
  <2> QED BY <1>1, <1>4, <2>1, <2>2, <2>3 DEF Active, Shape
<1> QED BY <1>7, <1>8, <1>9, <1>10, <1>11, <1>12, <1>13 DEF CliSteps, CliStep, SupervisorStep, SessionStep

-----------------------------------------------------------------------------
LEMMA InitEstablishesInv == Init => Inv
<1> SUFFICES ASSUME Init PROVE Inv
  OBVIOUS
<1>1. /\ scene \in Scenes /\ runs = <<>> /\ registered = "current" /\ gens = <<>>
      /\ call = [t \in Threads |-> NoCall] /\ InitCore /\ InitCli
  BY DEF Init
<1>2. \/ kind # "runtime" /\ rts = <<>>
      \/ \E set \in SUBSET Required : kind = "runtime" /\ rts = <<[NewRuntime EXCEPT !.set = set]>>
  BY DEF Init
<1>3. rts \in Seq(RtType) /\ (kind = "runtime" => Len(rts) = 1) /\ (kind # "runtime" => rts = <<>>)
      /\ \A r \in DOMAIN rts : rts[r].state = "idle" /\ rts[r].current = 0
  <2>1. CASE kind # "runtime" /\ rts = <<>>
    BY <2>1
  <2>2. CASE \E set \in SUBSET Required : kind = "runtime" /\ rts = <<[NewRuntime EXCEPT !.set = set]>>
    <3>1. PICK set \in SUBSET Required : kind = "runtime" /\ rts = <<[NewRuntime EXCEPT !.set = set]>>
      BY <2>2
    <3> DEFINE rt == [NewRuntime EXCEPT !.set = set]
    <3>2. rt \in RtType /\ rt.state = "idle" /\ rt.current = 0
      BY DEF RtType, NewRuntime
    <3>3. rts = <<rt>>
      BY <3>1
    <3> HIDE DEF rt
    <3>4. rts \in Seq(RtType) /\ Len(rts) = 1 /\ DOMAIN rts = {1} /\ rts[1] = rt
      BY <3>2, <3>3
    <3> QED BY <3>1, <3>2, <3>4
  <2> QED BY <1>2, <2>1, <2>2
<1>4. NoCall \in CallType
  BY DEF NoCall, CallType, Operations, Places
<1>5. core \in CoreType
  BY <1>1 DEF InitCore, CoreType
<1>6. sup \in SupType /\ cyc \in CycType /\ main \in MainType
  <2>1. Zeros \in [Profiles -> Nat]
    BY DEF Zeros
  <2>2. <<>> \in Seq({"start", "end"} \X Nat \X Nat)
    OBVIOUS
  <2>3. sup \in SupType
    BY <1>1, <2>1, <2>2 DEF InitCli, SupType
  <2> QED BY <1>1, <2>3 DEF InitCli, CycType, MainType
<1>7. Shape
  BY <1>1, <1>3, <1>4, <1>5, <1>6 DEF Shape, Modes
<1>8. \A t \in Threads : call[t] = NoCall
  BY <1>1
<1>9. /\ NoCall.op = "none" /\ NoCall.pc = "returned" /\ NoCall.rt = 0 /\ NoCall.gen = 0
      /\ NoCall.before = 0 /\ ~NoCall.stale
  BY DEF NoCall
<1>10. Len(runs) = 0 /\ Len(gens) = 0 /\ DOMAIN runs = {} /\ Len(rts) \in Nat
  BY <1>1, <1>7, Sizes
<1>11. CliInv
  BY <1>1, <1>3, <1>10 DEF CliInv, InitCli
<1>12. GenInv
  BY <1>3, <1>10 DEF GenInv, isActiveLocked
<1>13. ASSUME NEW t \in Threads PROVE CallInv(t)
  <2>1. <<"none", "returned">> \in Points(kind)
    BY DEF Points
  <2>2. "none" \notin Stops
    BY DEF Stops
  <2> QED BY <1>8, <1>9, <1>10, <2>1, <2>2 DEF CallInv
<1>14. LockInv
  <2>1. core.olcrtcRuntime = 0
    BY <1>1 DEF InitCore
  <2>2. \A t \in Threads : call[t].pc \notin {"register", "configure"} /\ ~InProbe(t)
    BY <1>8, <1>9 DEF InProbe
  <2>3. rts = <<>> => Len(rts) = 0
    OBVIOUS
  <2> QED BY <1>3, <2>1, <2>2, <2>3 DEF LockInv, isActiveLocked
<1>15. ProbeInv
  BY <1>8, <1>9 DEF ProbeInv, Probes
<1>16. XrayInv
  BY <1>1 DEF XrayInv, InitCore
<1> QED BY <1>7, <1>11, <1>12, <1>13, <1>14, <1>15, <1>16 DEF Inv

LEMMA StutterKeeps ==
  ASSUME Inv, UNCHANGED vars
  PROVE  Inv'
<1>1. UNCHANGED <<scene, runs, registered, rts, gens, call, core, sup, cyc, main>> /\ kind' = kind
  BY SameKind DEF vars, runtimeVars, coreVars, cliVars
<1>2. CASE kind = "cli"
  <2>1. Shape'
    BY <1>1 DEF Inv, Shape, SupType, Profiles
  <2>2. CliInv'
    BY <1>1 DEF Inv, CliInv, InitCore, Active
  <2> QED BY <1>1, <1>2, <2>1, <2>2, CliIdle
<1>3. CASE kind # "cli"
  <2>1. Shape' /\ Later /\ SameRuntimes
    BY <1>1, QuietLater DEF Inv, Shape, Quiet
  <2>2. GenInv'
    BY <1>1 DEF Inv, GenInv, Active, isActiveLocked
  <2> QED BY <1>1, <1>3, <2>1, <2>2, BackgroundStep
<1> QED BY <1>2, <1>3

LEMMA NextKeepsInv == Inv /\ [Next]_vars => Inv'
<1> SUFFICES ASSUME Inv, [Next]_vars PROVE Inv'
  OBVIOUS
<1>1. CASE \E k \in DOMAIN runs : RunSteps(k)
  BY <1>1, RunStepsKeep, RunStepsCli
<1>2. CASE \E k \in DOMAIN runs : GenerationSteps(k)
  BY <1>2, GenerationStepsKeep
<1>3. CASE \E t \in Threads : ThreadSteps(t)
  BY <1>3, ThreadStepsKeep
<1>4. CASE CliSteps
  BY <1>4, CliStepsKeep
<1>5. CASE UNCHANGED vars
  BY <1>5, StutterKeeps
<1> QED BY <1>1, <1>2, <1>3, <1>4, <1>5 DEF Next

\* The owners keep the invariant: the Runtime, the Android core and the program
\* (mobile/runtime.go, mobilecore.go, supervisor.go, cmd/olcrtc/main.go).
THEOREM LifecycleInvariance == Spec => []Inv
  BY InitEstablishesInv, NextKeepsInv, PTL DEF Spec

LEMMA InvTypes == Inv => TypeOK
<1> SUFFICES ASSUME Inv PROVE TypeOK
  OBVIOUS
<1>1. Shape /\ GenInv /\ XrayInv /\ CliInv
  BY DEF Inv
<1>2. \A k \in DOMAIN runs : runs[k] \in RunType
  BY <1>1, Sizes
<1>3. \A r \in DOMAIN rts : rts[r].state \in {"idle", "starting", "running", "stopping", "stopped"}
  BY <1>1, Sizes DEF RtType
<1>4. \A r \in DOMAIN rts : rts[r].current \in 0 .. Len(runs)
  BY <1>1 DEF GenInv, CliInv
<1>5. kind # "cli" => DOMAIN gens = DOMAIN runs
  BY <1>1, Sizes DEF GenInv
<1>6. core.open \subseteq 1 .. core.made /\ {core.xray, core.probe} \subseteq {0} \cup 1 .. core.made
  <2>1. core.made \in Nat
    BY <1>1 DEF Shape, CoreType
  <2> QED BY <1>1, <2>1 DEF XrayInv
<1>7. {core.startMu, core.probeMu} \subseteq Threads \cup {NoThread}
  BY <1>1 DEF Shape, CoreType
<1>8. sup.pc \in {"next", "running", "ended", "delay", "returned"}
  BY <1>1 DEF Shape, SupType
<1>9. cyc.pc \in {"none", "run", "delay"} /\ main.pc \in {"managed", "grace", "exited"}
  BY <1>1 DEF Shape, CycType, MainType
<1> QED BY <1>1, <1>2, <1>3, <1>4, <1>5, <1>6, <1>7, <1>8, <1>9 DEF TypeOK, Shape, RunType

\* Two tunnels never run at once, however the threads of the application call
\* Start, Stop and StartOlcrtc, and whatever the supervisor and the rotation do.
THEOREM OneRunStaysAlone == Spec => []OneRunAtATime
<1>1. Inv => OneRunAtATime
  <2> SUFFICES ASSUME Inv, NEW j \in Owned, NEW k \in Owned, Active(j), Active(k) PROVE j = k
    BY InvTypes DEF OneRunAtATime
  <2>1. Shape /\ GenInv /\ LockInv /\ CliInv /\ kind \in {"runtime", "app", "cli"}
    BY Kinds DEF Inv
  <2>2. CASE kind = "cli"
    BY <2>1, <2>2 DEF CliInv, Owned
  <2>3. CASE kind # "cli"
    <3>1. /\ gens[j].rt \in DOMAIN rts /\ rts[gens[j].rt].current = j /\ isActiveLocked(gens[j].rt)
          /\ gens[k].rt \in DOMAIN rts /\ rts[gens[k].rt].current = k /\ isActiveLocked(gens[k].rt)
      BY <2>1, <2>3, ActiveIsCurrent
    <3>2. gens[j].rt = gens[k].rt
      <4>1. CASE kind = "runtime"
        BY <2>1, <3>1, <4>1, Sizes DEF LockInv
      <4>2. CASE kind = "app"
        BY <2>1, <3>1, <4>2 DEF LockInv
      <4> QED BY <2>1, <2>3, <4>1, <4>2
    <3> QED BY <3>1, <3>2
  <2> QED BY <2>2, <2>3
<1> QED BY <1>1, LifecycleInvariance, PTL

\* WaitReady never reports a generation that had exited when it was called
\* (runtime.go waitGenerationReady).
THEOREM ReadyStaysFresh == Spec => []ReadyIsFresh
<1>1. Inv => ReadyIsFresh
  BY DEF Inv, CallInv, ReadyIsFresh, At
<1> QED BY <1>1, LifecycleInvariance, PTL

\* A Stop that succeeds has waited for every run there was when it was called;
\* Check and Ping cancel their client (runtime.go Stop, probe.go runProbe).
THEOREM StopStaysFinal == Spec => []StopIsFinal
<1>1. Inv => StopIsFinal
  BY DEF Inv, CallInv, StopIsFinal, At
<1> QED BY <1>1, LifecycleInvariance, PTL

\* A probe's client that runs can be stopped, and an Xray instance that runs is
\* known or about to be closed (mobilecore.go StopProfileProbe, StopXray).
THEOREM ProbesStayStoppable == Spec => []ProbeIsStoppable
<1>1. Inv => ProbeIsStoppable
  <2> SUFFICES ASSUME Inv PROVE ProbeIsStoppable
    OBVIOUS
  <2>1. \A t \in Threads : t # NoThread
    BY RunLifecycleAssumption
  <2>2. \A k \in Probes :
          Active(k) /\ ~runs[k].cancelled /\ core.probeMu = NoThread => core.probeOlcrtc
    BY <2>1 DEF Inv, ProbeInv, SeesTo
  <2>3. \A n \in core.open, t \in Threads : Closes(t, n) => call[t].inst = n /\ ~At(t, "returned")
    BY DEF Closes, At
  <2> QED BY <2>2, <2>3 DEF Inv, XrayInv, ProbeIsStoppable
<1> QED BY <1>1, LifecycleInvariance, PTL

-----------------------------------------------------------------------------
(* Failover.  Sums over the profiles come from the least-number principle: *)
(* the least number at which a fact about the partial sums fails.          *)

\* A set of numbers that is not empty has a least one.
LEMMA LeastNumber ==
  ASSUME NEW S, S \subseteq Nat, S # {}
  PROVE  \E n \in S : \A m \in S : n <= m
<1> DEFINE R == OpToRel(<, Nat)
<1>1. IsWellFoundedOn(R, Nat)
  BY NatLessThanWellFounded
<1>2. \A x, y \in Nat : x < y => <<x, y>> \in R
  BY DEF OpToRel
<1> HIDE DEF R
<1>3. \E x \in S : \A y \in S : <<y, x>> \notin R
  BY ONLY <1>1, S \subseteq Nat, S # {}, WFMin
<1>4. PICK x \in S : \A y \in S : <<y, x>> \notin R
  BY <1>3
<1>5. \A y \in S : x \in Nat /\ y \in Nat /\ ~(y < x)
  BY <1>2, <1>4
<1>6. \A y \in S : x <= y
  BY ONLY <1>5, SMT
<1> QED BY <1>6

\* The recursive definition of Total has a solution, and its last value is the total.
LEMMA TotalIsDefined ==
  ASSUME NEW f, scene.profiles \in Nat
  PROVE  \E h : /\ h = [n \in 0 .. scene.profiles |-> IF n = 0 THEN 0 ELSE h[n - 1] + f[n]]
                /\ Total(f) = h[scene.profiles]
<1> DEFINE N == scene.profiles
           Solves(h, m) == h = [n \in 0 .. m |-> IF n = 0 THEN 0 ELSE h[n - 1] + f[n]]
           Bad == {m \in 0 .. N : ~ \E h : Solves(h, m)}
<1>n. N \in Nat
  OBVIOUS
<1> HIDE DEF N
<1>1. Solves([n \in 0 .. 0 |-> 0], 0)
  OBVIOUS
<1>2. ASSUME NEW m \in 0 .. N, m # 0, NEW h, Solves(h, m - 1)
      PROVE  \E g : Solves(g, m)
  <2> DEFINE g == [n \in 0 .. m |-> IF n = m THEN h[m - 1] + f[m] ELSE h[n]]
  <2>1. m \in Nat /\ m - 1 \in Nat /\ \A n \in 0 .. m : n # m => n \in 0 .. (m - 1)
    BY <1>2, <1>n
  <2>2. \A n \in 0 .. m : n # 0 => n - 1 \in 0 .. m /\ n - 1 # m /\ n - 1 \in 0 .. (m - 1)
    BY <2>1
  <2>3. \A n \in 0 .. (m - 1) : h[n] = IF n = 0 THEN 0 ELSE h[n - 1] + f[n]
    BY <1>2
  <2>4. \A n \in 0 .. m : g[n] = IF n = 0 THEN 0 ELSE g[n - 1] + f[n]
    BY <1>2, <2>1, <2>2, <2>3
  <2>5. Solves(g, m)
    BY <2>4
  <2> QED BY <2>5
<1>3. Bad = {}
  <2> SUFFICES ASSUME Bad # {} PROVE FALSE
    OBVIOUS
  <2>1. Bad \subseteq Nat
    BY <1>n
  <2>2. PICK m \in Bad : \A k \in Bad : m <= k
    BY ONLY <2>1, Bad # {}, LeastNumber
  <2>3. m # 0
    BY <1>1, <2>2
  <2>4. m \in 0 .. N /\ m - 1 \in 0 .. N /\ ~(m <= m - 1)
    BY <2>2, <2>3, <1>n
  <2>5. m - 1 \notin Bad
    BY <2>2, <2>4
  <2> QED BY <1>2, <2>2, <2>3, <2>4, <2>5
<1>4. N \in 0 .. N
  BY <1>n
<1>5. \E h : Solves(h, N)
  BY <1>3, <1>4
<1> DEFINE u == CHOOSE h : Solves(h, N)
<1>6. Solves(u, N)
  BY <1>5
<1>7. Total(f) = u[N]
  BY DEF Total, N
<1> QED BY <1>6, <1>7 DEF N

\* Nothing adds up to nothing, and one more of one profile is one more in all.
LEMMA TotalCounts ==
  ASSUME NEW f \in [Profiles -> Nat], scene.profiles \in Nat
  PROVE  /\ Total(f) \in Nat
         /\ (\A i \in Profiles : f[i] = 0) => Total(f) = 0
<1> DEFINE N == scene.profiles
           Zero == \A i \in 1 .. N : f[i] = 0
<1>1. PICK h : h = [n \in 0 .. N |-> IF n = 0 THEN 0 ELSE h[n - 1] + f[n]] /\ Total(f) = h[N]
  BY TotalIsDefined
<1>2. N \in Nat /\ \A n \in 1 .. N : f[n] \in Nat
  BY DEF Profiles
<1> HIDE DEF N
<1>3. \A n \in 0 .. N : h[n] = IF n = 0 THEN 0 ELSE h[n - 1] + f[n]
  BY <1>1
<1> DEFINE Fine(n) == h[n] \in Nat /\ (Zero => h[n] = 0)
           Bad == {n \in 0 .. N : ~Fine(n)}
<1>4. Bad = {}
  <2> SUFFICES ASSUME Bad # {} PROVE FALSE
    OBVIOUS
  <2>1. Bad \subseteq Nat
    BY <1>2
  <2>2. PICK m \in Bad : \A k \in Bad : m <= k
    BY ONLY <2>1, Bad # {}, LeastNumber
  <2>3. m # 0
    BY <1>2, <1>3, <2>2
  <2>4. m \in 1 .. N /\ m - 1 \in 0 .. N /\ ~(m <= m - 1)
    BY <2>2, <2>3, <1>2
  <2>5. Fine(m - 1)
    BY <2>2, <2>4
  <2>6. h[m] = h[m - 1] + f[m]
    BY <1>3, <2>2, <2>3
  <2>7. Fine(m)
    BY <1>2, <2>4, <2>5, <2>6
  <2> QED BY <2>2, <2>7
<1>5. Fine(N)
  BY <1>4, <1>2
<1> QED BY <1>1, <1>5 DEF N, Profiles

LEMMA TotalGrows ==
  ASSUME NEW f \in [Profiles -> Nat], NEW g \in [Profiles -> Nat], scene.profiles \in Nat, NEW i \in Profiles,
         g[i] = f[i] + 1, \A j \in Profiles : j # i => g[j] = f[j]
  PROVE  Total(g) = Total(f) + 1
<1> DEFINE N == scene.profiles
<1>1. PICK h : h = [n \in 0 .. N |-> IF n = 0 THEN 0 ELSE h[n - 1] + f[n]] /\ Total(f) = h[N]
  BY TotalIsDefined
<1>2. PICK u : u = [n \in 0 .. N |-> IF n = 0 THEN 0 ELSE u[n - 1] + g[n]] /\ Total(g) = u[N]
  BY TotalIsDefined
<1>3. /\ N \in Nat /\ \A n \in 1 .. N : f[n] \in Nat /\ g[n] \in Nat /\ (n # i => g[n] = f[n])
      /\ i \in 1 .. N /\ g[i] = f[i] + 1
  BY DEF Profiles
<1> HIDE DEF N
<1>4. \A n \in 0 .. N : h[n] = IF n = 0 THEN 0 ELSE h[n - 1] + f[n]
  BY <1>1
<1>5. \A n \in 0 .. N : u[n] = IF n = 0 THEN 0 ELSE u[n - 1] + g[n]
  BY <1>2
<1> DEFINE Fine(n) == h[n] \in Nat /\ u[n] = h[n] + IF i <= n THEN 1 ELSE 0
           Bad == {n \in 0 .. N : ~Fine(n)}
<1>6. Bad = {}
  <2> SUFFICES ASSUME Bad # {} PROVE FALSE
    OBVIOUS
  <2>1. Bad \subseteq Nat
    BY <1>3
  <2>2. PICK m \in Bad : \A k \in Bad : m <= k
    BY ONLY <2>1, Bad # {}, LeastNumber
  <2>3. m # 0
    <3>1. ~(i <= 0) /\ 0 \in 0 .. N
      BY <1>3
    <3>2. h[0] = 0 /\ u[0] = 0
      BY <1>4, <1>5, <3>1
    <3>3. Fine(0)
      BY <3>1, <3>2
    <3> QED BY <2>2, <3>3
  <2>4. m \in 1 .. N /\ m - 1 \in 0 .. N /\ ~(m <= m - 1)
    BY <2>2, <2>3, <1>3
  <2>5. Fine(m - 1)
    BY <2>2, <2>4
  <2>6. h[m] = h[m - 1] + f[m] /\ u[m] = u[m - 1] + g[m]
    BY <1>4, <1>5, <2>2, <2>3
  <2>7. CASE m = i
    <3>1. ~(i <= m - 1) /\ i <= m
      BY <1>3, <2>4, <2>7
    <3>2. u[m - 1] = h[m - 1] /\ h[m - 1] \in Nat
      BY <2>5, <3>1
    <3>3. Fine(m)
      BY <1>3, <2>6, <2>7, <3>1, <3>2
    <3> QED BY <2>2, <3>3
  <2>8. CASE m # i
    <3>1. (i <= m - 1) <=> (i <= m)
      BY <1>3, <2>4, <2>8
    <3>2. f[m] \in Nat /\ g[m] = f[m]
      BY <1>3, <2>4, <2>8
    <3>3. Fine(m)
      BY <2>5, <2>6, <3>1, <3>2
    <3> QED BY <2>2, <3>3
  <2> QED BY <2>7, <2>8
<1>7. Fine(N) /\ i <= N
  BY <1>3, <1>6
<1> QED BY <1>1, <1>2, <1>7 DEF N

-----------------------------------------------------------------------------
\* What the status says of the supervisor's loops (with profiles): the profiles
\* before the one it is at have been started once in this cycle, the others
\* have not, and only the last attempt of the last cycle ends them.
EventsOf(s) == Total([i \in Profiles |-> s.starts[i] + s.failures[i] + s.cleanEnds[i]])
LoopOf(s) ==
    /\ s.i \in Profiles /\ s.cycle >= 1
    /\ s.pc # "returned" => s.result = "none"
    /\ s.pc \in {"running", "ended"} => s.active = s.i
    /\ s.pc \in {"next", "delay"} => s.active = 0
    /\ scene.maxCycles > 0 =>
         s.cycle <= scene.maxCycles
    /\ scene.maxCycles > 0 /\ s.pc = "delay" /\ s.i = scene.profiles => s.cycle < scene.maxCycles
    /\ s.result = "maxCycles" =>
         s.pc = "returned" /\ s.i = scene.profiles /\ s.cycle = scene.maxCycles
CountOf(s) ==
    \A i \in Profiles :
        /\ s.starts[i] = s.failures[i] + s.cleanEnds[i] + (IF s.active = i THEN 1 ELSE 0)
        /\ s.result # "nil" =>
             s.starts[i] = IF i < s.i \/ (i = s.i /\ s.pc # "next") THEN s.cycle ELSE s.cycle - 1
HistoryOf(s) ==
    /\ Len(s.history) = Min({scene.historyLimit, EventsOf(s)})
    /\ s.history # <<>> => ((s.history[Len(s.history)][1] = "start") <=> (s.active # 0))
FairInv == kind = "cli" /\ scene.failover => LoopOf(sup) /\ CountOf(sup) /\ HistoryOf(sup)

LEMMA LesserOfTwo ==
  ASSUME NEW a \in Nat, NEW b \in Nat
  PROVE  Min({a, b}) = IF a <= b THEN a ELSE b
<1> DEFINE m == IF a <= b THEN a ELSE b
<1>1. m \in {a, b} /\ \A y \in {a, b} : m <= y
  OBVIOUS
<1>2. \A x \in {a, b} : (\A y \in {a, b} : x <= y) => x = m
  OBVIOUS
<1>3. Min({a, b}) = CHOOSE x \in {a, b} : \A y \in {a, b} : x <= y
  BY DEF Min
<1> HIDE DEF m
<1> QED BY <1>1, <1>2, <1>3 DEF m

LEMMA LastPlace ==
  ASSUME NEW n \in Nat, NEW m \in Nat, NEW L \in Nat, n - m + 1 = L
  PROVE  m <= n => m + L - 1 = n /\ L \in 1 .. L
  OBVIOUS

\* An event makes the history longer up to its limit, and is its last.
LEMMA HistoryEnds ==
  ASSUME Shape, NEW h \in Seq({"start", "end"} \X Nat \X Nat), NEW event \in {"start", "end"} \X Nat \X Nat
  PROVE  /\ Len(AppendHistory(h, event)) = IF Len(h) + 1 > scene.historyLimit THEN scene.historyLimit ELSE Len(h) + 1
         /\ AppendHistory(h, event) # <<>> => AppendHistory(h, event)[Len(AppendHistory(h, event))] = event
<1> DEFINE S == {"start", "end"} \X Nat \X Nat
           l == Append(h, event)
           r == AppendHistory(h, event)
<1>1. l \in Seq(S) /\ Len(l) = Len(h) + 1 /\ Len(h) \in Nat /\ l[Len(l)] = event
  BY AppendProperties
<1>2. scene.historyLimit \in Nat
  BY RunLifecycleAssumption DEF Shape
<1>3. r = IF Len(l) > scene.historyLimit THEN SubSeq(l, Len(l) - scene.historyLimit + 1, Len(l)) ELSE l
  BY DEF AppendHistory
<1>4. r \in Seq(S)
  BY HistoryGrows
<1> HIDE DEF S, l, r
<1>5. CASE Len(l) > scene.historyLimit
  <2> DEFINE m == Len(l) - scene.historyLimit + 1
             n == Len(l)
  <2>1. m \in 1 .. (n + 1) /\ n \in Nat /\ n - m + 1 = scene.historyLimit
    BY <1>1, <1>2, <1>5
  <2>2. \A i \in m .. n : l[i] \in S
    BY <1>1, <2>1
  <2>3. r = SubSeq(l, m, n)
    BY <1>3, <1>5
  <2>4. m <= n => m + scene.historyLimit - 1 = n /\ scene.historyLimit \in 1 .. scene.historyLimit
    <3>1. m \in Nat /\ n \in Nat
      BY <2>1
    <3> HIDE DEF m, n
    <3> QED BY ONLY <1>2, <2>1, <3>1, LastPlace
  <2> HIDE DEF m, n
  <2>5. /\ Len(SubSeq(l, m, n)) = IF m <= n THEN n - m + 1 ELSE 0
        /\ \A i \in 1 .. n - m + 1 : SubSeq(l, m, n)[i] = l[m + i - 1]
    BY <1>1, <2>1, <2>2, SubSeqProperties
  <2>6. Len(r) = scene.historyLimit
    BY <1>2, <2>1, <2>3, <2>5
  <2>7. ASSUME r # <<>> PROVE r[Len(r)] = event
    <3>1. Len(r) # 0
      BY <1>4, <2>7, EmptySeq
    <3>2. m <= n
      BY <2>3, <2>5, <3>1
    <3>3. r[scene.historyLimit] = l[m + scene.historyLimit - 1]
      BY <2>1, <2>3, <2>4, <2>5, <3>2
    <3> QED BY <1>1, <2>4, <2>6, <3>2, <3>3 DEF n
  <2> QED BY <1>1, <1>5, <2>6, <2>7 DEF r
<1>6. CASE ~(Len(l) > scene.historyLimit)
  BY <1>1, <1>2, <1>3, <1>6 DEF r
<1> QED BY <1>5, <1>6

\* One more event in the status and in the history.
LEMMA HistoryFollows ==
  ASSUME Shape, HistoryOf(sup), NEW s \in SupType, NEW what \in {"start", "end"},
         s.history = AppendHistory(sup.history, <<what, sup.i, sup.cycle>>),
         EventsOf(s) = EventsOf(sup) + 1, EventsOf(sup) \in Nat,
         (what = "start") <=> (s.active # 0)
  PROVE  HistoryOf(s)
<1> DEFINE event == <<what, sup.i, sup.cycle>>
           L == scene.historyLimit
           E == EventsOf(sup)
           n == Len(sup.history)
<1>1. sup.history \in Seq({"start", "end"} \X Nat \X Nat) /\ event \in {"start", "end"} \X Nat \X Nat
  BY DEF Shape, SupType
<1>2. event[1] = what
  OBVIOUS
<1>3. L \in Nat
  BY RunLifecycleAssumption DEF Shape
<1>4. s.history = AppendHistory(sup.history, event)
  OBVIOUS
<1> HIDE DEF event
<1>5. /\ Len(s.history) = IF n + 1 > L THEN L ELSE n + 1
      /\ s.history # <<>> => s.history[Len(s.history)] = event
  <2> DEFINE h == sup.history
  <2>1. h \in Seq({"start", "end"} \X Nat \X Nat) /\ event \in {"start", "end"} \X Nat \X Nat
    BY <1>1
  <2>2. s.history = AppendHistory(h, event) /\ n = Len(h)
    BY <1>4
  <2> HIDE DEF h, n
  <2>3. /\ Len(AppendHistory(h, event)) = IF Len(h) + 1 > L THEN L ELSE Len(h) + 1
        /\ AppendHistory(h, event) # <<>> => AppendHistory(h, event)[Len(AppendHistory(h, event))] = event
    BY <2>1, HistoryEnds
  <2> QED BY ONLY <2>2, <2>3
<1>6. n = Min({L, E})
  BY DEF HistoryOf
<1>7. E \in Nat /\ E + 1 \in Nat /\ EventsOf(s) = E + 1
  OBVIOUS
<1> HIDE DEF L, E, n
<1>8. n = IF L <= E THEN L ELSE E
  BY <1>3, <1>6, <1>7, LesserOfTwo
<1>9. Min({L, E + 1}) = IF L <= E + 1 THEN L ELSE E + 1
  BY <1>3, <1>7, LesserOfTwo
<1>10. Len(s.history) = Min({L, E + 1})
  BY ONLY <1>3, <1>5, <1>7, <1>8, <1>9, SMT
<1> QED BY <1>2, <1>5, <1>7, <1>10 DEF HistoryOf, L


Counts(s, i) == s.starts[i] + s.failures[i] + s.cleanEnds[i]

LEMMA EventsAreCounted ==
  ASSUME Shape, NEW s \in SupType
  PROVE  [i \in Profiles |-> Counts(s, i)] \in [Profiles -> Nat] /\ EventsOf(s) \in Nat /\ scene.profiles \in Nat
         /\ EventsOf(s) = Total([i \in Profiles |-> Counts(s, i)])
<1>1. scene.profiles \in Nat
  BY RunLifecycleAssumption DEF Shape
<1>2. s.starts \in [Profiles -> Nat] /\ s.failures \in [Profiles -> Nat] /\ s.cleanEnds \in [Profiles -> Nat]
  BY DEF SupType
<1>3. \A i \in Profiles : Counts(s, i) \in Nat
  BY <1>2 DEF Counts
<1> DEFINE f == [i \in Profiles |-> Counts(s, i)]
<1>4. f \in [Profiles -> Nat]
  BY <1>3
<1>5. EventsOf(s) = Total(f)
  BY DEF EventsOf, Counts
<1> HIDE DEF f
<1>6. Total(f) \in Nat
  BY <1>1, <1>4, TotalCounts
<1> QED BY <1>1, <1>4, <1>5, <1>6 DEF f

LEMMA OneMoreEvent ==
  ASSUME Shape, NEW s \in SupType, NEW t \in SupType, NEW i \in Profiles,
         Counts(t, i) = Counts(s, i) + 1, \A j \in Profiles : j # i => Counts(t, j) = Counts(s, j)
  PROVE  EventsOf(t) = EventsOf(s) + 1
<1> DEFINE f == [j \in Profiles |-> Counts(s, j)]
           g == [j \in Profiles |-> Counts(t, j)]
<1>1. /\ f \in [Profiles -> Nat] /\ EventsOf(s) = Total(f)
      /\ g \in [Profiles -> Nat] /\ EventsOf(t) = Total(g) /\ scene.profiles \in Nat
  BY EventsAreCounted
<1>2. g[i] = f[i] + 1 /\ \A j \in Profiles : j # i => g[j] = f[j]
  OBVIOUS
<1> HIDE DEF f, g
<1>3. Total(g) = Total(f) + 1
  BY <1>1, <1>2, TotalGrows
<1> QED BY <1>1, <1>3

\* A profile starts: one more start, nothing else.
LEMMA StartTracked ==
  ASSUME Shape, sup.i \in Profiles, NEW s, s = TrackStart(sup.i)
  PROVE  /\ s \in SupType /\ s.pc = "running" /\ s.active = sup.i
         /\ s.i = sup.i /\ s.cycle = sup.cycle /\ s.result = sup.result
         /\ s.history = AppendHistory(sup.history, <<"start", sup.i, sup.cycle>>)
         /\ \A j \in Profiles : /\ s.failures[j] = sup.failures[j] /\ s.cleanEnds[j] = sup.cleanEnds[j]
                                /\ s.starts[j] = sup.starts[j] + (IF j = sup.i THEN 1 ELSE 0)
         /\ EventsOf(s) = EventsOf(sup) + 1
<1>1. sup \in SupType /\ s \in SupType /\ s.pc = "running"
  BY Tracked DEF Shape
<1>2. sup.starts \in [Profiles -> Nat] /\ sup.failures \in [Profiles -> Nat] /\ sup.cleanEnds \in [Profiles -> Nat]
  BY <1>1 DEF SupType
<1> DEFINE h == AppendHistory(sup.history, <<"start", sup.i, sup.cycle>>)
           u == [sup.starts EXCEPT ![sup.i] = @ + 1]
<1>3. s = [sup EXCEPT !.pc = "running", !.active = sup.i, !.starts = u, !.history = h]
  BY <1>1 DEF TrackStart, SupType
<1>4. \A j \in Profiles : u[j] = sup.starts[j] + (IF j = sup.i THEN 1 ELSE 0)
  BY <1>2
<1> HIDE DEF h, u
<1>5. /\ s.active = sup.i /\ s.i = sup.i /\ s.cycle = sup.cycle /\ s.result = sup.result
      /\ s.history = h /\ s.starts = u /\ s.failures = sup.failures /\ s.cleanEnds = sup.cleanEnds
  BY <1>1, <1>3 DEF SupType
<1>6. Counts(s, sup.i) = Counts(sup, sup.i) + 1 /\ \A j \in Profiles : j # sup.i => Counts(s, j) = Counts(sup, j)
  BY <1>2, <1>4, <1>5 DEF Counts
<1>7. EventsOf(s) = EventsOf(sup) + 1
  BY <1>1, <1>6, OneMoreEvent
<1> QED BY <1>1, <1>4, <1>5, <1>7 DEF h

\* A profile ends: one more failure, or one more clean end.
LEMMA EndTracked ==
  ASSUME Shape, sup.i \in Profiles, NEW s, s = TrackEnd(sup.i)
  PROVE  /\ s \in SupType /\ s.active = 0
         /\ s.i = sup.i /\ s.cycle = sup.cycle /\ s.result = sup.result
         /\ s.history = AppendHistory(sup.history, <<"end", sup.i, sup.cycle>>)
         /\ \A j \in Profiles :
              /\ s.starts[j] = sup.starts[j]
              /\ s.failures[j] + s.cleanEnds[j] = sup.failures[j] + sup.cleanEnds[j] + (IF j = sup.i THEN 1 ELSE 0)
         /\ EventsOf(s) = EventsOf(sup) + 1
<1>1. sup \in SupType /\ s \in SupType
  BY Tracked DEF Shape
<1>2. sup.starts \in [Profiles -> Nat] /\ sup.failures \in [Profiles -> Nat] /\ sup.cleanEnds \in [Profiles -> Nat]
  BY <1>1 DEF SupType
<1> DEFINE h == AppendHistory(sup.history, <<"end", sup.i, sup.cycle>>)
           u == [sup.failures EXCEPT ![sup.i] = IF sup.err # "nil" THEN @ + 1 ELSE @]
           v == [sup.cleanEnds EXCEPT ![sup.i] = IF sup.err = "nil" THEN @ + 1 ELSE @]
<1>3. s = [sup EXCEPT !.active = 0, !.failures = u, !.cleanEnds = v, !.history = h]
  BY <1>1 DEF TrackEnd, SupType
<1>4. \A j \in Profiles : u[j] + v[j] = sup.failures[j] + sup.cleanEnds[j] + (IF j = sup.i THEN 1 ELSE 0)
  BY <1>2
<1> HIDE DEF h, u, v
<1>5. /\ s.active = 0 /\ s.i = sup.i /\ s.cycle = sup.cycle /\ s.result = sup.result
      /\ s.history = h /\ s.starts = sup.starts /\ s.failures = u /\ s.cleanEnds = v
  BY <1>1, <1>3 DEF SupType
<1>6. \A j \in Profiles : s.failures[j] \in Nat /\ s.cleanEnds[j] \in Nat
  BY <1>1 DEF SupType
<1>7. Counts(s, sup.i) = Counts(sup, sup.i) + 1 /\ \A j \in Profiles : j # sup.i => Counts(s, j) = Counts(sup, j)
  <2>1. ASSUME NEW j \in Profiles
        PROVE  Counts(s, j) = Counts(sup, j) + (IF j = sup.i THEN 1 ELSE 0)
    <3>1. /\ sup.starts[j] \in Nat /\ sup.failures[j] \in Nat /\ sup.cleanEnds[j] \in Nat
          /\ s.failures[j] \in Nat /\ s.cleanEnds[j] \in Nat /\ s.starts[j] = sup.starts[j]
          /\ s.failures[j] + s.cleanEnds[j] = sup.failures[j] + sup.cleanEnds[j] + (IF j = sup.i THEN 1 ELSE 0)
      BY <1>2, <1>4, <1>5, <1>6, <2>1
    <3> QED BY ONLY <3>1, SMT DEF Counts
  <2>2. Counts(sup, sup.i) \in Nat /\ \A j \in Profiles : Counts(sup, j) \in Nat
    BY <1>2 DEF Counts
  <2> QED BY <2>1, <2>2
<1>8. EventsOf(s) = EventsOf(sup) + 1
  BY <1>1, <1>7, OneMoreEvent
<1> QED BY <1>1, <1>4, <1>5, <1>8 DEF h

\* The parts of the status a step may leave alone.
LEMMA SameEvents ==
  ASSUME NEW s, NEW t, s.starts = t.starts, s.failures = t.failures, s.cleanEnds = t.cleanEnds
  PROVE  EventsOf(s) = EventsOf(t)
  BY DEF EventsOf

LEMMA FairFrame ==
  ASSUME UNCHANGED scene, kind = "cli" /\ scene.failover => LoopOf(sup') /\ CountOf(sup') /\ HistoryOf(sup')
  PROVE  FairInv'
<1>1. kind' = kind /\ Profiles' = Profiles
  BY SameKind DEF Profiles
<1>2. EventsOf(sup)' = EventsOf(sup')
  BY <1>1 DEF EventsOf, Total
<1> QED BY <1>1, <1>2 DEF FairInv, LoopOf, CountOf, HistoryOf


LEMMA FairQuiet ==
  ASSUME FairInv, UNCHANGED <<scene, sup>>
  PROVE  FairInv'
  BY FairFrame DEF FairInv

LEMMA RunProfileFair ==
  ASSUME Shape, FairInv, kind = "cli", scene.failover, RunProfile
  PROVE  FairInv'
<1> DEFINE s == sup'
<1>1. LoopOf(sup) /\ CountOf(sup) /\ HistoryOf(sup) /\ sup \in SupType
  BY DEF FairInv, Shape
<1>2. UNCHANGED scene /\ sup.pc = "next" /\ s = TrackStart(sup.i)
  BY DEF RunProfile
<1>3. sup.i \in Profiles /\ sup.active = 0 /\ sup.result = "none"
  BY <1>1, <1>2 DEF LoopOf
<1> HIDE DEF s
<1>4. /\ s \in SupType /\ s.pc = "running" /\ s.active = sup.i
      /\ s.i = sup.i /\ s.cycle = sup.cycle /\ s.result = sup.result
      /\ s.history = AppendHistory(sup.history, <<"start", sup.i, sup.cycle>>)
      /\ \A j \in Profiles : /\ s.failures[j] = sup.failures[j] /\ s.cleanEnds[j] = sup.cleanEnds[j]
                             /\ s.starts[j] = sup.starts[j] + (IF j = sup.i THEN 1 ELSE 0)
      /\ EventsOf(s) = EventsOf(sup) + 1
  BY <1>2, <1>3, StartTracked
<1>5. LoopOf(s)
  BY <1>1, <1>3, <1>4 DEF LoopOf
<1>6. CountOf(s)
  <2> SUFFICES ASSUME NEW j \in Profiles
               PROVE  /\ s.starts[j] = s.failures[j] + s.cleanEnds[j] + (IF s.active = j THEN 1 ELSE 0)
                      /\ s.starts[j] = IF j < s.i \/ (j = s.i /\ s.pc # "next") THEN s.cycle ELSE s.cycle - 1
    BY DEF CountOf
  <2>1. /\ sup.starts[j] \in Nat /\ sup.failures[j] \in Nat /\ sup.cleanEnds[j] \in Nat /\ sup.cycle \in Nat
        /\ j \in Nat /\ sup.i \in Nat /\ sup.i # 0 /\ j # 0
    <3>1. sup.starts[j] \in Nat /\ sup.failures[j] \in Nat /\ sup.cleanEnds[j] \in Nat /\ sup.cycle \in Nat
      BY <1>1 DEF SupType
    <3>2. scene.profiles \in Nat
      BY RunLifecycleAssumption DEF Shape
    <3> QED BY <1>3, <3>1, <3>2 DEF Profiles
  <2>2. /\ sup.starts[j] = sup.failures[j] + sup.cleanEnds[j]
        /\ sup.starts[j] = IF j < sup.i THEN sup.cycle ELSE sup.cycle - 1
    BY <1>1, <1>2, <1>3, <2>1 DEF CountOf
  <2>3. /\ s.failures[j] = sup.failures[j] /\ s.cleanEnds[j] = sup.cleanEnds[j]
        /\ s.starts[j] = sup.starts[j] + (IF j = sup.i THEN 1 ELSE 0)
        /\ s.active = sup.i /\ s.i = sup.i /\ s.cycle = sup.cycle
    BY <1>4
  <2>4. s.pc # "next"
    BY <1>4
  <2>5. s.starts[j] = s.failures[j] + s.cleanEnds[j] + (IF s.active = j THEN 1 ELSE 0)
    BY ONLY <2>1, <2>2, <2>3, SMT
  <2>6. s.starts[j] = IF j < s.i \/ j = s.i THEN s.cycle ELSE s.cycle - 1
    BY ONLY <2>1, <2>2, <2>3, SMT
  <2> QED BY <2>4, <2>5, <2>6
<1>7. EventsOf(sup) \in Nat
  BY <1>1, EventsAreCounted
<1>8. s.active # 0
  BY <1>3, <1>4 DEF Profiles
<1>9. HistoryOf(s)
  BY <1>1, <1>4, <1>7, <1>8, HistoryFollows
<1> QED BY <1>2, <1>5, <1>6, <1>9, FairFrame DEF s

LEMMA ProfileEndsFair ==
  ASSUME Shape, FairInv, kind = "cli", scene.failover, ProfileEnds
  PROVE  FairInv'
<1> DEFINE s == sup'
           e == TrackEnd(sup.i)
<1>1. LoopOf(sup) /\ CountOf(sup) /\ HistoryOf(sup) /\ sup \in SupType
  BY DEF FairInv, Shape
<1>2. UNCHANGED scene /\ sup.pc = "ended"
  BY DEF ProfileEnds
<1>3. sup.i \in Profiles /\ sup.active = sup.i /\ sup.result = "none"
  BY <1>1, <1>2 DEF LoopOf
<1>4. scene.profiles \in Nat /\ scene.maxCycles \in Nat
  BY RunLifecycleAssumption DEF Shape
<1>5. CASE main.cancelled
  <2>1. s = [sup EXCEPT !.pc = "returned", !.result = "nil"]
    BY <1>5 DEF ProfileEnds
  <2> HIDE DEF s
  <2>2. /\ s.pc = "returned" /\ s.result = "nil" /\ s.i = sup.i /\ s.cycle = sup.cycle /\ s.active = sup.active
        /\ s.starts = sup.starts /\ s.failures = sup.failures /\ s.cleanEnds = sup.cleanEnds
        /\ s.history = sup.history
    BY <1>1, <2>1 DEF SupType
  <2>3. EventsOf(s) = EventsOf(sup)
    BY <2>2, SameEvents
  <2>4. LoopOf(s)
    BY <1>1, <2>2 DEF LoopOf
  <2>5. CountOf(s)
    BY <1>1, <2>2 DEF CountOf
  <2>6. HistoryOf(s)
    BY <1>1, <2>2, <2>3 DEF HistoryOf
  <2> QED BY <1>2, <2>4, <2>5, <2>6, FairFrame DEF s
<1>6. CASE ~main.cancelled
  <2>1. s = IF LastAttempt THEN [e EXCEPT !.pc = "returned", !.result = "maxCycles"]
            ELSE [e EXCEPT !.pc = "delay"]
    BY <1>6 DEF ProfileEnds
  <2>2. e = TrackEnd(sup.i)
    OBVIOUS
  <2> HIDE DEF e, s
  <2>3. /\ e \in SupType /\ e.active = 0
        /\ e.i = sup.i /\ e.cycle = sup.cycle /\ e.result = sup.result
        /\ e.history = AppendHistory(sup.history, <<"end", sup.i, sup.cycle>>)
        /\ \A j \in Profiles :
              /\ e.starts[j] = sup.starts[j]
              /\ e.failures[j] + e.cleanEnds[j] = sup.failures[j] + sup.cleanEnds[j] + (IF j = sup.i THEN 1 ELSE 0)
        /\ EventsOf(e) = EventsOf(sup) + 1
    BY <1>3, <2>2, EndTracked
  <2>4. /\ s.pc = IF LastAttempt THEN "returned" ELSE "delay"
        /\ s.result = IF LastAttempt THEN "maxCycles" ELSE "none"
        /\ s.active = 0 /\ s.i = sup.i /\ s.cycle = sup.cycle /\ s.history = e.history
        /\ s.starts = e.starts /\ s.failures = e.failures /\ s.cleanEnds = e.cleanEnds
    BY <1>3, <2>1, <2>3 DEF SupType
  <2>5. s \in SupType
    BY <2>1, <2>3, ZenonT(30) DEF SupType
  <2>6. LoopOf(s)
    <3>1. sup.cycle \in Nat /\ sup.cycle >= 1 /\ (scene.maxCycles > 0 => sup.cycle <= scene.maxCycles)
      BY <1>1 DEF LoopOf, SupType
    <3>2. LastAttempt => sup.i = scene.profiles /\ sup.cycle = scene.maxCycles
      BY <1>4, <3>1 DEF LastAttempt
    <3>3. ~LastAttempt /\ scene.maxCycles > 0 /\ sup.i = scene.profiles => sup.cycle < scene.maxCycles
      BY <1>4, <3>1 DEF LastAttempt
    <3> HIDE DEF LastAttempt
    <3> QED BY <1>3, <2>4, <3>1, <3>2, <3>3 DEF LoopOf
  <2>7. CountOf(s)
    <3> SUFFICES ASSUME NEW j \in Profiles
                 PROVE  /\ s.starts[j] = s.failures[j] + s.cleanEnds[j] + (IF s.active = j THEN 1 ELSE 0)
                        /\ s.starts[j] = IF j < s.i \/ (j = s.i /\ s.pc # "next") THEN s.cycle ELSE s.cycle - 1
      BY DEF CountOf
    <3>1. /\ sup.starts[j] \in Nat /\ sup.failures[j] \in Nat /\ sup.cleanEnds[j] \in Nat
          /\ j \in Nat /\ sup.i \in Nat /\ sup.i # 0 /\ j # 0
      <4>1. sup.starts[j] \in Nat /\ sup.failures[j] \in Nat /\ sup.cleanEnds[j] \in Nat
        BY <1>1 DEF SupType
      <4> QED BY <1>3, <1>4, <4>1 DEF Profiles
    <3>2. s.starts[j] \in Nat /\ s.failures[j] \in Nat /\ s.cleanEnds[j] \in Nat
      BY <2>5 DEF SupType
    <3>3. sup.starts[j] = sup.failures[j] + sup.cleanEnds[j] + (IF sup.i = j THEN 1 ELSE 0)
      BY <1>1, <1>3 DEF CountOf
    <3>4. sup.starts[j] = IF j < sup.i \/ j = sup.i THEN sup.cycle ELSE sup.cycle - 1
      BY <1>1, <1>2, <1>3 DEF CountOf
    <3>5. /\ s.starts[j] = sup.starts[j] /\ s.active = 0 /\ s.i = sup.i /\ s.cycle = sup.cycle
          /\ s.failures[j] + s.cleanEnds[j] = sup.failures[j] + sup.cleanEnds[j] + (IF j = sup.i THEN 1 ELSE 0)
      BY <2>3, <2>4
    <3>6. s.pc # "next"
      BY <2>4
    <3>7. s.starts[j] = s.failures[j] + s.cleanEnds[j] + (IF s.active = j THEN 1 ELSE 0)
      BY ONLY <3>1, <3>2, <3>3, <3>5, SMT
    <3>8. s.starts[j] = IF j < s.i \/ j = s.i THEN s.cycle ELSE s.cycle - 1
      BY ONLY <3>4, <3>5
    <3> QED BY <3>6, <3>7, <3>8
  <2>8. EventsOf(sup) \in Nat /\ EventsOf(s) = EventsOf(sup) + 1
    BY <1>1, <2>3, <2>4, EventsAreCounted, SameEvents
  <2>9. s.active = 0 /\ s.history = AppendHistory(sup.history, <<"end", sup.i, sup.cycle>>)
    BY <2>3, <2>4
  <2>10. HistoryOf(s)
    BY <1>1, <2>5, <2>8, <2>9, HistoryFollows
  <2> QED BY <1>2, <2>6, <2>7, <2>10, FairFrame DEF s
<1> QED BY <1>5, <1>6

LEMMA RetryDelayFair ==
  ASSUME Shape, FairInv, kind = "cli", scene.failover, RetryDelay
  PROVE  FairInv'
<1> DEFINE s == sup'
           i == IF sup.i < scene.profiles THEN sup.i + 1 ELSE 1
           c == IF sup.i < scene.profiles THEN sup.cycle ELSE sup.cycle + 1
<1>1. LoopOf(sup) /\ CountOf(sup) /\ HistoryOf(sup) /\ sup \in SupType
  BY DEF FairInv, Shape
<1>2. UNCHANGED scene /\ sup.pc = "delay"
  BY DEF RetryDelay
<1>3. s = [sup EXCEPT !.pc = "next", !.i = i, !.cycle = c]
  BY <1>1 DEF RetryDelay, SupType
<1>4. sup.i \in Profiles /\ sup.active = 0 /\ sup.result = "none" /\ sup.cycle \in Nat
  BY <1>1, <1>2 DEF LoopOf, SupType
<1>5. scene.profiles \in Nat /\ scene.maxCycles \in Nat /\ sup.i \in Nat /\ sup.i >= 1 /\ sup.i <= scene.profiles
  BY <1>4, RunLifecycleAssumption DEF Shape, Profiles
<1> HIDE DEF s
<1>6. /\ s.pc = "next" /\ s.result = "none" /\ s.i = i /\ s.cycle = c /\ s.active = 0
      /\ s.starts = sup.starts /\ s.failures = sup.failures /\ s.cleanEnds = sup.cleanEnds
      /\ s.history = sup.history
  <2> HIDE DEF i, c
  <2> QED BY <1>1, <1>3, <1>4 DEF SupType
<1>7. LoopOf(s)
  <2>1. i \in Profiles /\ c >= 1 /\ c \in Nat
    BY <1>1, <1>4, <1>5 DEF LoopOf, Profiles
  <2>2. scene.maxCycles > 0 => c <= scene.maxCycles
    <3>1. /\ scene.maxCycles > 0 => sup.cycle <= scene.maxCycles
          /\ scene.maxCycles > 0 /\ sup.i = scene.profiles => sup.cycle < scene.maxCycles
      BY <1>1, <1>2 DEF LoopOf
    <3> QED BY <1>4, <1>5, <3>1
  <2> HIDE DEF i, c
  <2> QED BY <1>6, <2>1, <2>2 DEF LoopOf
<1>8. CountOf(s)
  <2> SUFFICES ASSUME NEW j \in Profiles
               PROVE  /\ s.starts[j] = s.failures[j] + s.cleanEnds[j] + (IF s.active = j THEN 1 ELSE 0)
                      /\ s.starts[j] = IF j < s.i \/ (j = s.i /\ s.pc # "next") THEN s.cycle ELSE s.cycle - 1
    BY DEF CountOf
  <2>1. j \in Nat /\ j >= 1 /\ j <= scene.profiles
    BY <1>5 DEF Profiles
  <2>2. sup.starts[j] = IF j < sup.i \/ j = sup.i THEN sup.cycle ELSE sup.cycle - 1
    BY <1>1, <1>2, <1>4 DEF CountOf
  <2>3. sup.starts[j] = sup.failures[j] + sup.cleanEnds[j] + (IF sup.active = j THEN 1 ELSE 0)
    BY <1>1 DEF CountOf
  <2>4. (IF j < sup.i \/ j = sup.i THEN sup.cycle ELSE sup.cycle - 1) = IF j < i THEN c ELSE c - 1
    BY ONLY <1>4, <1>5, <2>1, SMT
  <2>5. s.starts[j] = IF j < s.i THEN s.cycle ELSE s.cycle - 1
    BY <1>6, <2>2, <2>4
  <2> HIDE DEF i, c
  <2> QED BY <1>4, <1>6, <2>3, <2>5
<1>9. HistoryOf(s)
  <2>1. EventsOf(s) = EventsOf(sup)
    BY <1>6, SameEvents
  <2> QED BY <1>1, <1>4, <1>6, <2>1 DEF HistoryOf
<1> QED BY <1>2, <1>7, <1>8, <1>9, FairFrame DEF s

\* The context is over, or the session hands its result over: the status stays.
LEMMA QuietChange ==
  ASSUME Shape, FairInv, kind = "cli", scene.failover, UNCHANGED scene,
         \/ sup.pc = "next" /\ sup' = [sup EXCEPT !.pc = "returned", !.result = "nil"]
         \/ sup.pc = "running" /\ \E err : sup' = [sup EXCEPT !.pc = "ended", !.err = err]
  PROVE  FairInv'
<1> DEFINE s == sup'
<1>1. LoopOf(sup) /\ CountOf(sup) /\ HistoryOf(sup) /\ sup \in SupType
  BY DEF FairInv, Shape
<1>2. /\ s.i = sup.i /\ s.cycle = sup.cycle /\ s.active = sup.active
      /\ s.starts = sup.starts /\ s.failures = sup.failures /\ s.cleanEnds = sup.cleanEnds
      /\ s.history = sup.history
      /\ \/ s.pc = "returned" /\ s.result = "nil"
         \/ s.pc = "ended" /\ sup.pc = "running" /\ s.result = sup.result
  BY <1>1 DEF SupType
<1> HIDE DEF s
<1>3. EventsOf(s) = EventsOf(sup)
  BY <1>2, SameEvents
<1>4. LoopOf(s)
  BY <1>1, <1>2 DEF LoopOf
<1>5. CountOf(s)
  <2> SUFFICES ASSUME NEW j \in Profiles
               PROVE  /\ s.starts[j] = s.failures[j] + s.cleanEnds[j] + (IF s.active = j THEN 1 ELSE 0)
                      /\ s.result # "nil" =>
                           s.starts[j] = IF j < s.i \/ (j = s.i /\ s.pc # "next") THEN s.cycle ELSE s.cycle - 1
    BY DEF CountOf
  <2>1. /\ sup.starts[j] = sup.failures[j] + sup.cleanEnds[j] + (IF sup.active = j THEN 1 ELSE 0)
        /\ sup.result # "nil" =>
             sup.starts[j] = IF j < sup.i \/ (j = sup.i /\ sup.pc # "next") THEN sup.cycle ELSE sup.cycle - 1
    BY <1>1 DEF CountOf
  <2> QED BY <1>2, <2>1
<1>6. HistoryOf(s)
  BY <1>1, <1>2, <1>3 DEF HistoryOf
<1> QED BY <1>4, <1>5, <1>6, FairFrame DEF s

LEMMA ThreadKeepsScene ==
  ASSUME NEW t, ThreadSteps(t)
  PROVE  UNCHANGED scene
<1>1. CASE CallStep(t)
  BY <1>1 DEF CallStep, EnterRuntime, Enter, Set, Start, WaitReady, WaitCheck, WaitSelect, Stop, StopWait,
     ProbeStart, ProbeSelect, ProbeAction, ProbeWait
<1>2. CASE CoreStep(t)
  BY <1>2 DEF CoreStep, EnterCore, Enter, ProbeLock, CheckRunning, RegisterVP8Transport, Configure, FlagProbe,
     Capture, TakeProbe, CloseProbe, StartInstance, TakeXray, CloseXray, PollXray, UrlTest, RunUrlTest
<1> QED BY <1>1, <1>2 DEF ThreadSteps

LEMMA NextKeepsFair == Inv /\ FairInv /\ [Next]_vars => FairInv'
<1> SUFFICES ASSUME Inv, FairInv, [Next]_vars PROVE FairInv'
  OBVIOUS
<1>1. Shape /\ CliInv
  BY DEF Inv
<1>2. CASE ~(kind = "cli" /\ scene.failover)
  <2>1. UNCHANGED scene
    <3>1. ASSUME NEW k \in DOMAIN runs, GenerationSteps(k) PROVE UNCHANGED scene
      BY <3>1 DEF GenerationSteps, MarkReady, Finish, CloseDone
    <3>2. ASSUME NEW k \in DOMAIN runs, RunSteps(k) PROVE UNCHANGED scene
      BY <3>2 DEF RunSteps
    <3>3. ASSUME NEW t \in Threads, ThreadSteps(t) PROVE UNCHANGED scene
      BY <3>3, ThreadKeepsScene
    <3>4. CASE CliSteps
      BY <3>4 DEF CliSteps, CliStep, SupervisorStep, SessionStep, RunProfile, RunStops, ProfileEnds,
         RetryDelay, CycleEnd, RestartDelay, MaxDuration, Signal, MainReturns, GraceOver
    <3> QED BY <3>1, <3>2, <3>3, <3>4 DEF Next, vars
  <2>2. kind' = kind
    BY <2>1, SameKind
  <2> QED BY <1>2, <2>1, <2>2 DEF FairInv
<1>3. CASE kind = "cli" /\ scene.failover
  <2>1. \/ UNCHANGED <<scene, sup>> \/ RunProfile \/ ProfileEnds \/ RetryDelay
        \/ RunStops \/ CycleEnd \/ RestartDelay
    <3>1. ASSUME NEW k \in DOMAIN runs, RunSteps(k) PROVE UNCHANGED <<scene, sup>>
      BY <3>1 DEF RunSteps, cliVars
    <3>2. \A k : ~GenerationSteps(k)
      BY <1>3 DEF GenerationSteps
    <3>3. \A t : ~ThreadSteps(t)
      BY <1>3 DEF ThreadSteps
    <3>4. CASE CliSteps
      BY <3>4 DEF CliSteps, CliStep, SupervisorStep, SessionStep, MaxDuration, Signal, MainReturns, GraceOver
    <3>5. CASE UNCHANGED vars
      BY <3>5 DEF vars, cliVars
    <3> QED BY <3>1, <3>2, <3>3, <3>4, <3>5 DEF Next
  <2>2. CASE RunStops
    <3>1. sup.pc = "next" /\ sup' = [sup EXCEPT !.pc = "returned", !.result = "nil"] /\ UNCHANGED scene
      BY <2>2 DEF RunStops
    <3> QED BY <1>1, <1>3, <3>1, QuietChange
  <2>3. CASE CycleEnd \/ RestartDelay
    <3>1. UNCHANGED scene /\ cyc.pc # "none" /\ (sup' = sup \/ \E err : SessionReturns(err))
      BY <2>3 DEF CycleEnd, RestartDelay
    <3>2. sup.pc = "running"
      BY <1>1, <1>3, <3>1 DEF CliInv
    <3>3. CASE sup' = sup
      BY <3>1, <3>3, FairQuiet
    <3>4. CASE \E err : SessionReturns(err)
      <4>1. \E err : sup' = [sup EXCEPT !.pc = "ended", !.err = err]
        BY <3>4 DEF SessionReturns
      <4> QED BY <1>1, <1>3, <3>1, <3>2, <4>1, QuietChange
    <3> QED BY <3>1, <3>3, <3>4
  <2> QED BY <1>1, <1>3, <2>1, <2>2, <2>3, FairQuiet, RunProfileFair, ProfileEndsFair, RetryDelayFair
<1> QED BY <1>2, <1>3

LEMMA InitFair == Init => FairInv
<1> SUFFICES ASSUME Init, kind = "cli", scene.failover PROVE LoopOf(sup) /\ CountOf(sup) /\ HistoryOf(sup)
  BY DEF FairInv
<1>1. Inv /\ Shape /\ sup \in SupType
  BY InitEstablishesInv DEF Inv, Shape
<1>2. scene.profiles \in Nat /\ scene.profiles > 0 /\ scene.maxCycles \in Nat /\ scene.historyLimit \in Nat
  BY <1>1, RunLifecycleAssumption DEF Shape
<1>3. /\ sup.pc = "next" /\ sup.cycle = 1 /\ sup.i = 1 /\ sup.result = "none" /\ sup.active = 0
      /\ sup.starts = Zeros /\ sup.failures = Zeros /\ sup.cleanEnds = Zeros /\ sup.history = <<>>
  BY DEF Init, InitCli
<1>4. \A i \in Profiles : Zeros[i] = 0 /\ i \in Nat /\ i >= 1
  BY <1>2 DEF Zeros, Profiles
<1>5. LoopOf(sup)
  BY <1>2, <1>3 DEF LoopOf, Profiles
<1>6. CountOf(sup)
  BY <1>3, <1>4 DEF CountOf
<1>7. EventsOf(sup) = 0
  <2> DEFINE f == [i \in Profiles |-> Counts(sup, i)]
  <2>1. f \in [Profiles -> Nat] /\ EventsOf(sup) = Total(f)
    BY <1>1, EventsAreCounted
  <2>2. \A i \in Profiles : f[i] = 0
    BY <1>3, <1>4 DEF Counts
  <2> HIDE DEF f
  <2> QED BY <1>2, <2>1, <2>2, TotalCounts
<1>8. Min({scene.historyLimit, 0}) = 0
  BY <1>2, LesserOfTwo
<1>9. HistoryOf(sup)
  BY <1>3, <1>7, <1>8 DEF HistoryOf
<1> QED BY <1>5, <1>6, <1>9

LEMMA FairInvIsFair == Inv /\ FairInv => FailoverIsFair
<1> SUFFICES ASSUME Inv, FairInv, kind = "cli", scene.failover PROVE FailoverIsFair
  BY DEF FailoverIsFair
<1>1. LoopOf(sup) /\ CountOf(sup) /\ HistoryOf(sup)
  BY DEF FairInv
<1>2. EventsOf(sup) = Events
  BY DEF EventsOf, Events
<1>3. ASSUME sup.result = "maxCycles", NEW i \in Profiles PROVE sup.starts[i] = scene.maxCycles
  <2>1. sup.pc = "returned" /\ sup.i = scene.profiles /\ sup.cycle = scene.maxCycles
    BY <1>1, <1>3 DEF LoopOf
  <2>2. i \in Nat /\ scene.profiles \in Nat /\ i <= scene.profiles
    BY RunLifecycleAssumption DEF Inv, Shape, Profiles
  <2>3. sup.starts[i] = IF i < sup.i \/ (i = sup.i /\ sup.pc # "next") THEN sup.cycle ELSE sup.cycle - 1
    BY <1>1, <1>3 DEF CountOf
  <2> QED BY <2>1, <2>2, <2>3
<1> QED BY <1>1, <1>2, <1>3 DEF FailoverIsFair, CountOf, HistoryOf

\* The supervisor tries the profiles in turn and accounts for what it did,
\* however sessions end, are rotated or are cut off by a signal, and for any
\* number of profiles and cycles and any limit of the history (supervisor.go
\* Run, runCycle, runProfile, statusTracker).
THEOREM FailoverStaysFair == Spec => []FailoverIsFair
<1>1. Init => Inv /\ FairInv
  BY InitEstablishesInv, InitFair
<1>2. Inv /\ FairInv /\ [Next]_vars => Inv' /\ FairInv'
  BY NextKeepsInv, NextKeepsFair
<1> QED BY <1>1, <1>2, FairInvIsFair, PTL DEF Spec
=============================================================================
