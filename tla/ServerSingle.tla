----------------------------- MODULE ServerSingle -----------------------------
(***************************************************************************)
(* The server over a transport that cannot tell peers apart                *)
(* (native/olcrtc/internal/server: serve.go, link.go, health.go).          *)
(*                                                                         *)
(* One smux session at a time is current.  It is replaced ("reinstalled")  *)
(* when its handshake fails, when AcceptStream fails, when its control     *)
(* loop dies and when the provider reconnects; the four callers serialise  *)
(* on reinstallMu and name the session they believe dead.                  *)
(*                                                                         *)
(* No transport in the tree has an isolated control plane without peer     *)
(* routing, so control streams run over the data session and s.session is  *)
(* nil only once the context is cancelled (stateGate never has to wait).   *)
(* A session is numbered when it is installed; a handshake runs at most    *)
(* once over a session, so the number stands for its session ID as well.   *)
(* A replacement that swapSession refuses is closed unused and not shown.  *)
(***************************************************************************)
EXTENDS Naturals, FiniteSets

CONSTANTS
    MaxSessions,  \* sessions an instance may install (bound)
    MaxFaults,    \* failures of sessions, handshakes and the provider (bound)
    MaxOpened,    \* handshakes the peer completes (bound)
    MayCancel     \* TRUE: Run may be cancelled

ASSUME BoundsAssumption ==
    /\ MaxSessions \in Nat \ {0} /\ MaxFaults \in Nat /\ MaxOpened \in Nat
    /\ MayCancel \in BOOLEAN

Sessions == 1 .. MaxSessions
None == 0   \* nil, and the empty session ID
\* The callers of reinstallSession.
Serve == <<"serve", None>>
Provider == <<"provider", None>>
ControlLoop(g) == <<"control", g>>
Owners == {Serve, Provider} \cup {ControlLoop(g) : g \in Sessions}

VARIABLES
    made,      \* sessions installed so far
    cur,       \* Server.session (and pair, conn)
    sess,      \* state of each smux session: "none", "open", "shut"
    sid,       \* Server.sessionID
    stop,      \* Server.controlStop: the session whose control loop it cancels
    serve, at, \* serveSingle: where it is, and its local variable session
    ctl,       \* control loop over each session: "none", "run", "reinstall", "off"
    stopped,   \* sessions whose control loop was cancelled
    provider,  \* the reconnect callback: "idle", "called", "reinstall"
    lost,      \* what handleReconnect read from s.session
    mutex,     \* reinstallMu: phase, holder, the session it takes for dead, what it replaced
    opened, closed,  \* sessions reported to onOpen, and how often to onClose
    ctxDone, run,    \* the context, and Run: "serve", "closing", "wait", "returned"
    closers,   \* closeSession by the context watcher and by shutdown
    faults     \* failures so far

linkVars == <<made, cur, sess, sid, stop>>
logVars  == <<opened, closed>>
endVars  == <<ctxDone, run, closers>>
vars == <<linkVars, serve, at, ctl, stopped, provider, lost, mutex, logVars, endVars, faults>>

Free == [phase |-> "free", by |-> Serve, dead |-> None, old |-> None, oldSid |-> None, oldStop |-> None]
Closers == {"ctx", "shutdown"}
Idle == [phase |-> "idle", pair |-> None, sid |-> None, stop |-> None]

TypeOK ==
    /\ made \in Sessions /\ cur \in Sessions \cup {None}
    /\ sess \in [Sessions -> {"none", "open", "shut"}]
    /\ sid \in Sessions \cup {None} /\ stop \in Sessions \cup {None}
    /\ serve \in {"top", "hs", "opened", "startControl", "accept", "reinstall", "returned"}
    /\ at \in Sessions \cup {None}
    /\ ctl \in [Sessions -> {"none", "run", "reinstall", "off"}]
    /\ stopped \subseteq Sessions
    /\ provider \in {"idle", "called", "reinstall"} /\ lost \in Sessions \cup {None}
    /\ mutex \in [phase : {"free", "closed", "swapped"}, by : Owners, dead : Sessions \cup {None},
                  old : Sessions \cup {None}, oldSid : Sessions \cup {None}, oldStop : Sessions \cup {None}]
    /\ opened \subseteq Sessions /\ closed \in [Sessions -> Nat]
    /\ ctxDone \in BOOLEAN /\ run \in {"serve", "closing", "wait", "returned"}
    /\ closers \in [Closers -> [phase : {"idle", "taken", "done"}, pair : Sessions \cup {None},
                                sid : Sessions \cup {None}, stop : Sessions \cup {None}]]
    /\ faults \in 0 .. MaxFaults

\* bringUpLink: installSession before the link connects.
Init ==
    /\ made = 1 /\ cur = 1
    /\ sess = [g \in Sessions |-> IF g = 1 THEN "open" ELSE "none"]
    /\ sid = None /\ stop = None
    /\ serve = "top" /\ at = None
    /\ ctl = [g \in Sessions |-> "none"] /\ stopped = {}
    /\ provider = "idle" /\ lost = None /\ mutex = Free
    /\ opened = {} /\ closed = [g \in Sessions |-> 0]
    /\ ctxDone = FALSE /\ run = "serve"
    /\ closers = [c \in Closers |-> Idle]
    /\ faults = 0

Fault == faults < MaxFaults /\ faults' = faults + 1

-----------------------------------------------------------------------------
\* serveSingle.

ServeTop ==
    /\ serve = "top"
    /\ \/ ctxDone /\ serve' = "returned" /\ UNCHANGED at
       \/ /\ ~ctxDone /\ cur # None
          /\ at' = cur
          /\ serve' = IF sid = None THEN "hs" ELSE "accept"
    /\ UNCHANGED <<linkVars, ctl, stopped, provider, lost, mutex, logVars, endVars, faults>>

\* acceptHandshake up to and including onOpen and trackPeerOpen.
HandshakeAccepted ==
    /\ serve = "hs" /\ sess[at] = "open" /\ Cardinality(opened) < MaxOpened
    /\ opened' = opened \cup {at}
    /\ serve' = "opened"
    /\ UNCHANGED <<linkVars, at, ctl, stopped, provider, lost, mutex, closed, endVars, faults>>

\* handshake.Server returns an error.
HandshakeRejected ==
    /\ serve = "hs" /\ sess[at] = "open" /\ Fault
    /\ serve' = "reinstall"
    /\ UNCHANGED <<linkVars, at, ctl, stopped, provider, lost, mutex, logVars, endVars>>

\* The session died: AcceptStream fails, which a cancelled context excuses, or a stream
\* that was accepted before does.
HandshakeAborted ==
    /\ serve = "hs" /\ sess[at] = "shut"
    /\ \/ ctxDone /\ serve' = "top"
       \/ serve' = "reinstall"
    /\ UNCHANGED <<linkVars, at, ctl, stopped, provider, lost, mutex, logVars, endVars, faults>>

\* acceptSingletonHandshake: nothing compares the session with the current one.
StoreSessionID ==
    /\ serve = "opened"
    /\ sid' = at
    /\ serve' = "startControl"
    /\ UNCHANGED <<made, cur, sess, stop, at, ctl, stopped, provider, lost, mutex, logVars, endVars, faults>>

StartControlLoop ==
    /\ serve = "startControl"
    /\ stop' = at
    /\ ctl' = [ctl EXCEPT ![at] = "run"]
    /\ serve' = "accept"
    /\ UNCHANGED <<made, cur, sess, sid, at, stopped, provider, lost, mutex, logVars, endVars, faults>>

\* A stream arrives and goes to a goroutine of its own (handleStream).
StreamAccepted ==
    /\ serve = "accept" /\ sess[at] = "open"
    /\ serve' = "top"
    /\ UNCHANGED <<linkVars, at, ctl, stopped, provider, lost, mutex, logVars, endVars, faults>>

\* Mutant of handleAcceptError: it gives up on the session without replacing it.
AcceptErrorIgnored ==
    /\ serve = "accept" /\ sess[at] = "shut"
    /\ serve' = IF ctxDone THEN "returned" ELSE "top"
    /\ UNCHANGED <<linkVars, at, ctl, stopped, provider, lost, mutex, logVars, endVars, faults>>

\* handleAcceptError.  The reconnect it may ask the transport for shows up as a call of
\* the reconnect callback, which can come at any time.
AcceptError ==
    /\ serve = "accept" /\ sess[at] = "shut"
    /\ serve' = IF ctxDone THEN "returned" ELSE "reinstall"
    /\ UNCHANGED <<linkVars, at, ctl, stopped, provider, lost, mutex, logVars, endVars, faults>>

ServeStep ==
    \/ ServeTop \/ HandshakeAborted \/ StoreSessionID \/ StartControlLoop \/ AcceptError

-----------------------------------------------------------------------------
\* reinstallSession, under reinstallMu.

\* Who waits for the mutex, and which session it takes for dead.
Waiting(who) ==
    \/ who = Serve /\ serve = "reinstall"
    \/ who = Provider /\ provider = "reinstall"
    \/ \E g \in Sessions : who = ControlLoop(g) /\ ctl[g] = "reinstall"
Dead(who) == IF who = Serve THEN at ELSE IF who = Provider THEN lost ELSE who[2]

\* The current pair is closed before anything else is looked at.
ReinstallStart(who) ==
    /\ mutex.phase = "free" /\ Waiting(who)
    /\ mutex' = [by |-> who, dead |-> Dead(who), phase |-> "closed",
                 old |-> None, oldSid |-> None, oldStop |-> None]
    /\ sess' = [g \in Sessions |-> IF g = cur THEN "shut" ELSE sess[g]]
    /\ UNCHANGED <<made, cur, sid, stop, serve, at, ctl, stopped, provider, lost, logVars, endVars, faults>>

\* The caller goes on.
Released(who) ==
    /\ mutex' = Free
    /\ serve' = IF who = Serve THEN "top" ELSE serve
    /\ provider' = IF who = Provider THEN "idle" ELSE provider
    /\ ctl' = [g \in Sessions |-> IF who = ControlLoop(g) THEN "off" ELSE ctl[g]]

\* Mutant of staleReinstall: no report is stale.
StaleReinstallNever(dead) == FALSE

\* Another reinstall has already replaced the session this caller saw dying.
StaleReinstall(dead) == dead # None /\ dead # cur

\* swapSession refuses.
SwapRefused ==
    /\ mutex.phase = "closed" /\ StaleReinstall(mutex.dead)
    /\ Released(mutex.by)
    /\ UNCHANGED <<linkVars, at, stopped, lost, logVars, endVars, faults>>

\* swapSession installs the replacement.
Swap ==
    /\ made < MaxSessions
    /\ mutex.phase = "closed" /\ ~StaleReinstall(mutex.dead)
    /\ mutex' = [mutex EXCEPT !.phase = "swapped", !.old = cur, !.oldSid = sid, !.oldStop = stop]
    /\ made' = made + 1
    /\ cur' = made + 1
    /\ sess' = [sess EXCEPT ![made + 1] = "open"]
    /\ sid' = None /\ stop' = None
    /\ UNCHANGED <<serve, at, ctl, stopped, provider, lost, logVars, endVars, faults>>

Report(g) == closed' = [h \in Sessions |-> IF h = g THEN closed[h] + 1 ELSE closed[h]]

\* The rest of swapSession: stop the old control loop, close the old pair, onClose.
SwapFinish ==
    /\ mutex.phase = "swapped"
    /\ stopped' = stopped \cup ({mutex.oldStop} \ {None})
    /\ sess' = [g \in Sessions |-> IF g = mutex.old THEN "shut" ELSE sess[g]]
    /\ Report(mutex.oldSid)
    /\ Released(mutex.by)
    /\ UNCHANGED <<made, cur, sid, stop, at, lost, opened, endVars, faults>>

ReinstallStep == SwapRefused \/ Swap \/ SwapFinish

-----------------------------------------------------------------------------
\* The control loops, the provider and the network.

\* ControlRunner.Run notices that the session is gone: OnDeath, unless it was cancelled.
ControlEnds(g) ==
    /\ ctl[g] = "run"
    /\ \/ (g \in stopped \/ ctxDone) /\ ctl' = [ctl EXCEPT ![g] = "off"]
       \/ /\ g \notin stopped /\ ~ctxDone /\ sess[g] = "shut"
          /\ ctl' = [ctl EXCEPT ![g] = "reinstall"]
    /\ UNCHANGED <<linkVars, serve, at, stopped, provider, lost, mutex, logVars, endVars, faults>>

\* The peer misses its pongs, or sends a close.
ControlDeath(g) ==
    /\ ctl[g] = "run" /\ g \notin stopped /\ ~ctxDone /\ sess[g] = "open" /\ Fault
    /\ ctl' = [ctl EXCEPT ![g] = "reinstall"]
    /\ UNCHANGED <<linkVars, serve, at, stopped, provider, lost, mutex, logVars, endVars>>

\* Keep-alive timeout or a protocol error of smux.
SessionDies ==
    /\ cur # None
    /\ sess[cur] = "open" /\ Fault
    /\ sess' = [sess EXCEPT ![cur] = "shut"]
    /\ UNCHANGED <<made, cur, sid, stop, serve, at, ctl, stopped, provider, lost, mutex, logVars, endVars>>

\* SetReconnectCallback: the context is looked at first, s.session is read later.
ProviderReconnects ==
    /\ provider = "idle" /\ ~ctxDone /\ Fault
    /\ provider' = "called"
    /\ UNCHANGED <<linkVars, serve, at, ctl, stopped, lost, mutex, logVars, endVars>>

HandleReconnect ==
    /\ provider = "called"
    /\ provider' = "reinstall" /\ lost' = cur
    /\ UNCHANGED <<linkVars, serve, at, ctl, stopped, mutex, logVars, endVars, faults>>

-----------------------------------------------------------------------------
\* The end of Run.

Cancel ==
    /\ MayCancel /\ ~ctxDone
    /\ ctxDone' = TRUE
    /\ UNCHANGED <<linkVars, serve, at, ctl, stopped, provider, lost, mutex, logVars, run, closers, faults>>

\* closeSession, first half: everything is taken out under sessMu.
TakeSession(c) ==
    /\ closers' = [closers EXCEPT ![c] = [phase |-> "taken", pair |-> cur, sid |-> sid, stop |-> stop]]
    /\ cur' = None /\ sid' = None /\ stop' = None
    /\ UNCHANGED <<made, sess, serve, at, ctl, stopped, provider, lost, mutex, logVars, ctxDone, faults>>

CtxCloseSession ==
    /\ ctxDone /\ closers["ctx"].phase = "idle"
    /\ TakeSession("ctx")
    /\ UNCHANGED run

\* Mutant: shutdown relies on the context watcher.
ShutdownWithoutClose ==
    /\ serve = "returned" /\ run = "serve"
    /\ run' = "closing"
    /\ closers' = [closers EXCEPT !["shutdown"] = [Idle EXCEPT !.phase = "taken"]]
    /\ UNCHANGED <<linkVars, serve, at, ctl, stopped, provider, lost, mutex, logVars, ctxDone, faults>>

\* serve returned; the deferred shutdown closes s.done and calls closeSession.
ShutdownCloseSession ==
    /\ serve = "returned" /\ run = "serve"
    /\ run' = "closing"
    /\ TakeSession("shutdown")

\* closeSession, second half.
CloseTaken(c) ==
    /\ closers[c].phase = "taken"
    /\ closers' = [closers EXCEPT ![c] = [@ EXCEPT !.phase = "done"]]
    /\ stopped' = stopped \cup ({closers[c].stop} \ {None})
    /\ sess' = [g \in Sessions |-> IF g = closers[c].pair THEN "shut" ELSE sess[g]]
    /\ Report(closers[c].sid)
    /\ run' = IF c = "shutdown" THEN "wait" ELSE run
    /\ UNCHANGED <<made, cur, sid, stop, serve, at, ctl, provider, lost, mutex, opened, ctxDone, faults>>

\* wg.Wait covers the control loops and WatchConnection, which runs the callback.
RunReturns ==
    /\ run = "wait"
    /\ \A g \in Sessions : ctl[g] \in {"none", "off"}
    /\ provider = "idle"
    /\ run' = "returned"
    /\ UNCHANGED <<linkVars, serve, at, ctl, stopped, provider, lost, mutex, logVars, ctxDone, closers, faults>>

EndStep ==
    \/ CtxCloseSession \/ ShutdownCloseSession \/ (\E c \in Closers : CloseTaken(c)) \/ RunReturns

-----------------------------------------------------------------------------
Environment ==
    \/ HandshakeAccepted \/ HandshakeRejected \/ StreamAccepted
    \/ SessionDies \/ ProviderReconnects \/ Cancel
    \/ \E g \in Sessions : ControlDeath(g)

Next ==
    \/ Environment
    \/ ServeStep \/ ReinstallStep \/ HandleReconnect \/ EndStep
    \/ \E who \in Owners : ReinstallStart(who)
    \/ \E g \in Sessions : ControlEnds(g)

Spec == Init /\ [][Next]_vars

\* Goroutines run, and a free mutex goes to one of those that wait for it.  Nothing is
\* assumed of the peer, the network and the provider.
Fairness ==
    /\ WF_vars(ServeStep) /\ WF_vars(HandleReconnect)
    /\ WF_vars(ReinstallStep \/ \E who \in Owners : ReinstallStart(who))
    /\ WF_vars(\E g \in Sessions : ControlEnds(g))
    /\ WF_vars(EndStep)

FairSpec == Spec /\ Fairness

-----------------------------------------------------------------------------
\* A session is reported closed at most once and only after it was reported open, although
\* swapSession and both closeSessions report.
CallbacksPair == \A g \in Sessions : closed[g] <= (IF g \in opened THEN 1 ELSE 0)

\* Every session onOpen announced has been reported closed when Run returns, also one whose
\* handshake landed after its session was replaced.  (The context watcher is not waited
\* for, so its report may still be on the way.)
OpenedSessionsAreClosed ==
    run = "returned" =>
        \A g \in opened : closed[g] = 1 \/ (closers["ctx"].phase = "taken" /\ closers["ctx"].sid = g)

\* onOpen and onClose come in pairs over the whole life of the server.
EveryOpenIsClosedOnce == CallbacksPair /\ OpenedSessionsAreClosed

\* No smux session is leaked: one that is open is current, or in the hands of whoever took
\* it out of the server.
NoSessionLeaks ==
    \A g \in Sessions : sess[g] = "open" =>
        \/ g = cur
        \/ \E c \in Closers : closers[c].phase = "taken" /\ closers[c].pair = g

\* A failure costs at most two sessions and a handshake one: callers that notice a failure
\* later are refused by swapSession (staleReinstall), though they have closed the session
\* that was current, which then has to be replaced as well.
ReinstallsAreBounded == made <= 1 + 2 * faults + Cardinality(opened)

\* The racing callers of reinstallSession neither leak sessions nor replace each other's
\* for ever (and the variables keep their types).
SessionsAreAccounted == TypeOK /\ NoSessionLeaks /\ ReinstallsAreBounded

\* Whatever fails, the server ends up waiting on a session that is current and open, and
\* stays there until the next failure.
ServerRecovers ==
    <>[](\/ ctxDone
         \/ cur # None /\ sess[cur] = "open" /\ at = cur /\ serve \notin {"reinstall", "returned"})

\* Once cancelled, Run returns: whatever it waits for is unblocked by closeSession.
RunReturnsAfterCancel == ctxDone ~> run = "returned"

\* Nobody waits for ever on a session that is gone.
ServerSettles == ServerRecovers /\ RunReturnsAfterCancel
=============================================================================
