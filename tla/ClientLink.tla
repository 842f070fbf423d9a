------------------------------ MODULE ClientLink ------------------------------
(***************************************************************************)
(* The client's link and its SOCKS front end                               *)
(* (native/olcrtc/internal/client: link.go, client.go, health.go,          *)
(* socks.go).                                                              *)
(*                                                                         *)
(* The client keeps one session pair (a data session and the control       *)
(* stream's session).  It is torn down and rebuilt by handleReconnect,     *)
(* called by the provider after it reconnected and by the control loop     *)
(* when it dies; the latter only asks the provider to reconnect and arms   *)
(* a fallback timer in case no callback comes.  The rebuilders serialise   *)
(* on reconnectMu.  SOCKS handlers wait for a session on a channel that is *)
(* replaced, then closed, whenever a pair is installed.                    *)
(*                                                                         *)
(* Pairs are numbered as they are built; the number of an installed pair   *)
(* stands for its session ID and its control loop as well.  The channels   *)
(* of signalSessionReady are numbered by generation.                       *)
(***************************************************************************)
EXTENDS Naturals, FiniteSets

CONSTANTS
    Handlers,          \* SOCKS connections (identities)
    MaxSocksConns,     \* maxSocksConns
    ProviderAttempts,  \* maxHandshakeAttempts(reconnectProvider)
    FallbackAttempts,  \* maxHandshakeAttempts(reconnectFallback)
    ProviderAnswers,   \* TRUE: a requested reconnect is followed by the callback
    MayCancel,         \* TRUE: the context may be cancelled
    MaxFaults          \* deaths, failed handshakes, unasked reconnects (bound)

ASSUME ClientAssumption ==
    /\ IsFiniteSet(Handlers)
    /\ MaxSocksConns \in Nat \ {0}
    /\ ProviderAttempts \in Nat \ {0} /\ FallbackAttempts \in Nat \ {0}
    /\ ProviderAnswers \in BOOLEAN /\ MayCancel \in BOOLEAN
    /\ MaxFaults \in Nat

\* Every fault costs one pair, and a death may be answered twice: by the
\* fallback and, later, by the callback of the reconnect it asked for.
MaxPairs == 1 + 2 * MaxFaults
Pairs == 1 .. MaxPairs
None == 0   \* nil, and the empty session ID

VARIABLES
    made,       \* pairs built so far
    pair,       \* each pair: "none", "open", "cut" (conns closed), "closed"
    session,    \* Client.pair, session, controlSess, controlStrm
    sessionID,  \* Client.sessionID
    conn,       \* Client.conn, controlConn: the pair they belong to
    controlStop,\* Client.controlStop: the control loop it cancels
    ready,      \* Client.sessionReady: generation of the channel
    fired,      \* generations up to this one are closed channels
    mu,         \* reconnectMu: its holder and what the holder is doing
    loop,       \* control loop of each pair: "none", "run", "report", "off"
    stopped,    \* loops whose context was cancelled by controlStop
    provider,   \* the provider's callback: "idle", "called"
    requested,  \* ln.Reconnect was called and no callback came yet
    fallback,   \* the fallback goroutine: "off", "timer", "lock", "try", "clear"
    main,       \* RunWithAddress: "bringup", "failed", "serve", "close", "socks", "wait", "done"
    taken,      \* shutdown: the pair, the conns and the loop it took
    ctxDone,    \* the run context is cancelled
    socks,      \* phase of each SOCKS connection
    view,       \* handleSocks5: what sessionSnapshot returned
    open,       \* SOCKS connections that are not closed
    socksConns, socksClosed,  \* the fields of Client
    faults      \* faults so far

linkVars  == <<session, sessionID, conn, controlStop>>
pairVars  == <<made, pair>>
readyVars == <<ready, fired>>
loopVars  == <<loop, stopped>>
callVars  == <<provider, requested>>
endVars   == <<main, taken, ctxDone>>
socksVars == <<socks, view, open, socksConns, socksClosed>>
vars == <<linkVars, pairVars, readyVars, mu, loopVars, callVars, fallback, endVars, socksVars, faults>>

Callers == {"main", "provider", "liveness", "fallback"}
Steps == {"cut", "detach", "close", "dispatch", "attempt", "handshake", "install", "swap", "fire", "start"}
SocksPhases == {"idle", "accepted", "asking", "asked", "picked", "waiting", "tunnel", "ending"}

Free == [by |-> "nobody", pc |-> "free", attempt |-> 0, old |-> None, oldStop |-> None]
Taking(by, pc) == [Free EXCEPT !.by = by, !.pc = pc, !.attempt = IF pc = "attempt" THEN 1 ELSE 0]

Init ==
    /\ made = 0 /\ pair = [i \in Pairs |-> "none"]
    /\ session = None /\ sessionID = None /\ conn = None /\ controlStop = None
    /\ ready = 1 /\ fired = 0
    /\ mu = Taking("main", "attempt")
    /\ loop = [i \in Pairs |-> "none"] /\ stopped = {}
    /\ provider = "idle" /\ requested = FALSE
    /\ fallback = "off"
    /\ main = "bringup" /\ taken = [pair |-> None, conn |-> None, stop |-> None]
    /\ ctxDone = FALSE
    /\ socks = [h \in Handlers |-> "idle"]
    /\ view = [h \in Handlers |-> [session |-> None, gen |-> 0]]
    /\ open = {} /\ socksConns = {} /\ socksClosed = FALSE
    /\ faults = 0

(***************************************************************************)
(* Helpers                                                                 *)
(***************************************************************************)
Fault == faults < MaxFaults /\ faults' = faults + 1

\* c.sessionEstablished, and the test of handleSocks5 on its snapshot.
Established == session # None /\ pair[session] # "closed" /\ sessionID # None

CloseConns(p, i) == IF i # None /\ p[i] = "open" THEN [p EXCEPT ![i] = "cut"] ELSE p
ClosePair(p, i) == IF i # None THEN [p EXCEPT ![i] = "closed"] ELSE p
StopLoop(i) == stopped' = stopped \cup ({i} \ {None})

\* The pending goroutine ends with its holder of reconnectMu.
Unlock ==
    /\ mu' = Free
    /\ fallback' = IF mu.by = "fallback" THEN "clear" ELSE fallback

\* maxHandshakeAttempts; the bring-up tries once.  A liveness death never gets to
\* retryHandshake, so the unlimited default is not used.
MaxAttempts == CASE mu.by = "provider" -> ProviderAttempts
                 [] mu.by = "fallback" -> FallbackAttempts
                 [] OTHER -> 1

MayRetry == mu.attempt < MaxAttempts

(***************************************************************************)
(* handleReconnect: the teardown                                           *)
(***************************************************************************)
CutConns ==
    /\ mu.pc = "cut"
    /\ pair' = CloseConns(pair, IF session # None THEN session ELSE conn)
    /\ mu' = [mu EXCEPT !.pc = "detach"]
    /\ UNCHANGED <<linkVars, made, readyVars, loopVars, callVars, fallback, endVars, socksVars, faults>>

Detach ==
    /\ mu.pc = "detach"
    /\ mu' = [mu EXCEPT !.pc = "close", !.old = session, !.oldStop = controlStop]
    /\ session' = None /\ sessionID' = None /\ conn' = None /\ controlStop' = None
    /\ UNCHANGED <<pairVars, readyVars, loopVars, callVars, fallback, endVars, socksVars, faults>>

CloseOld ==
    /\ mu.pc = "close"
    /\ StopLoop(mu.oldStop)
    /\ pair' = ClosePair(pair, mu.old)
    /\ mu' = [mu EXCEPT !.pc = "dispatch", !.old = None, !.oldStop = None]
    /\ UNCHANGED <<linkVars, made, readyVars, loop, callVars, fallback, endVars, socksVars, faults>>

\* scheduleLivenessFallback: the compare-and-swap of fallbackPending, which is
\* true exactly while the goroutine exists.
ScheduleFallback == fallback' = IF fallback = "off" THEN "timer" ELSE fallback

\* Mutant: the provider is not asked to reconnect.
DispatchToFallback ==
    /\ mu.pc = "dispatch"
    /\ IF mu.by = "liveness"
       THEN ScheduleFallback /\ mu' = Free
       ELSE mu' = [mu EXCEPT !.pc = "attempt", !.attempt = 1] /\ UNCHANGED fallback
    /\ UNCHANGED <<linkVars, pairVars, readyVars, loopVars, callVars, endVars, socksVars, faults>>

\* A death hands the rebuild to the provider; a callback rebuilds.
Dispatch ==
    /\ mu.pc = "dispatch"
    /\ IF mu.by = "liveness"
       THEN requested' = TRUE /\ ScheduleFallback /\ mu' = Free
       ELSE mu' = [mu EXCEPT !.pc = "attempt", !.attempt = 1] /\ UNCHANGED <<requested, fallback>>
    /\ UNCHANGED <<linkVars, pairVars, readyVars, loopVars, provider, endVars, socksVars, faults>>

(***************************************************************************)
(* retryHandshake, tryReopenSession and the same steps of bringUpLink      *)
(***************************************************************************)
AttemptStops ==
    /\ mu.pc = "attempt" /\ mu.by # "main" /\ ctxDone
    /\ Unlock
    /\ UNCHANGED <<linkVars, pairVars, readyVars, loopVars, callVars, endVars, socksVars, faults>>

\* New conns replace and close the old ones; a session pair is built on them.
Attempt ==
    /\ mu.pc = "attempt" /\ (mu.by = "main" \/ ~ctxDone) /\ made < MaxPairs
    /\ made' = made + 1
    /\ pair' = [CloseConns(pair, conn) EXCEPT ![made + 1] = "open"]
    /\ conn' = made + 1
    /\ mu' = [mu EXCEPT !.pc = "handshake"]
    /\ UNCHANGED <<session, sessionID, controlStop, readyVars, loopVars, callVars, fallback, endVars, socksVars, faults>>

\* openControlStream, confirmPeer and waitForPeer succeed.
HandshakeSucceeds ==
    /\ mu.pc = "handshake" /\ pair[made] = "open"
    /\ mu' = [mu EXCEPT !.pc = "install"]
    /\ UNCHANGED <<linkVars, pairVars, readyVars, loopVars, callVars, fallback, endVars, socksVars, faults>>

\* One of them fails: by the peer, by a timeout (both a fault), because the
\* context is cancelled or because shutdown closed the conns.
HandshakeFails ==
    /\ mu.pc = "handshake"
    /\ IF ctxDone \/ pair[made] # "open" THEN UNCHANGED faults ELSE Fault
    /\ pair' = ClosePair(pair, made)
    /\ IF MayRetry
       THEN mu' = [mu EXCEPT !.pc = "attempt", !.attempt = @ + 1] /\ UNCHANGED fallback
       ELSE Unlock
    /\ main' = IF mu.by = "main" THEN "failed" ELSE main
    /\ ctxDone' = (ctxDone \/ mu.by = "main")
    /\ UNCHANGED <<linkVars, made, readyVars, loopVars, callVars, taken, socksVars>>

\* installPairLocked and the session ID, in one critical section.
Install ==
    /\ mu.pc = "install"
    /\ session' = made /\ sessionID' = made /\ conn' = made
    /\ mu' = [mu EXCEPT !.pc = "swap"]
    /\ UNCHANGED <<controlStop, pairVars, readyVars, loopVars, callVars, fallback, endVars, socksVars, faults>>

\* signalSessionReady replaces the channel and then closes the old one.
SwapReady ==
    /\ mu.pc = "swap"
    /\ ready' = ready + 1
    /\ mu' = [mu EXCEPT !.pc = "fire"]
    /\ UNCHANGED <<linkVars, pairVars, fired, loopVars, callVars, fallback, endVars, socksVars, faults>>

FireReady ==
    /\ mu.pc = "fire"
    /\ fired' = ready - 1
    /\ mu' = [mu EXCEPT !.pc = "start"]
    /\ UNCHANGED <<linkVars, pairVars, ready, loopVars, callVars, fallback, endVars, socksVars, faults>>

\* startControlLoop; the bring-up goes on to listen.
StartControlLoop ==
    /\ mu.pc = "start"
    /\ controlStop' = made
    /\ loop' = [loop EXCEPT ![made] = "run"]
    /\ main' = IF mu.by = "main" THEN "serve" ELSE main
    /\ Unlock
    /\ UNCHANGED <<session, sessionID, conn, pairVars, readyVars, stopped, callVars, taken, ctxDone, socksVars, faults>>

(***************************************************************************)
(* Who calls handleReconnect                                               *)
(***************************************************************************)
\* The control stream of a pair fails: by the peer (a fault), or because the
\* data session closed and the server, seeing that, releases the peer.
ControlDies(i) ==
    /\ loop[i] = "run" /\ i \notin stopped /\ ~ctxDone
    /\ IF pair[i] = "closed" THEN UNCHANGED faults ELSE Fault
    /\ loop' = [loop EXCEPT ![i] = "report"]
    /\ UNCHANGED <<linkVars, pairVars, readyVars, mu, stopped, callVars, fallback, endVars, socksVars>>

\* control.Run returns with its context cancelled: no OnDeath.
ControlStops(i) ==
    /\ loop[i] = "run" /\ (i \in stopped \/ ctxDone)
    /\ loop' = [loop EXCEPT ![i] = "off"]
    /\ UNCHANGED <<linkVars, pairVars, readyVars, mu, stopped, callVars, fallback, endVars, socksVars, faults>>

\* OnDeath calls handleReconnect(reconnectLiveness).
ControlReports(i) ==
    /\ loop[i] = "report" /\ mu = Free
    /\ loop' = [loop EXCEPT ![i] = "off"]
    /\ mu' = Taking("liveness", "cut")
    /\ UNCHANGED <<linkVars, pairVars, readyVars, stopped, callVars, fallback, endVars, socksVars, faults>>

\* The data session of the installed pair closes itself (keep-alive timeout).
DataSessionDies ==
    /\ session # None /\ pair[session] \in {"open", "cut"} /\ Fault
    /\ pair' = ClosePair(pair, session)
    /\ UNCHANGED <<linkVars, made, readyVars, mu, loopVars, callVars, fallback, endVars, socksVars>>

\* The provider has reconnected, as asked or of its own.
ProviderCalls ==
    /\ provider = "idle" /\ mu.by # "provider" /\ made > 0 /\ ~ctxDone
    /\ IF requested THEN UNCHANGED faults ELSE Fault
    /\ provider' = "called" /\ requested' = FALSE
    /\ UNCHANGED <<linkVars, pairVars, readyVars, mu, loopVars, fallback, endVars, socksVars>>

ProviderReports ==
    /\ provider = "called" /\ mu = Free
    /\ provider' = "idle"
    /\ mu' = Taking("provider", "cut")
    /\ UNCHANGED <<linkVars, pairVars, readyVars, loopVars, requested, fallback, endVars, socksVars, faults>>

\* The fallback goroutine: timer or context, first test of the session.
FallbackWakes ==
    /\ fallback = "timer"
    /\ fallback' = IF ctxDone \/ Established THEN "clear" ELSE "lock"
    /\ UNCHANGED <<linkVars, pairVars, readyVars, mu, loopVars, callVars, endVars, socksVars, faults>>

\* Mutant: the session is not tested again under the lock.
FallbackLocksUnchecked ==
    /\ fallback = "lock" /\ mu = Free
    /\ fallback' = "try" /\ mu' = Taking("fallback", "attempt")
    /\ UNCHANGED <<linkVars, pairVars, readyVars, loopVars, callVars, endVars, socksVars, faults>>

\* Second test, under reconnectMu.
FallbackLocks ==
    /\ fallback = "lock" /\ mu = Free
    /\ IF ctxDone \/ Established
       THEN fallback' = "clear" /\ UNCHANGED mu
       ELSE fallback' = "try" /\ mu' = Taking("fallback", "attempt")
    /\ UNCHANGED <<linkVars, pairVars, readyVars, loopVars, callVars, endVars, socksVars, faults>>

\* The deferred fallbackPending.Store(false) is the last thing it does.
FallbackClears ==
    /\ fallback = "clear"
    /\ fallback' = "off"
    /\ UNCHANGED <<linkVars, pairVars, readyVars, mu, loopVars, callVars, endVars, socksVars, faults>>

(***************************************************************************)
(* Cancellation and shutdown                                               *)
(***************************************************************************)
\* The caller cancels, or the provider reports the conference's end.
Cancel ==
    /\ MayCancel /\ ~ctxDone
    /\ ctxDone' = TRUE
    /\ UNCHANGED <<linkVars, pairVars, readyVars, mu, loopVars, callVars, fallback, main, taken, socksVars, faults>>

\* RunWithAddress returns: the listener closes and shutdown takes the fields
\* (sessionID stays).  It does not wait for reconnectMu.
ShutdownTakes ==
    /\ (main = "serve" /\ ctxDone) \/ main = "failed"
    /\ main' = "close"
    /\ taken' = [pair |-> session, conn |-> conn, stop |-> controlStop]
    /\ session' = None /\ conn' = None /\ controlStop' = None
    /\ UNCHANGED <<sessionID, pairVars, readyVars, mu, loopVars, callVars, fallback, ctxDone, socksVars, faults>>

\* The control loop is stopped, the pair closed or else the bare conns.
ShutdownCloses ==
    /\ main = "close"
    /\ StopLoop(taken.stop)
    /\ pair' = IF taken.pair # None THEN ClosePair(pair, taken.pair) ELSE CloseConns(pair, taken.conn)
    /\ main' = "socks"
    /\ UNCHANGED <<linkVars, made, readyVars, mu, loop, callVars, fallback, taken, ctxDone, socksVars, faults>>

CloseSocksConns ==
    /\ main = "socks"
    /\ open' = open \ socksConns /\ socksConns' = {} /\ socksClosed' = TRUE
    /\ main' = "wait"
    /\ UNCHANGED <<linkVars, pairVars, readyVars, mu, loopVars, callVars, fallback, taken, ctxDone, socks, view, faults>>

\* waitGoroutines: until all have ended, or for the grace period.
WaitGoroutines ==
    /\ main = "wait"
    /\ main' = "done"
    /\ UNCHANGED <<linkVars, pairVars, readyVars, mu, loopVars, callVars, fallback, taken, ctxDone, socksVars, faults>>

(***************************************************************************)
(* The SOCKS front end                                                     *)
(***************************************************************************)
SocksStep(h, from, to) == socks[h] = from /\ socks' = [socks EXCEPT ![h] = to]
restVars == <<linkVars, pairVars, readyVars, mu, loopVars, callVars, fallback, endVars, faults>>

\* acceptLoop is one goroutine: it takes one connection at a time.
Accept(h) ==
    /\ main = "serve" /\ \A g \in Handlers : socks[g] # "accepted"
    /\ SocksStep(h, "idle", "accepted")
    /\ open' = open \cup {h}
    /\ UNCHANGED <<restVars, view, socksConns, socksClosed>>

\* Mutant: registration does not look at socksClosed.
MayRegisterLate == Cardinality(socksConns) < MaxSocksConns

MayRegister == ~socksClosed /\ Cardinality(socksConns) < MaxSocksConns

\* registerSocksConn starts the handler; a refused connection is closed.
RegisterSocksConn(h) ==
    /\ IF MayRegister
       THEN SocksStep(h, "accepted", "asking") /\ socksConns' = socksConns \cup {h} /\ UNCHANGED open
       ELSE SocksStep(h, "accepted", "idle") /\ open' = open \ {h} /\ UNCHANGED socksConns
    /\ UNCHANGED <<restVars, view, socksClosed>>

\* The client of the connection has sent its request.
Request(h) ==
    /\ h \in open
    /\ SocksStep(h, "asking", "asked")
    /\ UNCHANGED <<restVars, view, open, socksConns, socksClosed>>

SessionSnapshot(h) ==
    /\ SocksStep(h, "asked", "picked")
    /\ view' = [view EXCEPT ![h] = [session |-> IF sessionID # None THEN session ELSE None, gen |-> ready]]
    /\ UNCHANGED <<restVars, open, socksConns, socksClosed>>

\* The handler no longer needs the session it read.
Forget(h, gen) == view' = [view EXCEPT ![h] = [session |-> None, gen |-> gen]]

Usable(i) == i # None /\ pair[i] # "closed"

Tunnel(h) ==
    /\ Usable(view[h].session)
    /\ SocksStep(h, "picked", "tunnel")
    /\ Forget(h, 0)
    /\ UNCHANGED <<restVars, open, socksConns, socksClosed>>

\* Mutant: the channel is sampled after the session.
WaitReadySampledLate(h) ==
    /\ ~Usable(view[h].session)
    /\ SocksStep(h, "picked", "waiting")
    /\ Forget(h, ready)
    /\ UNCHANGED <<restVars, open, socksConns, socksClosed>>

WaitReady(h) ==
    /\ ~Usable(view[h].session)
    /\ SocksStep(h, "picked", "waiting")
    /\ Forget(h, view[h].gen)
    /\ UNCHANGED <<restVars, open, socksConns, socksClosed>>

WakeUp(h) ==
    /\ view[h].gen <= fired
    /\ SocksStep(h, "waiting", "asked")
    /\ Forget(h, 0)
    /\ UNCHANGED <<restVars, open, socksConns, socksClosed>>

\* The negotiation or readiness deadline, the context or the end of the tunnel:
\* the handler closes its connection.
HandlerEnds(h) ==
    /\ \E from \in {"asking", "waiting", "tunnel"} : SocksStep(h, from, "ending")
    /\ open' = open \ {h}
    /\ Forget(h, 0)
    /\ UNCHANGED <<restVars, socksConns, socksClosed>>

UnregisterSocksConn(h) ==
    /\ SocksStep(h, "ending", "idle")
    /\ socksConns' = socksConns \ {h}
    /\ UNCHANGED <<restVars, view, open, socksClosed>>

(***************************************************************************)
(* The specification                                                       *)
(***************************************************************************)
\* The goroutine that holds reconnectMu.
Rebuild ==
    \/ CutConns \/ Detach \/ CloseOld \/ Dispatch
    \/ AttemptStops \/ Attempt \/ HandshakeSucceeds \/ HandshakeFails
    \/ Install \/ SwapReady \/ FireReady \/ StartControlLoop

Fallback == FallbackWakes \/ FallbackLocks \/ FallbackClears

ControlLoop(i) == ControlDies(i) \/ ControlStops(i) \/ ControlReports(i)

Shutdown == ShutdownTakes \/ ShutdownCloses \/ CloseSocksConns \/ WaitGoroutines

Socks(h) ==
    \/ Accept(h) \/ RegisterSocksConn(h) \/ Request(h) \/ SessionSnapshot(h)
    \/ Tunnel(h) \/ WaitReady(h) \/ WakeUp(h) \/ HandlerEnds(h) \/ UnregisterSocksConn(h)

Next ==
    \/ Rebuild \/ Fallback \/ Shutdown
    \/ \E i \in Pairs : ControlLoop(i)
    \/ DataSessionDies \/ ProviderCalls \/ ProviderReports
    \/ Cancel
    \/ \E h \in Handlers : Socks(h)

Spec == Init /\ [][Next]_vars

\* Goroutines that can run do run, timers fire and handshakes end.  Faults, the
\* SOCKS clients and cancellation are not fair; a control loop whose data session
\* has closed is, because the server then releases the peer and stops answering.
Fairness ==
    /\ WF_vars(Rebuild)
    /\ WF_vars(Fallback)
    /\ WF_vars(Shutdown)
    /\ \A i \in Pairs : WF_vars((pair[i] = "closed" /\ ControlDies(i)) \/ ControlStops(i) \/ ControlReports(i))
    /\ WF_vars(ProviderReports)
    /\ ProviderAnswers => WF_vars(requested /\ ProviderCalls)

FairSpec == Spec /\ Fairness

(***************************************************************************)
(* Properties                                                              *)
(***************************************************************************)
TypeOK ==
    /\ made \in 0 .. MaxPairs
    /\ pair \in [Pairs -> {"none", "open", "cut", "closed"}]
    /\ {session, sessionID, conn, controlStop} \subseteq 0 .. made
    /\ ready \in Nat /\ fired \in Nat /\ fired <= ready
    /\ mu = Free \/ mu \in [by : Callers, pc : Steps, attempt : 0 .. MaxAttempts, old : 0 .. made, oldStop : 0 .. made]
    /\ loop \in [Pairs -> {"none", "run", "report", "off"}]
    /\ stopped \subseteq 1 .. made
    /\ provider \in {"idle", "called"} /\ requested \in BOOLEAN
    /\ fallback \in {"off", "timer", "lock", "try", "clear"}
    /\ main \in {"bringup", "failed", "serve", "close", "socks", "wait", "done"}
    /\ taken \in [pair : 0 .. made, conn : 0 .. made, stop : 0 .. made]
    /\ ctxDone \in BOOLEAN
    /\ socks \in [Handlers -> SocksPhases]
    /\ view \in [Handlers -> [session : 0 .. made, gen : Nat]]
    /\ open \subseteq Handlers /\ socksConns \subseteq Handlers /\ socksClosed \in BOOLEAN
    /\ faults \in 0 .. MaxFaults

\* A SOCKS request never sleeps through the signal: while a session is installed
\* and its signal is over, the channel of every waiting handler is closed.
NoMissedReady ==
    \A h \in Handlers :
       socks[h] = "waiting" /\ Established /\ mu.pc \notin {"swap", "fire"} => view[h].gen <= fired

\* Until the context is cancelled, each live pair has somebody who will close it
\* (the Client, the teardown that took it or the attempt that builds it) and who
\* can stop its control loop: rebuilders never overwrite each other's session.
NothingIsOrphaned ==
    ~ctxDone =>
       \A i \in Pairs : pair[i] \in {"open", "cut"} =>
          /\ \/ i \in {session, mu.old}
             \/ i = made /\ mu.pc \in {"handshake", "install"}
          /\ loop[i] = "run" => i \in {controlStop, mu.oldStop} \cup stopped

\* Frames are not pushed into conns nobody reads: outside reconnectMu the conns
\* belong to the installed session or are closed.
NoReaderlessConn ==
    mu = Free /\ conn # None => conn = session \/ pair[conn] \in {"cut", "closed"}

\* The Client's fields and the goroutines that use them agree on the current session.
LinkIsWhole == TypeOK /\ NothingIsOrphaned /\ NoReaderlessConn

\* No more than maxSocksConns connections are served, and none of them is left
\* open once shutdown has closed the SOCKS connections.
SocksConnsAreBounded ==
    LET served == {h \in open : socks[h] # "accepted"}
    IN  /\ Cardinality(served) <= MaxSocksConns
        /\ main \in {"wait", "done"} => served = {}

\* The tunnel comes back: a client without a usable session gets one again, or
\* is cancelled.
SessionComesBack == ~Established ~> (Established \/ ctxDone)
=============================================================================
