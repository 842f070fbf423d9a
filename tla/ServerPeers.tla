----------------------------- MODULE ServerPeers -----------------------------
(***************************************************************************)
(* The peer-routing half of the tunnel server                              *)
(* (native/olcrtc/internal/server: peer.go, link.go, serve.go, server.go). *)
(*                                                                         *)
(* A transport that can tell remote endpoints apart hands every frame to   *)
(* the server together with a peer ID.  The server keeps one peerSession   *)
(* per ID: a data plane (muxconn + smux session), with some transports an  *)
(* isolated control plane, and up to four goroutines: the handshake        *)
(* acceptor, the handshake expiry, the data-plane acceptor (servePeer) and *)
(* the liveness loop.  Any of them may decide to release the peer, and so  *)
(* may a provider reconnect and the two teardown paths of Run.             *)
(*                                                                         *)
(* Atomic steps are the critical sections of Server.sessMu and             *)
(* peerSession.mu, and the single calls between them (onOpen, onClose,     *)
(* trackPeerOpen, trackPeerClose).  A session ID is created once per       *)
(* peerSession, so the peerSession stands for it.                          *)
(***************************************************************************)
EXTENDS Naturals, FiniteSets

CONSTANTS
    PeerIDs,          \* routing IDs the transport reports
    Peers,            \* peerSession objects; each is built at most once (bound)
    MaxPeerSessions,  \* the admission cap maxPeerSessions
    HasControlPlane,  \* TRUE: the transport implements PeerControlPlane (vp8channel)
                      \* FALSE: it only routes data (datachannel)
    Faults,           \* what an instance explores besides the peers: a subset of
                      \* {"cancel", "reconnect"} (bound)
    NoPeer, NoID

ASSUME CapAssumption == MaxPeerSessions \in Nat
ASSUME ControlPlaneAssumption == HasControlPlane \in BOOLEAN
ASSUME NoneAssumption ==
    NoPeer \notin Peers /\ NoID \notin PeerIDs /\ {"free", "provider"} \cap Peers = {}
ASSUME FiniteAssumption == IsFiniteSet(PeerIDs)

VARIABLES
    sessions,   \* Server.peerSessions: [PeerIDs -> Peers \cup {NoPeer}]
    owner,      \* peerSession.peerID, NoID while the object has not been built
    data, ctl,  \* data and control plane of a peer: "nil", "open" or "shut"
    sid,        \* peerSession.sessionID # ""
    ready,      \* peerSession.sessionReady is closed
    closed,     \* peerSession.closed
    stopCtl,    \* the peer's controlStop was called
    pc,         \* [Peers -> [Threads -> PCs]]: where each goroutine is
    closing,    \* progress of closePeerSession
    teardown,   \* the snapshot closePeerSession works from
    opened,     \* onOpen was called for the peer's session
    reported,   \* onClose was called for it
    counted,    \* it is in Server.peerStats
    ctxDone,    \* runCtx is cancelled
    run,        \* where Run is: "serve", "done", "closing", "wait", "returned"
    ctxCloser,  \* the goroutine of Run that waits for runCtx: "idle", "closing", "ended"
    batch,      \* peers a bulk teardown took out of the map and still has to close
    reinstall   \* holder of reinstallMu: "free", "provider" or a peer's serve goroutine

peerVars == <<owner, data, ctl, sid, ready, closed, stopCtl>>
logVars  == <<opened, reported, counted>>
runVars  == <<ctxDone, run, ctxCloser>>
vars == <<sessions, peerVars, pc, closing, teardown, logVars, runVars, batch, reinstall>>

Threads  == {"handshake", "expire", "serve", "control"}
Batchers == {"reinstall", "ctx", "shutdown"}
PCs == {"none", "pending", "accept", "wait", "fired", "start", "set", "signal", "onOpen",
        "track", "setControl", "reinstall", "reinstalling", "remove", "loop", "run",
        "closing", "off"}
ClosingStates == {"no", "claimed", "snap", "shut", "notified", "done"}
Plane == {"nil", "open", "shut"}
NoTeardown == [sid |-> FALSE, data |-> FALSE, ctl |-> FALSE, stop |-> FALSE]

TypeOK ==
    /\ sessions \in [PeerIDs -> Peers \cup {NoPeer}]
    /\ owner \in [Peers -> PeerIDs \cup {NoID}]
    /\ data \in [Peers -> Plane] /\ ctl \in [Peers -> Plane]
    /\ sid \in [Peers -> BOOLEAN] /\ ready \in [Peers -> BOOLEAN]
    /\ closed \in [Peers -> BOOLEAN] /\ stopCtl \in [Peers -> BOOLEAN]
    /\ pc \in [Peers -> [Threads -> PCs]]
    /\ closing \in [Peers -> ClosingStates]
    /\ teardown \in [Peers -> [sid : BOOLEAN, data : BOOLEAN, ctl : BOOLEAN, stop : BOOLEAN]]
    /\ opened \in [Peers -> BOOLEAN]
    /\ reported \in [Peers -> BOOLEAN]
    /\ counted \in [Peers -> BOOLEAN]
    /\ ctxDone \in BOOLEAN
    /\ run \in {"serve", "done", "closing", "wait", "returned"}
    /\ ctxCloser \in {"idle", "closing", "ended"}
    /\ batch \in [Batchers -> SUBSET Peers]
    /\ reinstall \in {"free", "provider"} \cup Peers

\* Run, up to the point where the link is connected (bringUpLink, installControlSession).
Init ==
    /\ sessions = [id \in PeerIDs |-> NoPeer]
    /\ owner = [o \in Peers |-> NoID]
    /\ data = [o \in Peers |-> "nil"] /\ ctl = [o \in Peers |-> "nil"]
    /\ sid = [o \in Peers |-> FALSE] /\ ready = [o \in Peers |-> FALSE]
    /\ closed = [o \in Peers |-> FALSE] /\ stopCtl = [o \in Peers |-> FALSE]
    /\ pc = [o \in Peers |-> [t \in Threads |-> "none"]]
    /\ closing = [o \in Peers |-> "no"]
    /\ teardown = [o \in Peers |-> NoTeardown]
    /\ opened = [o \in Peers |-> FALSE]
    /\ reported = [o \in Peers |-> FALSE]
    /\ counted = [o \in Peers |-> FALSE]
    /\ ctxDone = FALSE /\ run = "serve" /\ ctxCloser = "idle"
    /\ batch = [b \in Batchers |-> {}]
    /\ reinstall = "free"

-----------------------------------------------------------------------------
\* Helpers of the server.

\* close(s.done) is the first thing shutdown does.
Stopping == run # "serve"

Routed == {id \in PeerIDs : sessions[id] # NoPeer}

\* Mutants of mayAdmitPeerLocked: an off-by-one in the cap, no look at s.done.
MayAdmitOneTooMany(existing) ==
    /\ ~Stopping
    /\ existing # NoPeer \/ Cardinality(Routed) <= MaxPeerSessions
MayAdmitWhileStopping(existing) ==
    existing # NoPeer \/ Cardinality(Routed) < MaxPeerSessions

MayAdmitPeerLocked(existing) ==
    /\ ~Stopping
    /\ existing # NoPeer \/ Cardinality(Routed) < MaxPeerSessions

\* Move goroutine t of peer o.
Goto(o, t, label) == pc' = [pc EXCEPT ![o][t] = label]

\* Mutant of removePeer: no comparison with the peer.
RemovePeerByID(o, t) ==
    /\ sessions' = [sessions EXCEPT ![owner[o]] = NoPeer]
    /\ closing' = [closing EXCEPT ![o] = "claimed"]
    /\ Goto(o, t, "closing")

\* removePeer by goroutine t: whoever takes the peer out of the map closes it, everybody
\* else has nothing to do.
RemovePeer(o, t) ==
    \/ /\ sessions[owner[o]] = o
       /\ sessions' = [sessions EXCEPT ![owner[o]] = NoPeer]
       /\ closing' = [closing EXCEPT ![o] = "claimed"]
       /\ Goto(o, t, "closing")
    \/ /\ sessions[owner[o]] # o
       /\ Goto(o, t, "off")
       /\ UNCHANGED <<sessions, closing>>

\* What a goroutine leaves alone while it only moves on, or removes its peer.
Others == <<peerVars, teardown, logVars, runVars, batch, reinstall>>

\* Mutant of detachPeerRouting: the map is not replaced.
DetachPeersKeepsMap(b) ==
    LET taken == {sessions[id] : id \in Routed} IN
    /\ batch' = [batch EXCEPT ![b] = taken]
    /\ closing' = [o \in Peers |-> IF o \in taken THEN "claimed" ELSE closing[o]]
    /\ UNCHANGED sessions

\* A bulk teardown takes the whole map; every peer in it is now the batch's to close.
DetachPeers(b) ==
    LET taken == {sessions[id] : id \in Routed} IN
    /\ batch' = [batch EXCEPT ![b] = taken]
    /\ closing' = [o \in Peers |-> IF o \in taken THEN "claimed" ELSE closing[o]]
    /\ sessions' = [id \in PeerIDs |-> NoPeer]

-----------------------------------------------------------------------------
\* Frames from the transport (callbacks on the transport's own goroutines).

\* getOrCreatePeerControlSession: attach the control plane of a known peer, or admit a
\* new one; handshakeOnce then asks for the two handshake goroutines.
OnPeerControlData(id, o) ==
    /\ HasControlPlane
    /\ \/ sessions[id] = o /\ ctl[o] = "nil"
       \/ sessions[id] = NoPeer /\ owner[o] = NoID /\ MayAdmitPeerLocked(NoPeer)
    /\ ~closed[o]
    /\ sessions' = [sessions EXCEPT ![id] = o]
    /\ owner' = [owner EXCEPT ![o] = id]
    /\ ctl' = [ctl EXCEPT ![o] = "open"]
    /\ pc' = [pc EXCEPT ![o]["handshake"] = "pending", ![o]["expire"] = "pending"]
    /\ UNCHANGED <<data, sid, ready, closed, stopCtl, closing, teardown, logVars, runVars, batch, reinstall>>

\* getPeerSession: attach the data plane of a known peer, or admit a new one; then ask
\* for servePeer.
OnPeerData(id, o) ==
    /\ \/ sessions[id] = o /\ data[o] = "nil" /\ MayAdmitPeerLocked(o)
       \/ sessions[id] = NoPeer /\ owner[o] = NoID /\ MayAdmitPeerLocked(NoPeer)
    /\ ~closed[o]
    /\ sessions' = [sessions EXCEPT ![id] = o]
    /\ owner' = [owner EXCEPT ![o] = id]
    /\ data' = [data EXCEPT ![o] = "open"]
    /\ Goto(o, "serve", "pending")
    /\ UNCHANGED <<ctl, sid, ready, closed, stopCtl, closing, teardown, logVars, runVars, batch, reinstall>>

\* The label a goroutine starts from.
Entry == [handshake |-> "accept", expire |-> "wait", serve |-> "start", control |-> "run"]

\* Mutant of goTracked: no look at s.done.
GoTrackedUnchecked(o, t) ==
    /\ pc[o][t] = "pending"
    /\ Goto(o, t, Entry[t])
    /\ UNCHANGED <<sessions, closing, Others>>

\* goTracked: registered with the WaitGroup under sessMu, or not started at all.  The
\* expiry goroutine is asked for after the handshake one.
GoTracked(o, t) ==
    /\ pc[o][t] = "pending"
    /\ t = "expire" => pc[o]["handshake"] # "pending"
    /\ Goto(o, t, IF Stopping THEN "off" ELSE Entry[t])
    /\ UNCHANGED <<sessions, closing, Others>>

-----------------------------------------------------------------------------
\* Steps shared by acceptPeerHandshake (control plane) and servePeer (data only).

\* Mutant of setHandshake: a closed peer is not refused.
SetHandshakeUnchecked(o, t, next) ==
    /\ pc[o][t] = "set"
    /\ Goto(o, t, next)
    /\ sid' = [sid EXCEPT ![o] = TRUE]
    /\ UNCHANGED <<sessions, owner, data, ctl, ready, closed, stopCtl, closing, teardown, logVars, runVars, batch, reinstall>>

SetHandshake(o, t, next) ==
    /\ pc[o][t] = "set"
    /\ \/ closed[o] /\ Goto(o, t, "off") /\ UNCHANGED sid
       \/ ~closed[o] /\ Goto(o, t, next) /\ sid' = [sid EXCEPT ![o] = TRUE]
    /\ UNCHANGED <<sessions, owner, data, ctl, ready, closed, stopCtl, closing, teardown, logVars, runVars, batch, reinstall>>

OnOpen(o, t) ==
    /\ pc[o][t] = "onOpen"
    /\ opened' = [opened EXCEPT ![o] = TRUE]
    /\ Goto(o, t, "track")
    /\ UNCHANGED <<sessions, peerVars, closing, teardown, reported, counted, runVars, batch, reinstall>>

TrackPeerOpen(o, t, next) ==
    /\ pc[o][t] = "track"
    /\ counted' = [counted EXCEPT ![o] = TRUE]
    /\ Goto(o, t, next)
    /\ UNCHANGED <<sessions, peerVars, closing, teardown, opened, reported, runVars, batch, reinstall>>

\* startPeerControlLoop: setControl refuses a closed peer.
StartPeerControlLoop(o, t, next) ==
    /\ pc[o][t] = "setControl"
    /\ pc' = [pc EXCEPT ![o][t] = next,
                        ![o]["control"] = IF closed[o] THEN "off" ELSE "pending"]
    /\ UNCHANGED <<sessions, closing, Others>>

-----------------------------------------------------------------------------
\* acceptPeerHandshake.  Streams that turn out to be stale are closed and the next one
\* is accepted (up to maxStaleRetries times) without touching any of the state here.

\* handshake.Server accepted a CLIENT_HELLO.
HandshakeAccepted(o) ==
    /\ pc[o]["handshake"] = "accept" /\ ctl[o] = "open"
    /\ Goto(o, "handshake", "set")
    /\ UNCHANGED <<sessions, closing, Others>>

\* Mutant: a failed handshake rebuilds the peer routing, as the data-only path does.
HandshakeRejectedReinstalls(o) ==
    /\ pc[o]["handshake"] = "accept" /\ ctl[o] = "open" /\ reinstall = "free"
    /\ DetachPeers("reinstall")
    /\ Goto(o, "handshake", "off")
    /\ UNCHANGED <<peerVars, teardown, logVars, runVars, reinstall>>

\* It did not, or the control session died under it.
HandshakeRejected(o) ==
    /\ pc[o]["handshake"] = "accept" /\ ctl[o] = "open"
    /\ RemovePeer(o, "handshake")
    /\ UNCHANGED Others

\* The peer's control session was closed: AcceptStream or the handshake returns an error.
HandshakeAborted(o) ==
    /\ pc[o]["handshake"] = "accept" /\ ctl[o] = "shut"
    /\ \/ RemovePeer(o, "handshake")
       \/ ctxDone /\ Goto(o, "handshake", "off") /\ UNCHANGED <<sessions, closing>>
    /\ UNCHANGED Others

SignalReady(o) ==
    /\ pc[o]["handshake"] = "signal"
    /\ ready' = [ready EXCEPT ![o] = TRUE]
    /\ Goto(o, "handshake", "onOpen")
    /\ UNCHANGED <<sessions, owner, data, ctl, sid, closed, stopCtl, closing, teardown, logVars, runVars, batch, reinstall>>

HandshakeStep(o) ==
    \/ HandshakeAborted(o)
    \/ SetHandshake(o, "handshake", "signal")
    \/ SignalReady(o)
    \/ OnOpen(o, "handshake")
    \/ TrackPeerOpen(o, "handshake", "setControl")
    \/ StartPeerControlLoop(o, "handshake", "off")

\* Mutant of expirePeerHandshake: no timer.
ExpireSelectWithoutTimer(o) ==
    /\ pc[o]["expire"] = "wait"
    /\ ready[o] \/ Stopping
    /\ Goto(o, "expire", "off")
    /\ UNCHANGED <<sessions, closing, Others>>

\* expirePeerHandshake: the select, and after a timeout the check and the removal, which
\* are two steps.
ExpireSelect(o) ==
    /\ pc[o]["expire"] = "wait"
    /\ \/ (ready[o] \/ Stopping) /\ Goto(o, "expire", "off")
       \/ Goto(o, "expire", IF sid[o] THEN "off" ELSE "fired")
    /\ UNCHANGED <<sessions, closing, Others>>

ExpireRemove(o) ==
    /\ pc[o]["expire"] = "fired"
    /\ RemovePeer(o, "expire")
    /\ UNCHANGED Others

ExpireStep(o) == ExpireSelect(o) \/ ExpireRemove(o)

-----------------------------------------------------------------------------
\* servePeer.

ServeStart(o) ==
    /\ pc[o]["serve"] = "start"
    /\ Goto(o, "serve", IF sid[o] THEN "loop"
                        ELSE IF HasControlPlane THEN "wait" ELSE "accept")
    /\ UNCHANGED <<sessions, closing, Others>>

\* Mutant of waitPeerHandshake: sessionReady alone decides.
ServeReadyUnchecked(o) ==
    /\ pc[o]["serve"] = "wait" /\ ready[o]
    /\ Goto(o, "serve", "loop")
    /\ UNCHANGED <<sessions, closing, Others>>

\* waitPeerHandshake: sessionReady also closes when the peer is torn down, so the session
\* ID decides.
ServeReady(o) ==
    /\ pc[o]["serve"] = "wait" /\ ready[o]
    /\ Goto(o, "serve", IF sid[o] THEN "loop" ELSE "off")
    /\ UNCHANGED <<sessions, closing, Others>>

\* The timer of waitPeerHandshake, and its s.done branch.
ServeTimeout(o) ==
    /\ pc[o]["serve"] = "wait"
    /\ RemovePeer(o, "serve")
    /\ UNCHANGED Others

\* establishPeerSession without a control plane: acceptHandshake on the data session.
LegacyAccepted(o) ==
    /\ pc[o]["serve"] = "accept" /\ data[o] = "open"
    /\ Goto(o, "serve", "onOpen")
    /\ UNCHANGED <<sessions, closing, Others>>

\* acceptHandshake fails: with a live context it reinstalls the whole peer routing before
\* the peer itself is removed.
LegacyFailed(o) ==
    /\ pc[o]["serve"] = "accept"
    /\ Goto(o, "serve", "reinstall")
    /\ UNCHANGED <<sessions, closing, Others>>

LegacyRejected(o) == data[o] = "open" /\ LegacyFailed(o)

LegacyAborted(o) ==
    /\ data[o] = "shut"
    /\ \/ LegacyFailed(o)
       \/ /\ pc[o]["serve"] = "accept" /\ ctxDone
          /\ RemovePeer(o, "serve")
          /\ UNCHANGED Others

\* reinstallPeerRouting called from the serve goroutine of o, under reinstallMu.
LegacyReinstall(o) ==
    /\ pc[o]["serve"] = "reinstall" /\ reinstall = "free"
    /\ reinstall' = o
    /\ DetachPeers("reinstall")
    /\ Goto(o, "serve", "reinstalling")
    /\ UNCHANGED <<peerVars, teardown, logVars, runVars>>

LegacyReinstalled(o) ==
    /\ pc[o]["serve"] = "reinstalling" /\ batch["reinstall"] = {}
    /\ reinstall' = "free"
    /\ Goto(o, "serve", "remove")
    /\ UNCHANGED <<sessions, peerVars, closing, teardown, logVars, runVars, batch>>

LegacyRemove(o) ==
    /\ pc[o]["serve"] = "remove"
    /\ RemovePeer(o, "serve")
    /\ UNCHANGED Others

\* The accept loop ends when its data session does: by a local close ...
ServeEnd(o) ==
    /\ pc[o]["serve"] = "loop" /\ data[o] = "shut"
    /\ \/ ~Stopping /\ RemovePeer(o, "serve")
       \/ Stopping /\ Goto(o, "serve", "off") /\ UNCHANGED <<sessions, closing>>
    /\ UNCHANGED Others

\* ... when a stream arrives while the server stops ...
ServeStops(o) ==
    /\ pc[o]["serve"] = "loop" /\ data[o] = "open" /\ Stopping
    /\ Goto(o, "serve", "off")
    /\ UNCHANGED <<sessions, closing, Others>>

\* ... or because the peer went away (keep-alive timeout, link error).
ServeLinkError(o) ==
    /\ pc[o]["serve"] = "loop" /\ data[o] = "open" /\ ~Stopping
    /\ RemovePeer(o, "serve")
    /\ UNCHANGED Others

ServeStep(o) ==
    \/ ServeStart(o) \/ ServeReady(o) \/ ServeTimeout(o)
    \/ LegacyAborted(o) \/ LegacyReinstall(o) \/ LegacyReinstalled(o) \/ LegacyRemove(o)
    \/ OnOpen(o, "serve")
    \/ TrackPeerOpen(o, "serve", "set")
    \/ SetHandshake(o, "serve", "setControl")
    \/ StartPeerControlLoop(o, "serve", "loop")
    \/ ServeEnd(o)

-----------------------------------------------------------------------------
\* ControlRunner.Run of a peer: OnDeath removes the peer unless the loop was cancelled.

ControlCancelled(o) ==
    /\ pc[o]["control"] = "run" /\ (stopCtl[o] \/ ctxDone)
    /\ Goto(o, "control", "off")
    /\ UNCHANGED <<sessions, closing, Others>>

ControlDeath(o) ==
    /\ pc[o]["control"] = "run" /\ ~stopCtl[o] /\ ~ctxDone
    /\ RemovePeer(o, "control")
    /\ UNCHANGED Others

-----------------------------------------------------------------------------
\* closePeerSession, run by whoever took the peer out of the map.  A bulk teardown closes
\* its peers one after the other.

CloseTurn(o) ==
    \A b \in Batchers : o \in batch[b] =>
        \A q \in batch[b] \ {o} : closing[q] \in {"claimed", "done"}

CloseSnapshot(o) ==
    /\ closing[o] = "claimed" /\ CloseTurn(o)
    /\ closing' = [closing EXCEPT ![o] = "snap"]
    /\ closed' = [closed EXCEPT ![o] = TRUE]
    /\ teardown' = [teardown EXCEPT ![o] =
           [sid |-> sid[o], data |-> data[o] # "nil", ctl |-> ctl[o] # "nil",
            stop |-> pc[o]["control"] # "none"]]
    /\ UNCHANGED <<sessions, owner, data, ctl, sid, ready, stopCtl, pc, logVars, runVars, batch,
                   reinstall>>

\* signalReady, then the control loop, the control plane and the data plane.
CloseResources(o) ==
    /\ closing[o] = "snap"
    /\ closing' = [closing EXCEPT ![o] = "shut"]
    /\ ready' = [ready EXCEPT ![o] = HasControlPlane]
    /\ stopCtl' = [stopCtl EXCEPT ![o] = teardown[o].stop]
    /\ ctl' = [ctl EXCEPT ![o] = IF teardown[o].ctl THEN "shut" ELSE @]
    /\ data' = [data EXCEPT ![o] = IF teardown[o].data THEN "shut" ELSE @]
    /\ UNCHANGED <<sessions, owner, sid, closed, pc, teardown, logVars, runVars, batch, reinstall>>

CloseNotify(o) ==
    /\ closing[o] = "shut" /\ teardown[o].sid
    /\ closing' = [closing EXCEPT ![o] = "notified"]
    /\ reported' = [reported EXCEPT ![o] = TRUE]
    /\ UNCHANGED <<sessions, peerVars, pc, teardown, opened, counted, runVars, batch, reinstall>>

\* trackPeerClose, when there is a session to forget; the closer goes on.
CloseFinish(o) ==
    /\ \/ closing[o] = "notified"
       \/ closing[o] = "shut" /\ ~teardown[o].sid
    /\ closing' = [closing EXCEPT ![o] = "done"]
    /\ counted' = [counted EXCEPT ![o] = @ /\ ~teardown[o].sid]
    /\ pc' = [pc EXCEPT ![o] = [t \in Threads |-> IF @[t] = "closing" THEN "off" ELSE @[t]]]
    /\ batch' = [b \in Batchers |-> batch[b] \ {o}]
    /\ UNCHANGED <<sessions, peerVars, teardown, opened, reported, runVars, reinstall>>

CloseStep(o) == CloseSnapshot(o) \/ CloseResources(o) \/ CloseNotify(o) \/ CloseFinish(o)

-----------------------------------------------------------------------------
\* Provider reconnects and the end of Run.

\* The reconnect callback of the transport; it runs inside WatchConnection, a goroutine
\* Run waits for.
HandleReconnect ==
    /\ "reconnect" \in Faults
    /\ ~ctxDone /\ reinstall = "free"
    /\ reinstall' = "provider"
    /\ DetachPeers("reinstall")
    /\ UNCHANGED <<peerVars, pc, teardown, logVars, runVars>>

ReconnectDone ==
    /\ reinstall = "provider" /\ batch["reinstall"] = {}
    /\ reinstall' = "free"
    /\ UNCHANGED <<sessions, peerVars, pc, closing, teardown, logVars, runVars, batch>>

\* The caller cancels Run, or the conference ends (SetEndedCallback).
Cancel ==
    /\ "cancel" \in Faults /\ ~ctxDone
    /\ ctxDone' = TRUE
    /\ UNCHANGED <<sessions, peerVars, pc, closing, teardown, logVars, run, ctxCloser, batch, reinstall>>

\* The untracked goroutine of Run: <-runCtx.Done(); s.closeSession().
CtxCloseSession ==
    /\ ctxDone /\ ctxCloser = "idle"
    /\ ctxCloser' = "closing"
    /\ DetachPeers("ctx")
    /\ UNCHANGED <<peerVars, pc, teardown, logVars, ctxDone, run, reinstall>>

CtxCloserEnds ==
    /\ ctxCloser = "closing" /\ batch["ctx"] = {}
    /\ ctxCloser' = "ended"
    /\ UNCHANGED <<sessions, peerVars, pc, closing, teardown, logVars, ctxDone, run, batch, reinstall>>

\* serve returns and shutdown closes s.done.
ShutdownDone ==
    /\ ctxDone /\ run = "serve"
    /\ run' = "done"
    /\ UNCHANGED <<sessions, peerVars, pc, closing, teardown, logVars, ctxDone, ctxCloser, batch, reinstall>>

ShutdownCloseSession ==
    /\ run = "done"
    /\ run' = "closing"
    /\ DetachPeers("shutdown")
    /\ UNCHANGED <<peerVars, pc, teardown, logVars, ctxDone, ctxCloser, reinstall>>

\* s.ln.Close(), then wg.Wait starts.
ShutdownWait ==
    /\ run = "closing" /\ batch["shutdown"] = {}
    /\ run' = "wait"
    /\ UNCHANGED <<sessions, peerVars, pc, closing, teardown, logVars, ctxDone, ctxCloser, batch, reinstall>>

\* A goroutine the WaitGroup counts.  The control loop is asked for by a counted one.
Tracked(o, t) ==
    /\ pc[o][t] \notin {"none", "off"}
    /\ pc[o][t] = "pending" => t = "control"

RunReturns ==
    /\ run = "wait"
    /\ \A o \in Peers, t \in Threads : ~Tracked(o, t)
    /\ reinstall = "free"
    /\ run' = "returned"
    /\ UNCHANGED <<sessions, peerVars, pc, closing, teardown, logVars, ctxDone, ctxCloser, batch, reinstall>>

ShutdownStep ==
    \/ CtxCloseSession \/ CtxCloserEnds \/ ReconnectDone
    \/ ShutdownDone \/ ShutdownCloseSession \/ ShutdownWait \/ RunReturns

-----------------------------------------------------------------------------
\* What peers, the network and the provider do.
Environment ==
    \/ \E id \in PeerIDs, o \in Peers : OnPeerControlData(id, o) \/ OnPeerData(id, o)
    \/ \E o \in Peers :
          \/ HandshakeAccepted(o) \/ HandshakeRejected(o)
          \/ LegacyAccepted(o) \/ LegacyRejected(o)
          \/ ServeStops(o) \/ ServeLinkError(o) \/ ControlDeath(o)
    \/ HandleReconnect
    \/ Cancel

Next ==
    \/ Environment
    \/ \E o \in Peers :
          \/ \E t \in Threads : GoTracked(o, t)
          \/ HandshakeStep(o) \/ ExpireStep(o) \/ ServeStep(o)
          \/ ControlCancelled(o) \/ CloseStep(o)
    \/ ShutdownStep

Spec == Init /\ [][Next]_vars

\* Goroutines are scheduled, timers fire, and calls the server makes return.  Nothing is
\* assumed of the peers, the network or the provider.
Fairness ==
    /\ \A o \in Peers :
          /\ \A t \in Threads : WF_vars(GoTracked(o, t))
          /\ WF_vars(HandshakeStep(o)) /\ WF_vars(ExpireStep(o)) /\ WF_vars(ServeStep(o))
          /\ WF_vars(ControlCancelled(o)) /\ WF_vars(CloseStep(o))
    /\ WF_vars(CtxCloseSession) /\ WF_vars(CtxCloserEnds) /\ WF_vars(ReconnectDone)
    /\ WF_vars(ShutdownDone \/ ShutdownCloseSession \/ ShutdownWait \/ RunReturns)

FairSpec == Spec /\ Fairness

-----------------------------------------------------------------------------
\* Safety.

\* A peer found in the routing map is not being torn down: a frame is never pushed into a
\* stack that removePeer, a reconnect or closeSession has taken over.
RoutedPeersAreLive ==
    \A id \in Routed :
        LET o == sessions[id] IN owner[o] = id /\ closing[o] = "no" /\ ~closed[o]

\* No peer stack is lost: a peerSession that was built is in the map under its ID or some
\* closer has claimed it, although removePeer works on an ID a newer peer may hold.
NoOrphanPeer ==
    \A o \in Peers : owner[o] # NoID /\ closing[o] = "no" => sessions[owner[o]] = o

\* Who is committed to closing peer o.
Closers(o) == {t \in Threads : pc[o][t] = "closing"} \cup {b \in Batchers : o \in batch[b]}

\* Leaving the map hands a peer to exactly one closer, whichever of the goroutines, the
\* reconnect and the two teardowns of Run got there first (closeOnce is never contended).
OneCloser ==
    \A o \in Peers :
        /\ \A x, y \in Closers(o) : x = y
        /\ closing[o] \notin {"no", "done"} <=> Closers(o) # {}

\* Somebody is responsible for every peer stack at any time, and nobody shares it: the map
\* while it is live, one closer from then on.
EveryPeerHasOneOwner == RoutedPeersAreLive /\ NoOrphanPeer /\ OneCloser

\* maxPeerSessions holds for every order of control and data frames of new peers.
AdmissionIsBounded == Cardinality(Routed) <= MaxPeerSessions

\* Data streams are accepted from a peer only once its handshake has landed, although
\* sessionReady is also closed by a teardown (waitPeerHandshake).
OnlyHandshakedPeersAreServed ==
    \A o \in Peers : pc[o]["serve"] = "loop" => sid[o]

\* Every session that was entered into its peerSession is reported by onClose before the
\* peer counts as closed, also when the handshake races the teardown (setHandshake).
EstablishedSessionsAreReported ==
    \A o \in Peers : closing[o] = "done" /\ sid[o] => reported[o]

\* When Run returns no peer is routed and each one ever built is closed, or is just being
\* closed by the goroutine of Run that watches the context (which wg.Wait does not cover).
NothingOutlivesRun ==
    run = "returned" =>
        /\ Routed = {}
        /\ \A o \in Peers : owner[o] # NoID => closing[o] = "done" \/ o \in batch["ctx"]

\* What the whole life of a peer promises, with and without control planes: one owner at any
\* time, a report of its session, and nothing left of it after Run.
PeersAreAccounted == EveryPeerHasOneOwner /\ EstablishedSessionsAreReported /\ NothingOutlivesRun

\* goTracked: no goroutine is added to the WaitGroup once Run waits for it.
NoStartAfterWait ==
    [][(run \in {"wait", "returned"}) =>
          \A o \in Peers, t \in Threads :
              pc[o][t] = "pending" => pc'[o][t] \in {"pending", "off"}]_vars

\* With a control plane per peer, peers fail alone: a peer is claimed for teardown only by
\* a goroutine of its own, by a provider reconnect or by the end of Run.
PeersFailAlone ==
    [][\A o \in Peers : closing[o] = "no" /\ closing'[o] # "no" =>
          \/ \E t \in Threads : pc[o][t] # "closing" /\ pc'[o][t] = "closing"
          \/ o \in batch'["reinstall"] /\ reinstall' = "provider"
          \/ o \in batch'["ctx"] \cup batch'["shutdown"] /\ ctxDone]_vars

\* Liveness.

\* peerHandshakeTimeout: a peer does not stay admitted without a handshake.
HandshakeIsBounded ==
    \A o \in Peers : (owner[o] # NoID /\ ~sid[o]) ~> (sid[o] \/ closed[o])

\* Once cancelled, Run returns: every goroutine it waits for gets unblocked.
RunReturnsAfterCancel == ctxDone ~> run = "returned"

\* shutdown's wg.Wait comes to an end: nothing joins the goroutines Run waits for, and each
\* of them gets unblocked.
ShutdownCompletes == NoStartAfterWait /\ RunReturnsAfterCancel
=============================================================================
