-------------------------- MODULE ServerPeersProofs --------------------------
EXTENDS ServerPeers, FiniteSetTheorems, TLAPS

(***************************************************************************)
(* The inductive invariant.                                                *)
(***************************************************************************)

UnbuiltPeersAreIdle ==
    \A o \in Peers : owner[o] = NoID =>
        closing[o] = "no" /\ \A t \in Threads : pc[o][t] = "none"

ClosedPeersAreClaimed ==
    \A o \in Peers : closed[o] <=> closing[o] \notin {"no", "claimed"}

\* A bulk teardown that is not under way has nothing left to close.
IdleBatchesAreEmpty ==
    /\ reinstall = "free" => batch["reinstall"] = {}
    /\ ctxCloser = "idle" => batch["ctx"] = {}
    /\ run # "closing" => batch["shutdown"] = {}

MapInv ==
    /\ RoutedPeersAreLive
    /\ NoOrphanPeer
    /\ UnbuiltPeersAreIdle
    /\ ClosedPeersAreClaimed
    /\ OneCloser

\* Streams are served for a session ID only, the snapshot of closePeerSession has the
\* session ID for good, and what has a session ID is reported before the peer is closed.
SessionInv ==
    /\ \A o \in Peers : pc[o]["serve"] \in {"loop", "setControl"} => sid[o]
    /\ \A o \in Peers : closing[o] \notin {"no", "claimed"} => (teardown[o].sid <=> sid[o])
    /\ \A o \in Peers : closing[o] = "notified" => reported[o]
    /\ \A o \in Peers : closing[o] = "done" /\ teardown[o].sid => reported[o]

\* The labels of a goroutine that has a handshake to finish.
Establishing == {"set", "signal", "onOpen", "track", "setControl"}

\* One goroutine of a peer runs its handshake, and starts the control loop once.
ControlInv ==
    \A o \in Peers :
        /\ ctl[o] = "nil" => pc[o]["handshake"] = "none"
        /\ data[o] = "nil" => pc[o]["serve"] = "none"
        /\ ~HasControlPlane => pc[o]["handshake"] = "none"
        /\ HasControlPlane => pc[o]["serve"] \notin Establishing \cup {"accept", "reinstall"}
        /\ pc[o]["control"] # "none" =>
               IF HasControlPlane THEN pc[o]["handshake"] = "off"
               ELSE pc[o]["serve"] \in {"loop", "closing", "off"}

\* The end of Run: the map is empty once shutdown has detached it, and nothing Run waits
\* for is left when it returns.
ShutdownInv ==
    /\ run # "serve" => ctxDone
    /\ run \in {"closing", "wait", "returned"} => Routed = {}
    /\ run = "returned" => reinstall = "free" /\ \A o \in Peers, t \in Threads : ~Tracked(o, t)

Inv ==
    /\ TypeOK
    /\ MapInv
    /\ IdleBatchesAreEmpty
    /\ ControlInv
    /\ SessionInv
    /\ ShutdownInv
    /\ AdmissionIsBounded

(***************************************************************************)
(* Type correctness, one step per action.                                  *)
(***************************************************************************)

LEMMA TypeInit == Init => TypeOK
<1> SUFFICES ASSUME Init PROVE TypeOK
  OBVIOUS
<1>1. teardown \in [Peers -> [sid : BOOLEAN, data : BOOLEAN, ctl : BOOLEAN, stop : BOOLEAN]]
  BY DEF Init, NoTeardown
<1>2. pc \in [Peers -> [Threads -> PCs]] /\ batch \in [Batchers -> SUBSET Peers]
  BY DEF Init, PCs
<1>3. data \in [Peers -> Plane] /\ ctl \in [Peers -> Plane] /\ closing \in [Peers -> ClosingStates]
  BY DEF Init, Plane, ClosingStates
<1> QED BY <1>1, <1>2, <1>3 DEF Init, TypeOK

LEMMA GotoPC ==
  ASSUME TypeOK, NEW o \in Peers, NEW t \in Threads, NEW label \in PCs, Goto(o, t, label)
  PROVE  /\ pc' \in [Peers -> [Threads -> PCs]]
         /\ \A p \in Peers, u \in Threads :
               pc'[p][u] = IF p = o /\ u = t THEN label ELSE pc[p][u]
  BY DEF TypeOK, Goto

LEMMA GotoType ==
  ASSUME TypeOK, NEW o \in Peers, NEW t \in Threads, NEW label \in PCs, Goto(o, t, label),
         UNCHANGED <<sessions, closing, Others>>
  PROVE  TypeOK'
  BY GotoPC DEF TypeOK, Others, peerVars, logVars, runVars

LEMMA RemoveType ==
  ASSUME TypeOK, NEW o \in Peers, NEW t \in Threads, RemovePeer(o, t), UNCHANGED Others
  PROVE  TypeOK'
<1>0. "closing" \in PCs /\ "off" \in PCs /\ "claimed" \in ClosingStates
  BY DEF PCs, ClosingStates
<1>1. CASE sessions[owner[o]] = o
  <2>1. /\ sessions' = [sessions EXCEPT ![owner[o]] = NoPeer]
        /\ closing' = [closing EXCEPT ![o] = "claimed"]
        /\ Goto(o, t, "closing")
    BY <1>1 DEF RemovePeer
  <2>2. sessions' \in [PeerIDs -> Peers \cup {NoPeer}]
    BY <2>1 DEF TypeOK
  <2>3. closing' \in [Peers -> ClosingStates]
    BY <1>0, <2>1 DEF TypeOK
  <2>4. pc' \in [Peers -> [Threads -> PCs]]
    BY <1>0, <2>1, GotoPC
  <2> QED BY <2>2, <2>3, <2>4 DEF TypeOK, Others, peerVars, logVars, runVars
<1>2. CASE sessions[owner[o]] # o
  <2>1. Goto(o, t, "off") /\ UNCHANGED <<sessions, closing>>
    BY <1>2 DEF RemovePeer
  <2> QED BY <1>0, <2>1, GotoType
<1> QED BY <1>1, <1>2

LEMMA DetachType ==
  ASSUME TypeOK, NEW b \in Batchers, DetachPeers(b)
  PROVE  /\ sessions' \in [PeerIDs -> Peers \cup {NoPeer}]
         /\ closing' \in [Peers -> ClosingStates]
         /\ batch' \in [Batchers -> SUBSET Peers]
  BY DEF TypeOK, DetachPeers, Routed, ClosingStates

LEMMA HandshakeType ==
  ASSUME TypeOK, NEW o \in Peers,
         HandshakeAccepted(o) \/ HandshakeRejected(o) \/ HandshakeStep(o)
  PROVE  TypeOK'
<1>0. /\ "handshake" \in Threads /\ "control" \in Threads
      /\ {"off", "set", "signal", "onOpen", "track", "setControl", "pending"} \subseteq PCs
  BY DEF PCs, Threads
<1>1. CASE HandshakeAccepted(o)
  BY <1>0, <1>1, GotoType DEF HandshakeAccepted
<1>2. CASE HandshakeRejected(o)
  BY <1>0, <1>2, RemoveType DEF HandshakeRejected
<1>3. CASE HandshakeAborted(o)
  <2>1. CASE RemovePeer(o, "handshake")
    BY <1>0, <1>3, <2>1, RemoveType DEF HandshakeAborted
  <2>2. CASE Goto(o, "handshake", "off") /\ UNCHANGED <<sessions, closing>>
    BY <1>0, <1>3, <2>2, GotoType DEF HandshakeAborted
  <2> QED BY <1>3, <2>1, <2>2 DEF HandshakeAborted
<1>4. CASE SetHandshake(o, "handshake", "signal")
  BY <1>0, <1>4, GotoPC DEF TypeOK, SetHandshake, logVars, runVars
<1>5. CASE SignalReady(o)
  BY <1>0, <1>5, GotoPC DEF TypeOK, SignalReady, logVars, runVars
<1>6. CASE OnOpen(o, "handshake")
  BY <1>0, <1>6, GotoPC DEF TypeOK, OnOpen, peerVars, runVars
<1>7. CASE TrackPeerOpen(o, "handshake", "setControl")
  BY <1>0, <1>7, GotoPC DEF TypeOK, TrackPeerOpen, peerVars, runVars
<1>8. CASE StartPeerControlLoop(o, "handshake", "off")
  BY <1>0, <1>8 DEF TypeOK, StartPeerControlLoop, Others, peerVars, logVars, runVars
<1> QED BY <1>1, <1>2, <1>3, <1>4, <1>5, <1>6, <1>7, <1>8 DEF HandshakeStep

LEMMA ServeType ==
  ASSUME TypeOK, NEW o \in Peers,
         \/ LegacyAccepted(o) \/ LegacyRejected(o) \/ ServeStops(o) \/ ServeLinkError(o)
         \/ ServeStep(o)
  PROVE  TypeOK'
<1>0. /\ "serve" \in Threads /\ "control" \in Threads /\ "reinstall" \in Batchers
      /\ {"off", "wait", "accept", "loop", "onOpen", "track", "set", "setControl", "pending",
          "reinstall", "reinstalling", "remove"} \subseteq PCs
  BY DEF PCs, Threads, Batchers
<1>1. CASE LegacyAccepted(o)
  BY <1>0, <1>1, GotoType DEF LegacyAccepted
<1>2. ASSUME LegacyFailed(o) PROVE TypeOK'
  BY <1>0, <1>2, GotoType DEF LegacyFailed
<1>3. CASE ServeStops(o)
  BY <1>0, <1>3, GotoType DEF ServeStops
<1>4. CASE ServeLinkError(o)
  BY <1>0, <1>4, RemoveType DEF ServeLinkError
<1>5. CASE ServeStart(o)
  BY <1>0, <1>5, GotoType DEF ServeStart
<1>6. CASE ServeReady(o)
  BY <1>0, <1>6, GotoType DEF ServeReady
<1>7. CASE ServeTimeout(o)
  BY <1>0, <1>7, RemoveType DEF ServeTimeout
<1>8. CASE LegacyAborted(o)
  BY <1>0, <1>2, <1>8, RemoveType DEF LegacyAborted
<1>9. CASE LegacyReinstall(o)
  <2>1. Goto(o, "serve", "reinstalling") /\ DetachPeers("reinstall") /\ reinstall' = o
    BY <1>9 DEF LegacyReinstall
  <2> QED BY <1>0, <1>9, <2>1, GotoPC, DetachType
          DEF TypeOK, LegacyReinstall, peerVars, logVars, runVars
<1>10. CASE LegacyReinstalled(o)
  BY <1>0, <1>10, GotoPC DEF TypeOK, LegacyReinstalled, peerVars, logVars, runVars
<1>11. CASE LegacyRemove(o)
  BY <1>0, <1>11, RemoveType DEF LegacyRemove
<1>12. CASE OnOpen(o, "serve")
  BY <1>0, <1>12, GotoPC DEF TypeOK, OnOpen, peerVars, runVars
<1>13. CASE TrackPeerOpen(o, "serve", "set")
  BY <1>0, <1>13, GotoPC DEF TypeOK, TrackPeerOpen, peerVars, runVars
<1>14. CASE SetHandshake(o, "serve", "setControl")
  BY <1>0, <1>14, GotoPC DEF TypeOK, SetHandshake, logVars, runVars
<1>15. CASE StartPeerControlLoop(o, "serve", "loop")
  BY <1>0, <1>15 DEF TypeOK, StartPeerControlLoop, Others, peerVars, logVars, runVars
<1>16. CASE ServeEnd(o)
  <2>1. CASE RemovePeer(o, "serve")
    BY <1>0, <1>16, <2>1, RemoveType DEF ServeEnd
  <2>2. CASE Goto(o, "serve", "off") /\ UNCHANGED <<sessions, closing>>
    BY <1>0, <1>16, <2>2, GotoType DEF ServeEnd
  <2> QED BY <1>16, <2>1, <2>2 DEF ServeEnd
<1> QED
  BY <1>1, <1>2, <1>3, <1>4, <1>5, <1>6, <1>7, <1>8, <1>9, <1>10, <1>11, <1>12, <1>13, <1>14,
     <1>15, <1>16 DEF ServeStep, LegacyRejected

LEMMA CloseType ==
  ASSUME TypeOK, NEW o \in Peers, CloseStep(o)
  PROVE  TypeOK'
<1>1. CASE CloseSnapshot(o)
  <2>1. teardown' \in [Peers -> [sid : BOOLEAN, data : BOOLEAN, ctl : BOOLEAN, stop : BOOLEAN]]
    BY <1>1 DEF TypeOK, CloseSnapshot
  <2>2. closing' \in [Peers -> ClosingStates] /\ closed' \in [Peers -> BOOLEAN]
    BY <1>1 DEF TypeOK, CloseSnapshot, ClosingStates
  <2> QED BY <1>1, <2>1, <2>2 DEF TypeOK, CloseSnapshot, logVars, runVars
<1>2. CASE CloseResources(o)
  <2>1. closing' \in [Peers -> ClosingStates]
    BY <1>2 DEF TypeOK, CloseResources, ClosingStates
  <2>2. data' \in [Peers -> Plane] /\ ctl' \in [Peers -> Plane]
    BY <1>2 DEF TypeOK, CloseResources, Plane
  <2>3. ready' \in [Peers -> BOOLEAN] /\ stopCtl' \in [Peers -> BOOLEAN]
    BY <1>2, ControlPlaneAssumption DEF TypeOK, CloseResources
  <2> QED BY <1>2, <2>1, <2>2, <2>3 DEF TypeOK, CloseResources, logVars, runVars
<1>3. CASE CloseNotify(o)
  <2>1. closing' \in [Peers -> ClosingStates] /\ reported' \in [Peers -> BOOLEAN]
    BY <1>3 DEF TypeOK, CloseNotify, ClosingStates
  <2> QED BY <1>3, <2>1 DEF TypeOK, CloseNotify, peerVars, runVars
<1>4. CASE CloseFinish(o)
  <2>1. closing' \in [Peers -> ClosingStates] /\ counted' \in [Peers -> BOOLEAN]
    BY <1>4 DEF TypeOK, CloseFinish, ClosingStates
  <2>2. pc' \in [Peers -> [Threads -> PCs]] /\ batch' \in [Batchers -> SUBSET Peers]
    BY <1>4 DEF TypeOK, CloseFinish, PCs
  <2> QED BY <1>4, <2>1, <2>2 DEF TypeOK, CloseFinish, peerVars, runVars
<1> QED BY <1>1, <1>2, <1>3, <1>4 DEF CloseStep

LEMMA RunType ==
  ASSUME TypeOK, HandleReconnect \/ Cancel \/ ShutdownStep
  PROVE  TypeOK'
<1>0. {"reinstall", "ctx", "shutdown"} \subseteq Batchers
  BY DEF Batchers
<1>1. CASE HandleReconnect
  BY <1>0, <1>1, DetachType DEF TypeOK, HandleReconnect, peerVars, logVars, runVars
<1>2. CASE Cancel
  BY <1>2 DEF TypeOK, Cancel, peerVars, logVars
<1>3. CASE CtxCloseSession
  BY <1>0, <1>3, DetachType DEF TypeOK, CtxCloseSession, peerVars, logVars
<1>4. CASE CtxCloserEnds
  BY <1>4 DEF TypeOK, CtxCloserEnds, peerVars, logVars
<1>5. CASE ReconnectDone
  BY <1>5 DEF TypeOK, ReconnectDone, peerVars, logVars, runVars
<1>6. CASE ShutdownDone
  BY <1>6 DEF TypeOK, ShutdownDone, peerVars, logVars
<1>7. CASE ShutdownCloseSession
  BY <1>0, <1>7, DetachType DEF TypeOK, ShutdownCloseSession, peerVars, logVars
<1>8. CASE ShutdownWait
  BY <1>8 DEF TypeOK, ShutdownWait, peerVars, logVars
<1>9. CASE RunReturns
  BY <1>9 DEF TypeOK, RunReturns, peerVars, logVars
<1> QED BY <1>1, <1>2, <1>3, <1>4, <1>5, <1>6, <1>7, <1>8, <1>9 DEF ShutdownStep

LEMMA TypeStep == TypeOK /\ [Next]_vars => TypeOK'
<1> SUFFICES ASSUME TypeOK, [Next]_vars PROVE TypeOK'
  OBVIOUS
<1>1. ASSUME NEW id \in PeerIDs, NEW o \in Peers, OnPeerControlData(id, o) PROVE TypeOK'
  BY <1>1 DEF TypeOK, OnPeerControlData, Threads, PCs, Plane, logVars, runVars
<1>2. ASSUME NEW id \in PeerIDs, NEW o \in Peers, OnPeerData(id, o) PROVE TypeOK'
  <2>1. "serve" \in Threads /\ "pending" \in PCs
    BY DEF Threads, PCs
  <2> QED BY <1>2, <2>1, GotoPC DEF TypeOK, OnPeerData, Plane, logVars, runVars
<1>3. ASSUME NEW o \in Peers, NEW t \in Threads, GoTracked(o, t) PROVE TypeOK'
  <2>1. Entry[t] \in PCs /\ "off" \in PCs
    BY DEF Entry, Threads, PCs
  <2> QED BY <1>3, <2>1, GotoType DEF GoTracked
<1>4. ASSUME NEW o \in Peers, ExpireStep(o) PROVE TypeOK'
  <2>1. "expire" \in Threads /\ "fired" \in PCs /\ "off" \in PCs
    BY DEF Threads, PCs
  <2>2. CASE ExpireSelect(o)
    BY <2>1, <2>2, GotoType DEF ExpireSelect
  <2>3. CASE ExpireRemove(o)
    BY <2>1, <2>3, RemoveType DEF ExpireRemove
  <2> QED BY <1>4, <2>2, <2>3 DEF ExpireStep
<1>5. ASSUME NEW o \in Peers, ControlCancelled(o) \/ ControlDeath(o) PROVE TypeOK'
  <2>1. "control" \in Threads /\ "off" \in PCs
    BY DEF Threads, PCs
  <2> QED BY <1>5, <2>1, GotoType, RemoveType DEF ControlCancelled, ControlDeath
<1>6. CASE UNCHANGED vars
  BY <1>6 DEF TypeOK, vars, peerVars, logVars, runVars
<1> QED BY <1>1, <1>2, <1>3, <1>4, <1>5, <1>6, HandshakeType, ServeType, CloseType, RunType
        DEF Next, Environment

THEOREM TypeCorrect == Spec => []TypeOK
  BY TypeInit, TypeStep, PTL DEF Spec


(***************************************************************************)
(* The routing map and the closers.  For these the actions fall into a few *)
(* kinds: steps that leave map, claims and batches alone, removals,        *)
(* admissions, bulk detachments and the steps of closePeerSession.         *)
(***************************************************************************)

\* What a step does to the goroutines if none of them starts or stops being a closer.
SameClosers ==
    \A p \in Peers, u \in Threads :
        /\ pc'[p][u] = "closing" <=> pc[p][u] = "closing"
        /\ owner[p] = NoID => pc'[p][u] = pc[p][u]

QuietStep == SameClosers /\ UNCHANGED <<sessions, owner, closed, closing, batch>>

LEMMA QuietMap ==
  ASSUME TypeOK, MapInv, QuietStep
  PROVE  MapInv'
<1>1. (RoutedPeersAreLive /\ NoOrphanPeer /\ ClosedPeersAreClaimed)'
  BY DEF MapInv, QuietStep, RoutedPeersAreLive, Routed, NoOrphanPeer, ClosedPeersAreClaimed
<1>2. UnbuiltPeersAreIdle'
  BY DEF MapInv, QuietStep, SameClosers, UnbuiltPeersAreIdle
<1>3. \A o \in Peers : Closers(o)' = Closers(o)
  BY DEF QuietStep, SameClosers, Closers
<1>4. OneCloser'
  BY <1>3 DEF MapInv, QuietStep, OneCloser
<1> QED BY <1>1, <1>2, <1>4 DEF MapInv

LEMMA GotoIsQuiet ==
  ASSUME TypeOK, MapInv, NEW o \in Peers, NEW t \in Threads, NEW label \in PCs,
         label # "closing", Goto(o, t, label), pc[o][t] \notin {"none", "closing"},
         UNCHANGED <<sessions, owner, closed, closing, batch>>
  PROVE  QuietStep
<1>1. owner[o] # NoID
  BY DEF MapInv, UnbuiltPeersAreIdle
<1> QED BY <1>1, GotoPC DEF QuietStep, SameClosers

LEMMA RemoveMap ==
  ASSUME TypeOK, MapInv, NEW o \in Peers, NEW t \in Threads, RemovePeer(o, t),
         pc[o][t] \notin {"none", "closing"}, UNCHANGED <<owner, closed, batch>>
  PROVE  MapInv'
<1>0. "closing" \in PCs /\ "off" \in PCs
  BY DEF PCs
<1>1. owner[o] # NoID /\ owner[o] \in PeerIDs
  BY DEF MapInv, UnbuiltPeersAreIdle, TypeOK
<1>2. CASE sessions[owner[o]] # o
  <2>1. Goto(o, t, "off") /\ UNCHANGED <<sessions, closing>>
    BY <1>2 DEF RemovePeer
  <2> QED BY <1>0, <2>1, GotoIsQuiet, QuietMap
<1>3. CASE sessions[owner[o]] = o
  <2>1. /\ sessions' = [sessions EXCEPT ![owner[o]] = NoPeer]
        /\ closing' = [closing EXCEPT ![o] = "claimed"]
        /\ Goto(o, t, "closing")
    BY <1>3 DEF RemovePeer
  <2>2. closing[o] = "no" /\ ~closed[o]
    BY <1>1, <1>3, NoneAssumption DEF MapInv, RoutedPeersAreLive, Routed
  <2>3. Closers(o) = {}
    BY <2>2 DEF MapInv, OneCloser
  <2>4. \A p \in Peers, u \in Threads :
            pc'[p][u] = IF p = o /\ u = t THEN "closing" ELSE pc[p][u]
    BY <1>0, <2>1, GotoPC
  <2>5. Closers(o)' = {t}
    BY <2>3, <2>4 DEF Closers
  <2>6. \A p \in Peers \ {o} : Closers(p)' = Closers(p)
    BY <2>4 DEF Closers
  <2>7. \A p \in Peers : closing'[p] = IF p = o THEN "claimed" ELSE closing[p]
    BY <2>1 DEF TypeOK
  <2>8. OneCloser'
    BY <2>5, <2>6, <2>7 DEF MapInv, OneCloser
  <2>9. RoutedPeersAreLive'
    BY <1>1, <1>3, <2>1, <2>7 DEF MapInv, RoutedPeersAreLive, Routed, TypeOK
  <2>10. NoOrphanPeer'
    BY <1>1, <1>3, <2>1, <2>7, NoneAssumption DEF MapInv, NoOrphanPeer, TypeOK
  <2>11. UnbuiltPeersAreIdle'
    BY <1>1, <2>4, <2>7 DEF MapInv, UnbuiltPeersAreIdle
  <2>12. ClosedPeersAreClaimed'
    BY <2>2, <2>7 DEF MapInv, ClosedPeersAreClaimed
  <2> QED BY <2>8, <2>9, <2>10, <2>11, <2>12 DEF MapInv
<1> QED BY <1>2, <1>3

LEMMA AdmitMap ==
  ASSUME TypeOK, MapInv, NEW id \in PeerIDs, NEW o \in Peers,
         OnPeerControlData(id, o) \/ OnPeerData(id, o)
  PROVE  MapInv'
<1>1. /\ sessions[id] = o \/ (sessions[id] = NoPeer /\ owner[o] = NoID)
      /\ sessions' = [sessions EXCEPT ![id] = o]
      /\ owner' = [owner EXCEPT ![o] = id]
      /\ UNCHANGED <<closed, closing, batch>>
      /\ ~closed[o]
  BY DEF OnPeerControlData, OnPeerData
<1>2. closing[o] = "no"
  BY <1>1, NoneAssumption DEF MapInv, RoutedPeersAreLive, UnbuiltPeersAreIdle, Routed
<1>3. \A u \in Threads : pc[o][u] # "closing"
  BY <1>2 DEF MapInv, OneCloser, Closers
<1>4. \A p \in Peers, u \in Threads :
          /\ pc'[p][u] = "closing" <=> pc[p][u] = "closing"
          /\ p # o => pc'[p][u] = pc[p][u]
  BY <1>3 DEF OnPeerControlData, OnPeerData, Goto, TypeOK, Threads
<1>5. \A p \in Peers : Closers(p)' = Closers(p)
  BY <1>1, <1>4 DEF Closers
<1>6. OneCloser'
  BY <1>1, <1>5 DEF MapInv, OneCloser
<1>7. RoutedPeersAreLive'
  BY <1>1, <1>2, NoneAssumption DEF MapInv, RoutedPeersAreLive, Routed, TypeOK
<1>8. NoOrphanPeer'
  BY <1>1, <1>2, NoneAssumption DEF MapInv, NoOrphanPeer, RoutedPeersAreLive, Routed, TypeOK
<1>9. UnbuiltPeersAreIdle'
  BY <1>1, <1>4, NoneAssumption DEF MapInv, UnbuiltPeersAreIdle, TypeOK
<1>10. ClosedPeersAreClaimed'
  BY <1>1 DEF MapInv, ClosedPeersAreClaimed
<1> QED BY <1>6, <1>7, <1>8, <1>9, <1>10 DEF MapInv

LEMMA DetachMap ==
  ASSUME TypeOK, MapInv, NEW b \in Batchers, DetachPeers(b), batch[b] = {}, SameClosers,
         UNCHANGED <<owner, closed>>
  PROVE  MapInv'
<1> DEFINE taken == {sessions[id] : id \in Routed}
<1>1. /\ batch' = [batch EXCEPT ![b] = taken]
      /\ closing' = [o \in Peers |-> IF o \in taken THEN "claimed" ELSE closing[o]]
      /\ sessions' = [id \in PeerIDs |-> NoPeer]
  BY DEF DetachPeers
<1>2. \A o \in taken : o \in Peers /\ closing[o] = "no" /\ owner[o] # NoID
  BY NoneAssumption DEF MapInv, RoutedPeersAreLive, Routed, TypeOK
<1>3. \A o \in Peers : owner[o] # NoID /\ closing[o] = "no" => o \in taken
  BY NoneAssumption DEF MapInv, NoOrphanPeer, Routed, TypeOK
<1> HIDE DEF taken
<1>4. \A o \in Peers : Closers(o)' = IF o \in taken THEN {b} ELSE Closers(o)
  <2> SUFFICES ASSUME NEW o \in Peers PROVE Closers(o)' = IF o \in taken THEN {b} ELSE Closers(o)
    OBVIOUS
  <2>1. {u \in Threads : pc'[o][u] = "closing"} = {u \in Threads : pc[o][u] = "closing"}
    BY DEF SameClosers
  <2>2. \A c \in Batchers : batch'[c] = IF c = b THEN taken ELSE batch[c]
    BY <1>1 DEF TypeOK
  <2>3. CASE o \in taken
    <3>1. Closers(o) = {}
      BY <1>2, <2>3 DEF MapInv, OneCloser
    <3> QED BY <2>1, <2>2, <2>3, <3>1 DEF Closers
  <2>4. CASE o \notin taken
    BY <2>1, <2>2, <2>4 DEF Closers
  <2> QED BY <2>3, <2>4
<1>5. OneCloser'
  BY <1>1, <1>4 DEF MapInv, OneCloser
<1>6. RoutedPeersAreLive'
  BY <1>1 DEF RoutedPeersAreLive, Routed
<1>7. NoOrphanPeer'
  BY <1>1, <1>3 DEF NoOrphanPeer
<1>8. UnbuiltPeersAreIdle'
  BY <1>1, <1>2 DEF MapInv, UnbuiltPeersAreIdle, SameClosers
<1>9. ClosedPeersAreClaimed'
  BY <1>1, <1>2 DEF MapInv, ClosedPeersAreClaimed
<1> QED BY <1>5, <1>6, <1>7, <1>8, <1>9 DEF MapInv

LEMMA CloseMap ==
  ASSUME TypeOK, MapInv, NEW o \in Peers, CloseStep(o)
  PROVE  MapInv'
<1>1. ASSUME CloseSnapshot(o) \/ CloseResources(o) \/ CloseNotify(o) PROVE MapInv'
  <2>1. /\ closing[o] \in {"claimed", "snap", "shut"}
        /\ UNCHANGED <<sessions, owner, pc, batch>>
    BY <1>1 DEF CloseSnapshot, CloseResources, CloseNotify, peerVars
  <2>3. /\ closing'[o] \in {"snap", "shut", "notified"}
        /\ \A p \in Peers : p # o => closing'[p] = closing[p]
    BY <1>1 DEF CloseSnapshot, CloseResources, CloseNotify, TypeOK
  <2>2. \A p \in Peers : closed'[p] <=> (p = o \/ closed[p])
    <3>1. CASE CloseSnapshot(o)
      BY <3>1 DEF CloseSnapshot, TypeOK
    <3>2. CASE CloseResources(o) \/ CloseNotify(o)
      BY <3>2 DEF CloseResources, CloseNotify, peerVars, MapInv, ClosedPeersAreClaimed
    <3> QED BY <1>1, <3>1, <3>2
  <2>4. \A p \in Peers : Closers(p)' = Closers(p)
    BY <2>1 DEF Closers
  <2>5. OneCloser'
    BY <2>1, <2>3, <2>4 DEF MapInv, OneCloser
  <2>6. /\ \A id \in Routed : sessions[id] # o
        /\ owner[o] # NoID
    BY <2>1 DEF MapInv, RoutedPeersAreLive, UnbuiltPeersAreIdle
  <2>8. RoutedPeersAreLive'
    BY <2>1, <2>2, <2>3, <2>6 DEF MapInv, RoutedPeersAreLive, Routed, TypeOK
  <2>9. NoOrphanPeer' /\ UnbuiltPeersAreIdle'
    BY <2>1, <2>3, <2>6 DEF MapInv, NoOrphanPeer, UnbuiltPeersAreIdle
  <2>7. ClosedPeersAreClaimed'
    BY <2>1, <2>2, <2>3 DEF MapInv, ClosedPeersAreClaimed
  <2> QED BY <2>5, <2>7, <2>8, <2>9 DEF MapInv
<1>2. CASE CloseFinish(o)
  <2>1. closing[o] \in {"notified", "shut"} /\ UNCHANGED <<sessions, owner, closed>>
    BY <1>2 DEF CloseFinish, peerVars
  <2>2. \A p \in Peers : closing'[p] = IF p = o THEN "done" ELSE closing[p]
    BY <1>2 DEF CloseFinish, TypeOK
  <2>3. \A p \in Peers, u \in Threads :
            pc'[p][u] = IF p = o /\ pc[p][u] = "closing" THEN "off" ELSE pc[p][u]
    BY <1>2 DEF CloseFinish, TypeOK
  <2>4. \A b \in Batchers : batch'[b] = batch[b] \ {o}
    BY <1>2 DEF CloseFinish
  <2>5. Closers(o)' = {} /\ \A p \in Peers : p # o => Closers(p)' = Closers(p)
    BY <2>3, <2>4 DEF Closers
  <2>6. OneCloser'
    BY <2>2, <2>5 DEF MapInv, OneCloser
  <2>7. RoutedPeersAreLive' /\ NoOrphanPeer'
    BY <2>1, <2>2 DEF MapInv, RoutedPeersAreLive, NoOrphanPeer, Routed, TypeOK
  <2>8. UnbuiltPeersAreIdle'
    BY <2>1, <2>2, <2>3 DEF MapInv, UnbuiltPeersAreIdle
  <2>9. ClosedPeersAreClaimed'
    BY <2>1, <2>2 DEF MapInv, ClosedPeersAreClaimed
  <2> QED BY <2>6, <2>7, <2>8, <2>9 DEF MapInv
<1> QED BY <1>1, <1>2 DEF CloseStep


(***************************************************************************)
(* Most actions are one of two kinds: a goroutine moves on, or it removes  *)
(* its peer.                                                               *)
(***************************************************************************)

MoveStep(o, t) ==
    \E label \in PCs \ {"none", "pending", "closing", "setControl"} :
        /\ Goto(o, t, label)
        /\ pc[o][t] \notin {"none", "off", "closing"}
        /\ t = "serve" =>
              /\ label = "loop" => sid[o]
              /\ label = "accept" => ~HasControlPlane
              /\ label \in Establishing \cup {"reinstall"} => pc[o][t] = "accept"
              /\ pc[o][t] = "loop" => label = "off"
        /\ pc[o][t] = "pending" /\ Stopping => label = "off"
        /\ UNCHANGED <<sessions, closing, Others>>

RemoveStep(o, t) ==
    /\ RemovePeer(o, t)
    /\ pc[o][t] \notin {"none", "pending", "off", "closing"}
    /\ UNCHANGED Others

\* The session steps of the goroutine that runs the handshake.
EstablishStep(o, t) ==
    \/ \E next \in {"signal", "setControl"} : SetHandshake(o, t, next)
    \/ t = "handshake" /\ SignalReady(o)
    \/ OnOpen(o, t)
    \/ \E next \in {"setControl", "set"} : TrackPeerOpen(o, t, next) /\ (t = "serve" => next = "set")
    \/ \E next \in {"off", "loop"} :
          StartPeerControlLoop(o, t, next) /\ next = IF t = "serve" THEN "loop" ELSE "off"

LEMMA StepKinds ==
  ASSUME TypeOK, Next
  PROVE  \/ \E o \in Peers, t \in Threads : MoveStep(o, t) \/ RemoveStep(o, t)
         \/ \E o \in Peers, t \in {"handshake", "serve"} : EstablishStep(o, t)
         \/ \E id \in PeerIDs, o \in Peers : OnPeerControlData(id, o) \/ OnPeerData(id, o)
         \/ \E o \in Peers : LegacyReinstall(o) \/ LegacyReinstalled(o) \/ CloseStep(o)
         \/ HandleReconnect \/ Cancel \/ ShutdownStep
<1> DEFINE Goal == \E o \in Peers, t \in Threads : MoveStep(o, t) \/ RemoveStep(o, t)
<1> DEFINE Established == \E o \in Peers, t \in {"handshake", "serve"} : EstablishStep(o, t)
<1>0. Threads = {"handshake", "expire", "serve", "control"}
  BY DEF Threads
<1>1. ASSUME NEW o \in Peers, NEW t \in Threads, GoTracked(o, t) PROVE Goal
  <2>1. Entry[t] \in {"accept", "wait", "start", "run"} /\ (t = "serve" => Entry[t] = "start")
    BY DEF Entry, Threads
  <2> DEFINE label == IF Stopping THEN "off" ELSE Entry[t]
  <2>2. /\ label \in PCs \ {"none", "pending", "closing", "setControl"}
        /\ t = "serve" => label \notin Establishing \cup {"loop", "accept", "reinstall"}
        /\ Stopping => label = "off"
    BY <2>1 DEF PCs, Establishing
  <2>3. pc[o][t] = "pending" /\ Goto(o, t, label) /\ UNCHANGED <<sessions, closing, Others>>
    BY <1>1 DEF GoTracked
  <2> HIDE DEF label
  <2> QED BY <2>2, <2>3 DEF MoveStep
<1>2. ASSUME NEW o \in Peers, HandshakeAccepted(o) PROVE Goal
  BY <1>0, <1>2 DEF HandshakeAccepted, MoveStep, PCs, Establishing
<1>3. ASSUME NEW o \in Peers, HandshakeRejected(o) PROVE Goal
  BY <1>0, <1>3 DEF HandshakeRejected, RemoveStep
<1>4. ASSUME NEW o \in Peers, HandshakeAborted(o) PROVE Goal
  BY <1>0, <1>4 DEF HandshakeAborted, RemoveStep, MoveStep, PCs, Establishing
<1>5. ASSUME NEW o \in Peers, ExpireStep(o) PROVE Goal
  <2>1. CASE ExpireSelect(o)
    BY <1>0, <2>1 DEF ExpireSelect, MoveStep, PCs, Establishing
  <2>2. CASE ExpireRemove(o)
    BY <1>0, <2>2 DEF ExpireRemove, RemoveStep
  <2> QED BY <1>5, <2>1, <2>2 DEF ExpireStep
<1>6. ASSUME NEW o \in Peers, LegacyAccepted(o) \/ LegacyFailed(o) \/ ServeStops(o) PROVE Goal
  BY <1>0, <1>6 DEF LegacyAccepted, LegacyFailed, ServeStops, MoveStep, PCs, Establishing
<1>7. ASSUME NEW o \in Peers, ServeStart(o) PROVE Goal
  BY <1>0, <1>7 DEF ServeStart, MoveStep, PCs, Establishing
<1>8. ASSUME NEW o \in Peers, ServeReady(o) PROVE Goal
  BY <1>0, <1>8 DEF ServeReady, MoveStep, PCs, Establishing
<1>9. ASSUME NEW o \in Peers, ServeTimeout(o) \/ LegacyRemove(o) \/ ServeLinkError(o) PROVE Goal
  BY <1>0, <1>9 DEF ServeTimeout, LegacyRemove, ServeLinkError, RemoveStep
<1>10. ASSUME NEW o \in Peers, LegacyAborted(o) PROVE Goal
  BY <1>0, <1>6, <1>10 DEF LegacyAborted, RemoveStep
<1>11. ASSUME NEW o \in Peers, ServeEnd(o) PROVE Goal
  BY <1>0, <1>11 DEF ServeEnd, RemoveStep, MoveStep, PCs, Establishing
<1>12. ASSUME NEW o \in Peers, ControlCancelled(o) PROVE Goal
  BY <1>0, <1>12 DEF ControlCancelled, MoveStep, PCs, Establishing
<1>13. ASSUME NEW o \in Peers, ControlDeath(o) PROVE Goal
  BY <1>0, <1>13 DEF ControlDeath, RemoveStep
<1>14. ASSUME NEW o \in Peers, HandshakeStep(o), ~HandshakeAborted(o) PROVE Established
  BY <1>14 DEF HandshakeStep, EstablishStep
<1>15. ASSUME NEW o \in Peers, ServeStep(o)
       PROVE  Goal \/ Established \/ LegacyReinstall(o) \/ LegacyReinstalled(o)
  <2>1. CASE \/ OnOpen(o, "serve") \/ TrackPeerOpen(o, "serve", "set")
             \/ SetHandshake(o, "serve", "setControl") \/ StartPeerControlLoop(o, "serve", "loop")
    BY <2>1 DEF EstablishStep
  <2> HIDE DEF Goal, Established
  <2> QED BY <1>7, <1>8, <1>9, <1>10, <1>11, <1>15, <2>1 DEF ServeStep
<1> HIDE DEF Goal, Established
<1>16. CASE Environment
  <2>1. ASSUME NEW o \in Peers, LegacyRejected(o) PROVE Goal
    BY <1>6, <2>1 DEF LegacyRejected
  <2>2. Goal \/ (\E id \in PeerIDs, o \in Peers : OnPeerControlData(id, o) \/ OnPeerData(id, o))
        \/ HandleReconnect \/ Cancel
    BY <1>2, <1>3, <1>6, <1>9, <1>13, <1>16, <2>1 DEF Environment
  <2> QED BY <2>2 DEF Goal
<1>17. CASE \E o \in Peers : \/ \E t \in Threads : GoTracked(o, t)
                             \/ HandshakeStep(o) \/ ExpireStep(o) \/ ServeStep(o)
                             \/ ControlCancelled(o) \/ CloseStep(o)
  <2>1. Goal \/ Established \/ \E o \in Peers : LegacyReinstall(o) \/ LegacyReinstalled(o) \/ CloseStep(o)
    BY <1>1, <1>4, <1>5, <1>12, <1>14, <1>15, <1>17
  <2> QED BY <2>1 DEF Goal, Established
<1> QED BY <1>16, <1>17 DEF Next


(***************************************************************************)
(* Each part of the invariant is preserved, kind of step by kind of step.  *)
(***************************************************************************)

\* What an EstablishStep does as far as the map is concerned.
LEMMA EstablishIsQuiet ==
  ASSUME TypeOK, MapInv, ControlInv, NEW o \in Peers, NEW t \in {"handshake", "serve"},
         EstablishStep(o, t)
  PROVE  /\ QuietStep
         /\ pc[o]["control"] = "none"
         /\ pc[o][t] \in Establishing
         /\ UNCHANGED <<data, ctl, teardown, reported, runVars, reinstall>>
         /\ \A p \in Peers, u \in Threads :
               pc'[p][u] # pc[p][u] => p = o /\ u \in {t, "control"}
         /\ pc'[o]["control"] # "none" => pc'[o][t] = IF t = "serve" THEN "loop" ELSE "off"
<1>0. /\ t \in Threads /\ "handshake" \in Threads /\ "control" \in Threads
      /\ {"off", "signal", "setControl", "onOpen", "track", "set", "loop", "pending"} \subseteq PCs
  BY DEF Threads, PCs
<1> DEFINE Frame == UNCHANGED <<sessions, owner, data, ctl, closed, closing, batch, teardown,
                                reported, runVars, reinstall>>
<1>1. ASSUME NEW next \in {"signal", "setControl"}, SetHandshake(o, t, next)
      PROVE  (Goto(o, t, next) \/ Goto(o, t, "off")) /\ pc[o][t] = "set" /\ Frame
  BY <1>1 DEF SetHandshake, logVars
<1>2. ASSUME t = "handshake", SignalReady(o)
      PROVE  Goto(o, t, "onOpen") /\ pc[o][t] = "signal" /\ Frame
  BY <1>2 DEF SignalReady, logVars
<1>3. ASSUME OnOpen(o, t)
      PROVE  Goto(o, t, "track") /\ pc[o][t] = "onOpen" /\ Frame
  BY <1>3 DEF OnOpen, peerVars
<1>4. ASSUME NEW next \in {"setControl", "set"}, TrackPeerOpen(o, t, next)
      PROVE  Goto(o, t, next) /\ pc[o][t] = "track" /\ Frame
  BY <1>4 DEF TrackPeerOpen, peerVars
<1>5. ASSUME NEW next \in {"off", "loop"}, StartPeerControlLoop(o, t, next)
      PROVE  /\ pc[o][t] = "setControl" /\ Frame
             /\ \A p \in Peers, u \in Threads :
                   pc'[p][u] = IF p = o /\ u = "control" THEN IF closed[o] THEN "off" ELSE "pending"
                               ELSE IF p = o /\ u = t THEN next ELSE pc[p][u]
  <2>1. pc[o][t] = "setControl" /\ Frame
    BY <1>5 DEF StartPeerControlLoop, Others, peerVars, logVars
  <2>2. pc' = [pc EXCEPT ![o][t] = next,
                         ![o]["control"] = IF closed[o] THEN "off" ELSE "pending"]
    BY <1>5 DEF StartPeerControlLoop
  <2> QED BY <1>0, <2>1, <2>2 DEF TypeOK
<1>6. pc[o][t] \in Establishing /\ Frame
  BY <1>1, <1>2, <1>3, <1>4, <1>5 DEF EstablishStep, Establishing
<1>7. owner[o] # NoID /\ pc[o][t] # "closing" /\ pc[o][t] # "none"
  BY <1>0, <1>6 DEF MapInv, UnbuiltPeersAreIdle, Establishing
<1>8. pc[o]["control"] = "none"
  BY <1>6, ControlPlaneAssumption DEF ControlInv, Establishing
<1>9. ASSUME NEW label \in {"off", "signal", "setControl", "onOpen", "track", "set"}, Goto(o, t, label)
      PROVE  SameClosers /\ \A p \in Peers, u \in Threads :
                               pc'[p][u] # pc[p][u] => p = o /\ u \in {t, "control"}
  <2>1. label \in PCs /\ label # "closing"
    BY <1>0, <1>9
  <2>2. \A p \in Peers, u \in Threads : pc'[p][u] = IF p = o /\ u = t THEN label ELSE pc[p][u]
    BY <1>0, <1>9, <2>1, GotoPC
  <2> QED BY <1>7, <2>1, <2>2 DEF SameClosers
<1>10. ASSUME NEW next \in {"off", "loop"}, StartPeerControlLoop(o, t, next)
       PROVE  SameClosers /\ \A p \in Peers, u \in Threads :
                                pc'[p][u] # pc[p][u] => p = o /\ u \in {t, "control"}
  BY <1>5, <1>7, <1>8, <1>10 DEF SameClosers
<1>11. SameClosers /\ \A p \in Peers, u \in Threads :
                         pc'[p][u] # pc[p][u] => p = o /\ u \in {t, "control"}
  BY <1>1, <1>2, <1>3, <1>4, <1>9, <1>10 DEF EstablishStep
<1>12. ASSUME NEW label \in {"off", "signal", "setControl", "onOpen", "track", "set"}, Goto(o, t, label)
       PROVE  pc'[o]["control"] = "none"
  BY <1>0, <1>8, <1>12, GotoPC
<1>13. pc'[o]["control"] # "none" => pc'[o][t] = IF t = "serve" THEN "loop" ELSE "off"
  BY <1>0, <1>1, <1>2, <1>3, <1>4, <1>5, <1>12 DEF EstablishStep
<1> QED BY <1>6, <1>8, <1>11, <1>13 DEF QuietStep

LEMMA MoveIsQuiet ==
  ASSUME TypeOK, MapInv, NEW o \in Peers, NEW t \in Threads, MoveStep(o, t)
  PROVE  QuietStep
  BY GotoIsQuiet DEF MoveStep, Others, peerVars

LEMMA ReinstallMap ==
  ASSUME TypeOK, MapInv, IdleBatchesAreEmpty, NEW o \in Peers, LegacyReinstall(o)
  PROVE  MapInv'
<1>1. /\ Goto(o, "serve", "reinstalling") /\ DetachPeers("reinstall") /\ UNCHANGED <<owner, closed>>
      /\ batch["reinstall"] = {} /\ pc[o]["serve"] = "reinstall"
  BY DEF LegacyReinstall, IdleBatchesAreEmpty, peerVars
<1>2. "serve" \in Threads /\ "reinstalling" \in PCs /\ "reinstall" \in Batchers
  BY DEF Threads, PCs, Batchers
<1>3. owner[o] # NoID
  BY <1>1, <1>2 DEF MapInv, UnbuiltPeersAreIdle
<1>4. SameClosers
  BY <1>1, <1>2, <1>3, GotoPC DEF SameClosers
<1> QED BY <1>1, <1>2, <1>4, DetachMap

LEMMA RunMap ==
  ASSUME TypeOK, MapInv, IdleBatchesAreEmpty, HandleReconnect \/ Cancel \/ ShutdownStep
  PROVE  MapInv'
<1>0. "reinstall" \in Batchers /\ "ctx" \in Batchers /\ "shutdown" \in Batchers
  BY DEF Batchers
<1>1. ASSUME pc' = pc PROVE SameClosers
  BY <1>1 DEF SameClosers
<1>2. CASE HandleReconnect
  <2>1. /\ DetachPeers("reinstall") /\ batch["reinstall"] = {} /\ pc' = pc
        /\ UNCHANGED <<owner, closed>>
    BY <1>2 DEF HandleReconnect, IdleBatchesAreEmpty, peerVars
  <2> QED BY <1>0, <1>1, <2>1, DetachMap
<1>3. CASE CtxCloseSession
  <2>1. DetachPeers("ctx") /\ batch["ctx"] = {} /\ pc' = pc /\ UNCHANGED <<owner, closed>>
    BY <1>3 DEF CtxCloseSession, IdleBatchesAreEmpty, peerVars
  <2> QED BY <1>0, <1>1, <2>1, DetachMap
<1>4. CASE ShutdownCloseSession
  <2>1. DetachPeers("shutdown") /\ batch["shutdown"] = {} /\ pc' = pc /\ UNCHANGED <<owner, closed>>
    BY <1>4 DEF ShutdownCloseSession, IdleBatchesAreEmpty, peerVars
  <2> QED BY <1>0, <1>1, <2>1, DetachMap
<1>5. CASE Cancel \/ CtxCloserEnds \/ ReconnectDone \/ ShutdownDone \/ ShutdownWait \/ RunReturns
  <2>1. pc' = pc /\ UNCHANGED <<sessions, owner, closed, closing, batch>>
    BY <1>5 DEF Cancel, CtxCloserEnds, ReconnectDone, ShutdownDone, ShutdownWait, RunReturns, peerVars
  <2> QED BY <1>1, <2>1, QuietMap DEF QuietStep
<1> QED BY <1>2, <1>3, <1>4, <1>5 DEF ShutdownStep

LEMMA ReinstalledIsQuiet ==
  ASSUME TypeOK, MapInv, NEW o \in Peers, LegacyReinstalled(o)
  PROVE  QuietStep
<1>1. "serve" \in Threads /\ "remove" \in PCs
  BY DEF Threads, PCs
<1> QED BY <1>1, GotoIsQuiet DEF LegacyReinstalled, peerVars

LEMMA MapStep ==
  ASSUME TypeOK, MapInv, ControlInv, IdleBatchesAreEmpty, [Next]_vars
  PROVE  MapInv'
<1>1. CASE UNCHANGED vars
  <2>1. QuietStep
    BY <1>1 DEF QuietStep, SameClosers, vars, peerVars
  <2> QED BY <2>1, QuietMap
<1>2. ASSUME NEW o \in Peers, NEW t \in Threads, RemoveStep(o, t) PROVE MapInv'
  BY <1>2, RemoveMap DEF RemoveStep, Others, peerVars
<1>3. CASE Next
  BY <1>2, <1>3, StepKinds, MoveIsQuiet, EstablishIsQuiet, ReinstalledIsQuiet, QuietMap, AdmitMap,
     ReinstallMap, CloseMap, RunMap
<1> QED BY <1>1, <1>3

\* What a step may do to the batches.
LEMMA IdleStep ==
  ASSUME TypeOK, IdleBatchesAreEmpty, [Next]_vars
  PROVE  IdleBatchesAreEmpty'
<1>0. {"reinstall", "ctx", "shutdown"} = Batchers
  BY DEF Batchers
<1> DEFINE Same == UNCHANGED <<batch, run, ctxCloser, reinstall>>
<1>1. ASSUME Same PROVE IdleBatchesAreEmpty'
  BY <1>1 DEF IdleBatchesAreEmpty
<1>2. ASSUME NEW o \in Peers, NEW t \in Threads, MoveStep(o, t) \/ RemoveStep(o, t) PROVE Same
  BY <1>2 DEF MoveStep, RemoveStep, Others, runVars
<1>3. ASSUME NEW o \in Peers, NEW t \in {"handshake", "serve"}, EstablishStep(o, t) PROVE Same
  BY <1>3 DEF EstablishStep, SetHandshake, SignalReady, OnOpen, TrackPeerOpen,
              StartPeerControlLoop, Others, runVars
<1>4. ASSUME NEW id \in PeerIDs, NEW o \in Peers, OnPeerControlData(id, o) \/ OnPeerData(id, o)
      PROVE  Same
  BY <1>4 DEF OnPeerControlData, OnPeerData, runVars
<1>5. ASSUME NEW o \in Peers, CloseSnapshot(o) \/ CloseResources(o) \/ CloseNotify(o) PROVE Same
  BY <1>5 DEF CloseSnapshot, CloseResources, CloseNotify, runVars
<1>6. ASSUME NEW o \in Peers, CloseFinish(o) PROVE IdleBatchesAreEmpty'
  BY <1>0, <1>6 DEF CloseFinish, runVars, IdleBatchesAreEmpty
<1>7. ASSUME NEW b \in Batchers, DetachPeers(b)
      PROVE  \A c \in Batchers : c # b => batch'[c] = batch[c]
  BY <1>7 DEF DetachPeers, TypeOK
<1>8. ASSUME NEW o \in Peers, LegacyReinstall(o) PROVE IdleBatchesAreEmpty'
  <2>1. DetachPeers("reinstall") /\ UNCHANGED <<run, ctxCloser>> /\ reinstall' # "free"
    BY <1>8, NoneAssumption DEF LegacyReinstall, runVars
  <2> QED BY <1>0, <1>7, <2>1 DEF IdleBatchesAreEmpty
<1>9. ASSUME NEW o \in Peers, LegacyReinstalled(o) PROVE IdleBatchesAreEmpty'
  BY <1>9 DEF LegacyReinstalled, runVars, IdleBatchesAreEmpty
<1>10. CASE HandleReconnect
  <2>1. DetachPeers("reinstall") /\ UNCHANGED <<run, ctxCloser>> /\ reinstall' # "free"
    BY <1>10 DEF HandleReconnect, runVars
  <2> QED BY <1>0, <1>7, <2>1 DEF IdleBatchesAreEmpty
<1>11. CASE CtxCloseSession
  <2>1. DetachPeers("ctx") /\ UNCHANGED <<run, reinstall>> /\ ctxCloser' # "idle"
    BY <1>11 DEF CtxCloseSession
  <2> QED BY <1>0, <1>7, <2>1 DEF IdleBatchesAreEmpty
<1>12. CASE ShutdownCloseSession
  <2>1. DetachPeers("shutdown") /\ UNCHANGED <<ctxCloser, reinstall>> /\ run' = "closing"
    BY <1>12 DEF ShutdownCloseSession
  <2> QED BY <1>0, <1>7, <2>1 DEF IdleBatchesAreEmpty
<1>13. CASE Cancel \/ CtxCloserEnds \/ ReconnectDone \/ ShutdownDone \/ ShutdownWait \/ RunReturns
  BY <1>13 DEF Cancel, CtxCloserEnds, ReconnectDone, ShutdownDone, ShutdownWait, RunReturns, runVars,
               IdleBatchesAreEmpty
<1>14. ASSUME UNCHANGED vars PROVE Same
  BY <1>14 DEF vars, runVars
<1> HIDE DEF Same
<1>15. CASE Next
  BY <1>1, <1>2, <1>3, <1>4, <1>5, <1>6, <1>8, <1>9, <1>10, <1>11, <1>12, <1>13, <1>15, StepKinds
     DEF CloseStep, ShutdownStep
<1> QED BY <1>1, <1>14, <1>15

\* What a step that concerns goroutine t of peer o alone may do to the goroutines.
LEMMA RemovePC ==
  ASSUME TypeOK, NEW o \in Peers, NEW t \in Threads, RemoveStep(o, t)
  PROVE  /\ \A p \in Peers, u \in Threads : pc'[p][u] # pc[p][u] => p = o /\ u = t
         /\ pc'[o][t] \in {"closing", "off"}
<1>1. "closing" \in PCs /\ "off" \in PCs
  BY DEF PCs
<1> QED BY <1>1, GotoPC DEF RemoveStep, RemovePeer

LEMMA ClosePC ==
  ASSUME TypeOK, NEW o \in Peers, CloseStep(o)
  PROVE  \A p \in Peers, u \in Threads :
            pc'[p][u] # pc[p][u] => pc[p][u] = "closing" /\ pc'[p][u] = "off"
<1>1. CASE CloseFinish(o)
  BY <1>1 DEF CloseFinish, TypeOK
<1>2. CASE CloseSnapshot(o) \/ CloseResources(o) \/ CloseNotify(o)
  BY <1>2 DEF CloseSnapshot, CloseResources, CloseNotify
<1> QED BY <1>1, <1>2 DEF CloseStep

LEMMA ControlStep ==
  ASSUME TypeOK, MapInv, ControlInv, [Next]_vars
  PROVE  ControlInv'
<1>0. "handshake" \in Threads /\ "serve" \in Threads /\ "control" \in Threads
  BY DEF Threads
<1>1. ASSUME UNCHANGED <<ctl, data, pc>> PROVE ControlInv'
  BY <1>1 DEF ControlInv
<1>2. ASSUME NEW o \in Peers, NEW t \in Threads, MoveStep(o, t) PROVE ControlInv'
  <2>1. PICK label \in PCs \ {"none", "pending", "closing", "setControl"} :
           /\ Goto(o, t, label)
           /\ pc[o][t] \notin {"none", "off", "closing"}
           /\ t = "serve" =>
                 /\ label = "accept" => ~HasControlPlane
                 /\ label \in Establishing \cup {"reinstall"} => pc[o][t] = "accept"
                 /\ pc[o][t] = "loop" => label = "off"
    BY <1>2 DEF MoveStep
  <2>2. UNCHANGED <<data, ctl>>
    BY <1>2 DEF MoveStep, Others, peerVars
  <2>3. \A p \in Peers, u \in Threads : pc'[p][u] = IF p = o /\ u = t THEN label ELSE pc[p][u]
    BY <2>1, GotoPC
  <2> QED BY <1>0, <2>1, <2>2, <2>3, ControlPlaneAssumption DEF ControlInv
<1>3. ASSUME NEW o \in Peers, NEW t \in Threads, RemoveStep(o, t) PROVE ControlInv'
  <2>1. UNCHANGED <<data, ctl>> /\ pc[o][t] \notin {"none", "pending", "off", "closing"}
    BY <1>3 DEF RemoveStep, Others, peerVars
  <2> QED BY <1>0, <1>3, <2>1, RemovePC, ControlPlaneAssumption DEF ControlInv, Establishing
<1>4. ASSUME NEW o \in Peers, NEW t \in {"handshake", "serve"}, EstablishStep(o, t)
      PROVE  ControlInv'
  <2>1. /\ pc[o][t] \in Establishing /\ UNCHANGED <<data, ctl>>
        /\ \A p \in Peers, u \in Threads : pc'[p][u] # pc[p][u] => p = o /\ u \in {t, "control"}
        /\ pc'[o]["control"] # "none" => pc'[o][t] = IF t = "serve" THEN "loop" ELSE "off"
    BY <1>4, EstablishIsQuiet
  <2>2. IF t = "serve" THEN ~HasControlPlane /\ pc[o]["handshake"] = "none" ELSE HasControlPlane
    BY <2>1, ControlPlaneAssumption DEF ControlInv, Establishing
  <2>3. pc[o][t] # "none"
    BY <2>1 DEF Establishing
  <2> QED BY <1>0, <2>1, <2>2, <2>3, ControlPlaneAssumption DEF ControlInv
<1>5. ASSUME NEW id \in PeerIDs, NEW o \in Peers, OnPeerControlData(id, o) PROVE ControlInv'
  <2>1. HasControlPlane /\ ctl'[o] = "open" /\ data' = data
    BY <1>5 DEF OnPeerControlData, TypeOK
  <2>2. pc[o]["handshake"] = "none" /\ pc[o]["control"] = "none"
    BY <1>0, <1>5, <2>1 DEF OnPeerControlData, ControlInv, MapInv, UnbuiltPeersAreIdle
  <2>3. /\ \A p \in Peers : p # o => ctl'[p] = ctl[p]
        /\ \A p \in Peers, u \in Threads : pc'[p][u] =
              IF p = o /\ u \in {"handshake", "expire"} THEN "pending" ELSE pc[p][u]
    BY <1>5 DEF OnPeerControlData, TypeOK, Threads
  <2> QED BY <1>0, <2>1, <2>2, <2>3 DEF ControlInv
<1>6. ASSUME NEW id \in PeerIDs, NEW o \in Peers, OnPeerData(id, o) PROVE ControlInv'
  <2>1. data'[o] = "open" /\ ctl' = ctl /\ \A p \in Peers : p # o => data'[p] = data[p]
    BY <1>6 DEF OnPeerData, TypeOK
  <2>2. pc[o]["serve"] = "none" /\ (~HasControlPlane => pc[o]["control"] = "none")
    BY <1>0, <1>6 DEF OnPeerData, ControlInv, MapInv, UnbuiltPeersAreIdle
  <2>3. "pending" \in PCs /\ "pending" \notin Establishing \cup {"accept", "reinstall"}
    BY DEF PCs, Establishing
  <2>4. \A p \in Peers, u \in Threads :
            pc'[p][u] = IF p = o /\ u = "serve" THEN "pending" ELSE pc[p][u]
    BY <1>0, <1>6, <2>3, GotoPC DEF OnPeerData
  <2> QED BY <1>0, <2>1, <2>2, <2>3, <2>4, ControlPlaneAssumption DEF ControlInv
<1>7. ASSUME NEW o \in Peers, LegacyReinstall(o) \/ LegacyReinstalled(o) PROVE ControlInv'
  <2>1. PICK label \in {"reinstalling", "remove"} : Goto(o, "serve", label)
    BY <1>7 DEF LegacyReinstall, LegacyReinstalled
  <2>2. UNCHANGED <<data, ctl>> /\ pc[o]["serve"] \in {"reinstall", "reinstalling"}
    BY <1>7 DEF LegacyReinstall, LegacyReinstalled, peerVars
  <2>3. label \in PCs /\ label \notin Establishing \cup {"accept", "reinstall"}
    BY <2>1 DEF PCs, Establishing
  <2>4. \A p \in Peers, u \in Threads : pc'[p][u] = IF p = o /\ u = "serve" THEN label ELSE pc[p][u]
    BY <1>0, <2>1, <2>3, GotoPC
  <2> QED BY <1>0, <2>2, <2>3, <2>4, ControlPlaneAssumption DEF ControlInv
<1>8. ASSUME NEW o \in Peers, CloseStep(o) PROVE ControlInv'
  <2>1. \A p \in Peers : (ctl'[p] = "nil" => ctl[p] = "nil") /\ (data'[p] = "nil" => data[p] = "nil")
    BY <1>8 DEF CloseStep, CloseSnapshot, CloseResources, CloseNotify, CloseFinish, peerVars, TypeOK
  <2> QED BY <1>0, <1>8, <2>1, ClosePC, ControlPlaneAssumption DEF ControlInv, Establishing
<1>9. ASSUME HandleReconnect \/ Cancel \/ ShutdownStep PROVE UNCHANGED <<ctl, data, pc>>
  BY <1>9 DEF HandleReconnect, Cancel, ShutdownStep, CtxCloseSession, CtxCloserEnds, ReconnectDone,
              ShutdownDone, ShutdownCloseSession, ShutdownWait, RunReturns, peerVars
<1>10. CASE Next
  BY <1>1, <1>2, <1>3, <1>4, <1>5, <1>6, <1>7, <1>8, <1>9, <1>10, StepKinds
<1>11. CASE UNCHANGED vars
  BY <1>1, <1>11 DEF vars, peerVars
<1> QED BY <1>10, <1>11

\* Apart from the goroutine that runs the handshake nobody gives a peer its session ID.
LEMMA SidStep ==
  ASSUME TypeOK, NEW o \in Peers, NEW t \in {"handshake", "serve"}, EstablishStep(o, t)
  PROVE  /\ \A p \in Peers : sid[p] => sid'[p]
         /\ \A p \in Peers : ~sid[p] /\ sid'[p] => p = o /\ ~closed[o]
         /\ pc'[o][t] = "setControl" /\ t = "serve" => sid'[o]
         /\ pc'[o][t] = "loop" => pc[o][t] = "setControl"
<1>0. /\ t \in Threads /\ "handshake" \in Threads
      /\ {"off", "signal", "setControl", "onOpen", "track", "set", "loop", "pending"} \subseteq PCs
  BY DEF Threads, PCs
<1>1. ASSUME NEW next \in {"signal", "setControl"}, SetHandshake(o, t, next)
      PROVE  /\ \A p \in Peers : sid[p] => sid'[p]
             /\ \A p \in Peers : ~sid[p] /\ sid'[p] => p = o /\ ~closed[o]
             /\ sid'[o] \/ Goto(o, t, "off")
  BY <1>1 DEF SetHandshake, TypeOK
<1>2. ASSUME NEW next \in {"signal", "setControl"}, SetHandshake(o, t, next),
             pc'[o][t] = "setControl"
      PROVE  sid'[o]
  BY <1>0, <1>1, <1>2, GotoPC
<1>3. ASSUME \A next \in {"signal", "setControl"} : ~SetHandshake(o, t, next)
      PROVE  /\ sid' = sid
             /\ pc'[o][t] # "setControl" \/ t = "handshake"
             /\ pc'[o][t] = "loop" => pc[o][t] = "setControl"
  <2>1. CASE t = "handshake" /\ SignalReady(o)
    BY <1>0, <2>1, GotoPC DEF SignalReady
  <2>2. CASE OnOpen(o, t)
    BY <1>0, <2>2, GotoPC DEF OnOpen, peerVars
  <2>3. ASSUME NEW next \in {"setControl", "set"}, TrackPeerOpen(o, t, next), t = "serve" => next = "set"
        PROVE  sid' = sid /\ (pc'[o][t] # "setControl" \/ t = "handshake") /\ pc'[o][t] # "loop"
    BY <1>0, <2>3, GotoPC DEF TrackPeerOpen, peerVars
  <2>4. ASSUME NEW next \in {"off", "loop"}, StartPeerControlLoop(o, t, next)
        PROVE  sid' = sid /\ pc'[o][t] # "setControl" /\ pc[o][t] = "setControl"
    BY <1>0, <2>4 DEF StartPeerControlLoop, Others, peerVars, TypeOK
  <2> QED BY <1>3, <2>1, <2>2, <2>3, <2>4 DEF EstablishStep
<1>4. ASSUME NEW next \in {"signal", "setControl"}, SetHandshake(o, t, next)
      PROVE  pc'[o][t] # "loop"
  <2>1. Goto(o, t, next) \/ Goto(o, t, "off")
    BY <1>4 DEF SetHandshake
  <2> QED BY <1>0, <2>1, GotoPC
<1> QED BY <1>1, <1>2, <1>3, <1>4

LEMMA SessionStep ==
  ASSUME TypeOK, MapInv, ControlInv, SessionInv, [Next]_vars
  PROVE  SessionInv'
<1>0. "handshake" \in Threads /\ "serve" \in Threads /\ "control" \in Threads
  BY DEF Threads
<1> DEFINE Kept == /\ UNCHANGED <<sid, teardown, reported>>
                   /\ \A p \in Peers : closing'[p] # closing[p] => closing'[p] = "claimed"
<1> DEFINE Serves == \A p \in Peers : pc'[p]["serve"] \in {"loop", "setControl"} =>
                        pc'[p]["serve"] = pc[p]["serve"] \/ sid'[p]
<1>1. ASSUME Kept, Serves PROVE SessionInv'
  BY <1>1 DEF SessionInv
<1>2. ASSUME NEW o \in Peers, NEW t \in Threads, MoveStep(o, t) PROVE Kept /\ Serves
  <2>1. PICK label \in PCs \ {"none", "pending", "closing", "setControl"} :
           Goto(o, t, label) /\ (t = "serve" => (label = "loop" => sid[o]))
    BY <1>2 DEF MoveStep
  <2>2. UNCHANGED <<sid, teardown, reported, closing>>
    BY <1>2 DEF MoveStep, Others, peerVars, logVars
  <2>3. \A p \in Peers, u \in Threads : pc'[p][u] = IF p = o /\ u = t THEN label ELSE pc[p][u]
    BY <2>1, GotoPC
  <2> QED BY <1>0, <2>1, <2>2, <2>3
<1>3. ASSUME NEW o \in Peers, NEW t \in Threads, RemoveStep(o, t) PROVE Kept /\ Serves
  <2>1. UNCHANGED <<sid, teardown, reported>>
    BY <1>3 DEF RemoveStep, Others, peerVars, logVars
  <2>2. \A p \in Peers : closing'[p] # closing[p] => closing'[p] = "claimed"
    BY <1>3 DEF RemoveStep, RemovePeer, TypeOK
  <2> QED BY <1>0, <1>3, <2>1, <2>2, RemovePC
<1>4. ASSUME NEW o \in Peers, NEW t \in {"handshake", "serve"}, EstablishStep(o, t)
      PROVE  SessionInv'
  <2>1. UNCHANGED <<closing, teardown, reported>>
    BY <1>4, EstablishIsQuiet DEF QuietStep
  <2>2. /\ \A p \in Peers : sid[p] => sid'[p]
        /\ \A p \in Peers : ~sid[p] /\ sid'[p] => closing[p] \in {"no", "claimed"}
    BY <1>4, SidStep DEF MapInv, ClosedPeersAreClaimed
  <2>3. Serves
    <3>1. /\ \A p \in Peers, u \in Threads : pc'[p][u] # pc[p][u] => p = o /\ u \in {t, "control"}
          /\ pc'[o][t] = "setControl" /\ t = "serve" => sid'[o]
      BY <1>4, EstablishIsQuiet, SidStep
    <3>2. t = "serve" /\ pc'[o][t] = "loop" => sid'[o]
      BY <1>4, <2>2, SidStep DEF SessionInv
    <3> QED BY <1>0, <3>1, <3>2
  <2> QED BY <2>1, <2>2, <2>3 DEF SessionInv
<1>5. ASSUME NEW id \in PeerIDs, NEW o \in Peers, OnPeerControlData(id, o) \/ OnPeerData(id, o)
      PROVE  Kept /\ Serves
  <2>1. Kept
    BY <1>5 DEF OnPeerControlData, OnPeerData, logVars
  <2>2. CASE OnPeerControlData(id, o)
    BY <2>1, <2>2 DEF OnPeerControlData, TypeOK, Threads
  <2>3. CASE OnPeerData(id, o)
    <3>1. "pending" \in PCs
      BY DEF PCs
    <3> QED BY <1>0, <2>1, <2>3, <3>1, GotoPC DEF OnPeerData
  <2> QED BY <1>5, <2>2, <2>3
<1>6. ASSUME NEW b \in Batchers, DetachPeers(b)
      PROVE  \A p \in Peers : closing'[p] # closing[p] => closing'[p] = "claimed"
  BY <1>6 DEF DetachPeers
<1>7. ASSUME NEW o \in Peers, LegacyReinstall(o) \/ LegacyReinstalled(o) PROVE Kept /\ Serves
  <2>1. PICK label \in {"reinstalling", "remove"} : Goto(o, "serve", label)
    BY <1>7 DEF LegacyReinstall, LegacyReinstalled
  <2>2. Kept
    BY <1>6, <1>7 DEF LegacyReinstall, LegacyReinstalled, peerVars, logVars, Batchers
  <2>3. label \in PCs
    BY <2>1 DEF PCs
  <2> QED BY <1>0, <2>1, <2>2, <2>3, GotoPC
<1>8. ASSUME HandleReconnect \/ Cancel \/ ShutdownStep PROVE Kept /\ Serves
  <2>1. UNCHANGED <<sid, pc, teardown, reported>>
    BY <1>8 DEF HandleReconnect, Cancel, ShutdownStep, CtxCloseSession, CtxCloserEnds, ReconnectDone,
              ShutdownDone, ShutdownCloseSession, ShutdownWait, RunReturns, peerVars, logVars
  <2>2. closing' = closing \/ \E b \in Batchers : DetachPeers(b)
    BY <1>8 DEF HandleReconnect, Cancel, ShutdownStep, CtxCloseSession, CtxCloserEnds, ReconnectDone,
              ShutdownDone, ShutdownCloseSession, ShutdownWait, RunReturns, Batchers
  <2> QED BY <1>6, <2>1, <2>2
<1>9. ASSUME NEW o \in Peers, CloseStep(o) PROVE SessionInv'
  <2>1. sid' = sid /\ Serves
    <3>1. sid' = sid
      BY <1>9 DEF CloseStep, CloseSnapshot, CloseResources, CloseNotify, CloseFinish, peerVars
    <3> QED BY <1>0, <1>9, <3>1, ClosePC
  <2>2. CASE CloseSnapshot(o)
    <3>1. /\ teardown'[o].sid = sid[o] /\ closing'[o] = "snap" /\ reported' = reported
          /\ \A p \in Peers : p # o => teardown'[p] = teardown[p] /\ closing'[p] = closing[p]
      BY <2>2 DEF CloseSnapshot, TypeOK, logVars
    <3> QED BY <2>1, <3>1 DEF SessionInv
  <2>3. CASE CloseResources(o)
    BY <2>1, <2>3 DEF CloseResources, TypeOK, logVars, SessionInv
  <2>4. CASE CloseNotify(o)
    BY <2>1, <2>4 DEF CloseNotify, TypeOK, SessionInv
  <2>5. CASE CloseFinish(o)
    BY <2>1, <2>5, ZenonT(30) DEF CloseFinish, TypeOK, SessionInv
  <2> QED BY <1>9, <2>2, <2>3, <2>4, <2>5 DEF CloseStep
<1>10. ASSUME UNCHANGED vars PROVE Kept /\ Serves
  BY <1>10 DEF vars, peerVars, logVars
<1> HIDE DEF Kept, Serves
<1>11. CASE Next
  BY <1>1, <1>2, <1>3, <1>4, <1>5, <1>7, <1>8, <1>9, <1>11, StepKinds
<1> QED BY <1>1, <1>10, <1>11

\* The map only grows by an admission, which mayAdmitPeerLocked grants.
LEMMA CapStep ==
  ASSUME TypeOK, MapInv, AdmissionIsBounded, [Next]_vars
  PROVE  AdmissionIsBounded'
<1>0. IsFiniteSet(Routed) /\ Cardinality(Routed) \in Nat
  BY FiniteAssumption, FS_Subset, FS_CardinalityType DEF Routed
<1>1. ASSUME Routed' \subseteq Routed PROVE AdmissionIsBounded'
  <2>1. Cardinality(Routed') <= Cardinality(Routed) /\ Cardinality(Routed') \in Nat
    BY <1>0, <1>1, FS_Subset, FS_CardinalityType
  <2> QED BY <1>0, <2>1, CapAssumption DEF AdmissionIsBounded
<1>2. ASSUME sessions' = sessions PROVE Routed' \subseteq Routed
  BY <1>2 DEF Routed
<1>3. ASSUME NEW o \in Peers, NEW t \in Threads, RemoveStep(o, t) PROVE Routed' \subseteq Routed
  BY <1>3 DEF RemoveStep, RemovePeer, Routed, TypeOK
<1>4. ASSUME NEW b \in Batchers, DetachPeers(b) PROVE Routed' \subseteq Routed
  BY <1>4 DEF DetachPeers, Routed
<1>5. ASSUME NEW id \in PeerIDs, NEW o \in Peers, OnPeerControlData(id, o) \/ OnPeerData(id, o)
      PROVE  AdmissionIsBounded'
  <2>1. sessions' = [sessions EXCEPT ![id] = o]
    BY <1>5 DEF OnPeerControlData, OnPeerData
  <2>2. Routed' = Routed \cup {id}
    BY <2>1, NoneAssumption DEF Routed, TypeOK
  <2>3. CASE sessions[id] = o
    BY <1>1, <2>2, <2>3, NoneAssumption DEF Routed
  <2>4. CASE sessions[id] # o
    <3>1. id \notin Routed /\ Cardinality(Routed) < MaxPeerSessions
      BY <1>5, <2>4 DEF OnPeerControlData, OnPeerData, MayAdmitPeerLocked, Routed
    <3>2. Cardinality(Routed \cup {id}) = Cardinality(Routed) + 1
      BY <1>0, <3>1, FS_AddElement
    <3> QED BY <1>0, <2>2, <3>1, <3>2, CapAssumption DEF AdmissionIsBounded
  <2> QED BY <2>3, <2>4
<1>6. ASSUME NEW o \in Peers, NEW t \in Threads, MoveStep(o, t) PROVE sessions' = sessions
  BY <1>6 DEF MoveStep
<1>7. ASSUME NEW o \in Peers, NEW t \in {"handshake", "serve"}, EstablishStep(o, t)
      PROVE  sessions' = sessions
  BY <1>7 DEF EstablishStep, SetHandshake, SignalReady, OnOpen, TrackPeerOpen, StartPeerControlLoop
<1>8. ASSUME NEW o \in Peers, CloseStep(o) PROVE sessions' = sessions
  BY <1>8 DEF CloseStep, CloseSnapshot, CloseResources, CloseNotify, CloseFinish
<1>9. ASSUME \/ \E o \in Peers : LegacyReinstall(o) \/ LegacyReinstalled(o)
             \/ HandleReconnect \/ Cancel \/ ShutdownStep
      PROVE  sessions' = sessions \/ \E b \in Batchers : DetachPeers(b)
  BY <1>9 DEF LegacyReinstall, LegacyReinstalled, HandleReconnect, Cancel, ShutdownStep,
              CtxCloseSession, CtxCloserEnds, ReconnectDone, ShutdownDone, ShutdownCloseSession,
              ShutdownWait, RunReturns, Batchers
<1>10. CASE Next
  BY <1>1, <1>2, <1>3, <1>4, <1>5, <1>6, <1>7, <1>8, <1>9, <1>10, StepKinds
<1>11. CASE UNCHANGED vars
  BY <1>1, <1>2, <1>11 DEF vars
<1> QED BY <1>10, <1>11

LEMMA ShutdownStepInv ==
  ASSUME TypeOK, MapInv, IdleBatchesAreEmpty, ShutdownInv, [Next]_vars
  PROVE  ShutdownInv'
<1>0. /\ "handshake" \in Threads /\ "serve" \in Threads /\ "expire" \in Threads
      /\ "control" \in Threads
  BY DEF Threads
<1> DEFINE Empties == Routed' \subseteq Routed
<1> DEFINE Winds == \* no goroutine becomes one that Run waits for
               run = "returned" => \A p \in Peers, u \in Threads :
                  pc'[p][u] = pc[p][u] \/ (pc'[p][u] = "off" /\ pc[p][u] # "none")
<1>1. ASSUME Empties, Winds, UNCHANGED <<run, ctxDone, reinstall>> PROVE ShutdownInv'
  BY <1>1 DEF ShutdownInv, Tracked
<1>2. ASSUME NEW o \in Peers, NEW t \in Threads, MoveStep(o, t)
      PROVE  Empties /\ Winds /\ UNCHANGED <<run, ctxDone, reinstall>>
  <2>1. PICK label \in PCs \ {"none", "pending", "closing", "setControl"} :
           /\ Goto(o, t, label)
           /\ pc[o][t] \notin {"none", "off", "closing"}
           /\ pc[o][t] = "pending" /\ Stopping => label = "off"
    BY <1>2 DEF MoveStep
  <2>2. Empties /\ UNCHANGED <<run, ctxDone, reinstall>>
    BY <1>2 DEF MoveStep, Others, runVars, Routed
  <2>3. run = "returned" => label = "off"
    BY <2>1 DEF ShutdownInv, Tracked, Stopping
  <2> QED BY <2>1, <2>2, <2>3, GotoPC
<1>3. ASSUME NEW o \in Peers, NEW t \in Threads, RemoveStep(o, t)
      PROVE  Empties /\ Winds /\ UNCHANGED <<run, ctxDone, reinstall>>
  <2>1. UNCHANGED <<run, ctxDone, reinstall>> /\ pc[o][t] \notin {"none", "pending", "off"}
    BY <1>3 DEF RemoveStep, Others, runVars
  <2>2. Empties
    BY <1>3 DEF RemoveStep, RemovePeer, Routed, TypeOK
  <2>3. run # "returned"
    BY <2>1 DEF ShutdownInv, Tracked
  <2> QED BY <2>1, <2>2, <2>3
<1>4. ASSUME NEW o \in Peers, NEW t \in {"handshake", "serve"}, EstablishStep(o, t)
      PROVE  Empties /\ Winds /\ UNCHANGED <<run, ctxDone, reinstall>>
  <2>1. UNCHANGED <<sessions, run, ctxDone, reinstall>> /\ pc[o][t] \notin {"none", "pending", "off"}
    BY <1>4 DEF EstablishStep, SetHandshake, SignalReady, OnOpen, TrackPeerOpen,
                StartPeerControlLoop, Others, runVars
  <2>2. run # "returned"
    BY <1>0, <2>1 DEF ShutdownInv, Tracked
  <2> QED BY <2>1, <2>2 DEF Routed
<1>5. ASSUME NEW id \in PeerIDs, NEW o \in Peers, OnPeerControlData(id, o) \/ OnPeerData(id, o)
      PROVE  ShutdownInv'
  <2>1. run \notin {"closing", "wait", "returned"}
    BY <1>5, NoneAssumption
       DEF OnPeerControlData, OnPeerData, MayAdmitPeerLocked, Stopping, ShutdownInv, Routed
  <2>2. UNCHANGED <<run, ctxDone>>
    BY <1>5 DEF OnPeerControlData, OnPeerData, runVars
  <2> QED BY <2>1, <2>2 DEF ShutdownInv
<1>6. ASSUME NEW o \in Peers, CloseStep(o)
      PROVE  Empties /\ Winds /\ UNCHANGED <<run, ctxDone, reinstall>>
  <2>1. UNCHANGED <<sessions, run, ctxDone, reinstall>>
    BY <1>6 DEF CloseStep, CloseSnapshot, CloseResources, CloseNotify, CloseFinish, runVars
  <2> QED BY <1>6, <2>1, ClosePC DEF Routed
<1>7. ASSUME NEW b \in Batchers, DetachPeers(b) PROVE Routed' = {}
  BY <1>7 DEF DetachPeers, Routed
<1>8. ASSUME NEW o \in Peers, LegacyReinstall(o) \/ LegacyReinstalled(o) PROVE ShutdownInv'
  <2>1. pc[o]["serve"] \in {"reinstall", "reinstalling"} /\ UNCHANGED <<run, ctxDone>>
    BY <1>8 DEF LegacyReinstall, LegacyReinstalled, runVars
  <2>2. Empties
    BY <1>7, <1>8 DEF LegacyReinstall, LegacyReinstalled, Batchers, Routed
  <2>3. run # "returned"
    BY <1>0, <2>1 DEF ShutdownInv, Tracked
  <2> QED BY <2>1, <2>2, <2>3 DEF ShutdownInv
<1>9. CASE HandleReconnect
  <2>1. run = "serve" /\ UNCHANGED <<run, ctxDone>>
    BY <1>9 DEF HandleReconnect, ShutdownInv, runVars
  <2> QED BY <2>1 DEF ShutdownInv
<1>10. CASE Cancel \/ CtxCloserEnds
  <2>1. ctxDone' = TRUE \/ ctxDone' = ctxDone
    BY <1>10 DEF Cancel, CtxCloserEnds
  <2>2. UNCHANGED <<run, reinstall, pc, sessions>>
    BY <1>10 DEF Cancel, CtxCloserEnds
  <2> QED BY <2>1, <2>2 DEF ShutdownInv, Routed, Tracked
<1>11. CASE CtxCloseSession
  <2>1. DetachPeers("ctx") /\ UNCHANGED <<run, ctxDone, reinstall, pc>> /\ "ctx" \in Batchers
    BY <1>11 DEF CtxCloseSession, Batchers
  <2> QED BY <1>1, <1>7, <2>1
<1>12. CASE ReconnectDone
  <2>1. UNCHANGED <<run, ctxDone, pc, sessions>> /\ reinstall' = "free"
    BY <1>12 DEF ReconnectDone, runVars
  <2> QED BY <2>1 DEF ShutdownInv, Routed, Tracked
<1>13. CASE ShutdownDone
  BY <1>13 DEF ShutdownDone, ShutdownInv
<1>14. CASE ShutdownCloseSession
  <2>1. /\ DetachPeers("shutdown") /\ "shutdown" \in Batchers
        /\ run = "done" /\ run' = "closing" /\ ctxDone' = ctxDone
    BY <1>14 DEF ShutdownCloseSession, Batchers
  <2> QED BY <1>7, <2>1 DEF ShutdownInv
<1>15. CASE ShutdownWait
  BY <1>15 DEF ShutdownWait, ShutdownInv, Routed
<1>16. CASE RunReturns
  BY <1>16 DEF RunReturns, ShutdownInv, Routed, Tracked
<1>17. ASSUME UNCHANGED vars PROVE Empties /\ Winds /\ UNCHANGED <<run, ctxDone, reinstall>>
  BY <1>17 DEF vars, runVars, Routed
<1> HIDE DEF Empties, Winds
<1>18. CASE Next
  BY <1>1, <1>2, <1>3, <1>4, <1>5, <1>6, <1>8, <1>9, <1>10, <1>11, <1>12, <1>13, <1>14, <1>15,
     <1>16, <1>18, StepKinds DEF ShutdownStep
<1> QED BY <1>1, <1>17, <1>18

LEMMA InvInit == Init => Inv
<1> SUFFICES ASSUME Init PROVE Inv
  OBVIOUS
<1>1. Routed = {}
  BY DEF Init, Routed
<1>2. \A o \in Peers : Closers(o) = {}
  BY DEF Init, Closers
<1>3. MapInv
  BY <1>1, <1>2 DEF Init, MapInv, RoutedPeersAreLive, NoOrphanPeer, UnbuiltPeersAreIdle,
                    ClosedPeersAreClaimed, OneCloser
<1>4. IdleBatchesAreEmpty
  BY DEF Init, IdleBatchesAreEmpty, Batchers
<1>5. ControlInv
  BY DEF Init, ControlInv, Threads, Establishing
<1>6. SessionInv
  BY DEF Init, SessionInv, Threads
<1>7. ShutdownInv
  BY <1>1 DEF Init, ShutdownInv
<1>8. AdmissionIsBounded
  BY <1>1, CapAssumption, FS_EmptySet DEF AdmissionIsBounded
<1> QED BY <1>3, <1>4, <1>5, <1>6, <1>7, <1>8, TypeInit DEF Inv

\* The invariant is inductive.
THEOREM Invariance == Spec => []Inv
<1>1. Inv /\ [Next]_vars => Inv'
  BY TypeStep, MapStep, IdleStep, ControlStep, SessionStep, ShutdownStepInv, CapStep DEF Inv
<1> QED BY InvInit, <1>1, PTL DEF Spec

(***************************************************************************)
(* The properties the runs check, for every set of peers and every cap.    *)
(***************************************************************************)

\* No frame is pushed into a peer stack that somebody tears down (routePeerFrame).
THEOREM RoutedPeersStayLive == Spec => []RoutedPeersAreLive
<1>1. Inv => RoutedPeersAreLive
  BY DEF Inv, MapInv
<1> QED BY <1>1, Invariance, PTL

\* No peer stack leaks: removePeer compares the peer, not its ID, before it deletes.
THEOREM PeersAreNeverLost == Spec => []NoOrphanPeer
<1>1. Inv => NoOrphanPeer
  BY DEF Inv, MapInv
<1> QED BY <1>1, Invariance, PTL

\* Whoever deletes the peer from the map, and nobody else, runs closePeerSession.
THEOREM PeersHaveOneCloser == Spec => []OneCloser
<1>1. Inv => OneCloser
  BY DEF Inv, MapInv
<1> QED BY <1>1, Invariance, PTL

\* maxPeerSessions is never exceeded, whatever its value.
THEOREM AdmissionStaysBounded == Spec => []AdmissionIsBounded
<1>1. Inv => AdmissionIsBounded
  BY DEF Inv
<1> QED BY <1>1, Invariance, PTL

\* servePeer accepts no stream before the handshake of its peer has landed.
THEOREM ServedPeersHaveHandshaked == Spec => []OnlyHandshakedPeersAreServed
<1>1. Inv => OnlyHandshakedPeersAreServed
  BY DEF Inv, SessionInv, OnlyHandshakedPeersAreServed
<1> QED BY <1>1, Invariance, PTL

\* closePeerSession misses no session: setHandshake cannot slip in after closeSnapshot.
THEOREM SessionsAreReported == Spec => []EstablishedSessionsAreReported
<1>1. Inv => EstablishedSessionsAreReported
  BY DEF Inv, SessionInv, EstablishedSessionsAreReported
<1> QED BY <1>1, Invariance, PTL

\* When Run returns the map is empty and only the context watcher may still close peers.
THEOREM RunLeavesNothing == Spec => []NothingOutlivesRun
<1>1. Inv => NothingOutlivesRun
  <2> SUFFICES ASSUME Inv, run = "returned"
               PROVE  /\ Routed = {}
                      /\ \A o \in Peers : owner[o] # NoID => closing[o] = "done" \/ o \in batch["ctx"]
    BY DEF NothingOutlivesRun
  <2>1. Routed = {} /\ reinstall = "free" /\ \A o \in Peers, t \in Threads : ~Tracked(o, t)
    BY DEF Inv, ShutdownInv
  <2>2. batch["reinstall"] = {} /\ batch["shutdown"] = {}
    BY <2>1 DEF Inv, IdleBatchesAreEmpty
  <2>3. ASSUME NEW o \in Peers, owner[o] # NoID, closing[o] # "done"
        PROVE  o \in batch["ctx"]
    <3>1. sessions[owner[o]] # o
      BY <2>1, <2>3, NoneAssumption DEF Routed, Inv, TypeOK
    <3>2. closing[o] # "no"
      BY <2>3, <3>1 DEF Inv, MapInv, NoOrphanPeer
    <3>3. Closers(o) # {}
      BY <2>3, <3>2 DEF Inv, MapInv, OneCloser
    <3>4. \A t \in Threads : pc[o][t] # "closing"
      BY <2>1 DEF Tracked
    <3> QED BY <2>2, <3>3, <3>4 DEF Closers, Batchers
  <2> QED BY <2>1, <2>3
<1> QED BY <1>1, Invariance, PTL

\* goTracked never adds to the WaitGroup that shutdown is waiting on.
THEOREM NothingStartsAfterWait == Spec => NoStartAfterWait
<1> DEFINE A == (run \in {"wait", "returned"}) =>
                  \A o \in Peers, t \in Threads :
                      pc[o][t] = "pending" => pc'[o][t] \in {"pending", "off"}
<1>1. ASSUME Inv, Next, run \in {"wait", "returned"}, NEW o \in Peers, NEW t \in Threads,
             pc[o][t] = "pending"
      PROVE  pc'[o][t] \in {"pending", "off"}
  <2>1. ASSUME NEW p \in Peers, NEW u \in Threads, MoveStep(p, u)
        PROVE  pc'[o][t] \in {"pending", "off"}
    <3>1. PICK label \in PCs : Goto(p, u, label) /\ (pc[p][u] = "pending" => label = "off")
      BY <1>1, <2>1 DEF MoveStep, Stopping
    <3> QED BY <1>1, <3>1, GotoPC DEF Inv
  <2>2. ASSUME NEW p \in Peers, NEW u \in Threads, RemoveStep(p, u)
        PROVE  pc'[o][t] \in {"pending", "off"}
    <3>1. pc[p][u] # "pending"
      BY <2>2 DEF RemoveStep
    <3> QED BY <1>1, <2>2, <3>1, RemovePC DEF Inv
  <2>3. ASSUME NEW p \in Peers, NEW u \in {"handshake", "serve"}, EstablishStep(p, u)
        PROVE  pc'[o][t] \in {"pending", "off"}
    <3>1. /\ pc[p][u] \in Establishing /\ pc[p]["control"] = "none"
          /\ \A q \in Peers, v \in Threads : pc'[q][v] # pc[q][v] => q = p /\ v \in {u, "control"}
      BY <1>1, <2>3, EstablishIsQuiet DEF Inv
    <3> QED BY <1>1, <3>1 DEF Establishing
  <2>4. ASSUME NEW p \in Peers, CloseStep(p) PROVE pc'[o][t] \in {"pending", "off"}
    BY <1>1, <2>4, ClosePC DEF Inv
  <2>5. ASSUME NEW p \in Peers, LegacyReinstall(p) \/ LegacyReinstalled(p)
        PROVE  pc'[o][t] \in {"pending", "off"}
    <3>1. PICK label \in {"reinstalling", "remove"} : Goto(p, "serve", label)
      BY <2>5 DEF LegacyReinstall, LegacyReinstalled
    <3>2. pc[p]["serve"] # "pending" /\ label \in PCs /\ "serve" \in Threads
      BY <2>5 DEF LegacyReinstall, LegacyReinstalled, PCs, Threads
    <3> QED BY <1>1, <3>1, <3>2, GotoPC DEF Inv
  <2>6. ASSUME NEW id \in PeerIDs, NEW p \in Peers, OnPeerControlData(id, p) \/ OnPeerData(id, p)
        PROVE  FALSE
    BY <1>1, <2>6, NoneAssumption
       DEF Inv, OnPeerControlData, OnPeerData, MayAdmitPeerLocked, Stopping, ShutdownInv, Routed
  <2>7. ASSUME HandleReconnect \/ Cancel \/ ShutdownStep PROVE pc' = pc
    BY <2>7 DEF HandleReconnect, Cancel, ShutdownStep, CtxCloseSession, CtxCloserEnds,
                ReconnectDone, ShutdownDone, ShutdownCloseSession, ShutdownWait, RunReturns
  <2> QED BY <1>1, <2>1, <2>2, <2>3, <2>4, <2>5, <2>6, <2>7, StepKinds DEF Inv
<1>2. Inv /\ [Next]_vars => [A]_vars
  BY <1>1
<1>3. [][Next]_vars /\ []Inv => [][A]_vars
  BY <1>2, PTL
<1> QED BY <1>3, Invariance, PTL DEF Spec, NoStartAfterWait

\* With a control plane per peer, only a goroutine of a peer, a provider reconnect or the end
\* of Run claims it for teardown: reinstallPeerRouting, which takes down every peer, is out
\* of reach of a peer's own failure.  (Without control planes a peer that fails its legacy
\* handshake does take the others down.)
THEOREM PeersFailAloneWithControlPlanes == HasControlPlane => (Spec => PeersFailAlone)
<1> DEFINE A == \A o \in Peers : closing[o] = "no" /\ closing'[o] # "no" =>
                   \/ \E t \in Threads : pc[o][t] # "closing" /\ pc'[o][t] = "closing"
                   \/ o \in batch'["reinstall"] /\ reinstall' = "provider"
                   \/ o \in batch'["ctx"] \cup batch'["shutdown"] /\ ctxDone
<1>1. ASSUME HasControlPlane, Inv, Next, NEW o \in Peers, closing[o] = "no", closing'[o] # "no"
      PROVE  \/ \E t \in Threads : pc[o][t] # "closing" /\ pc'[o][t] = "closing"
             \/ o \in batch'["reinstall"] /\ reinstall' = "provider"
             \/ o \in batch'["ctx"] \cup batch'["shutdown"] /\ ctxDone
  <2>1. ASSUME NEW p \in Peers, NEW u \in Threads, MoveStep(p, u) PROVE FALSE
    BY <1>1, <2>1 DEF MoveStep
  <2>2. ASSUME NEW p \in Peers, NEW u \in Threads, RemoveStep(p, u)
        PROVE  \E t \in Threads : pc[o][t] # "closing" /\ pc'[o][t] = "closing"
    <3>1. /\ Goto(p, u, "closing") /\ pc[p][u] # "closing"
          /\ closing' = [closing EXCEPT ![p] = "claimed"]
      BY <1>1, <2>2 DEF RemoveStep, RemovePeer
    <3>2. o = p
      BY <1>1, <3>1 DEF Inv, TypeOK
    <3>3. "closing" \in PCs
      BY DEF PCs
    <3> QED BY <1>1, <3>1, <3>2, <3>3, GotoPC DEF Inv
  <2>3. ASSUME NEW p \in Peers, NEW u \in {"handshake", "serve"}, EstablishStep(p, u) PROVE FALSE
    BY <1>1, <2>3, EstablishIsQuiet DEF Inv, QuietStep
  <2>4. ASSUME NEW p \in Peers, CloseStep(p) PROVE FALSE
    BY <1>1, <2>4 DEF CloseStep, CloseSnapshot, CloseResources, CloseNotify, CloseFinish, Inv, TypeOK
  <2>5. ASSUME NEW p \in Peers, LegacyReinstall(p) \/ LegacyReinstalled(p) PROVE FALSE
    BY <1>1, <2>5 DEF LegacyReinstall, LegacyReinstalled, Inv, ControlInv
  <2>6. ASSUME NEW id \in PeerIDs, NEW p \in Peers, OnPeerControlData(id, p) \/ OnPeerData(id, p)
        PROVE  FALSE
    BY <1>1, <2>6 DEF OnPeerControlData, OnPeerData
  <2>7. ASSUME NEW b \in Batchers, DetachPeers(b) PROVE o \in batch'[b]
    BY <1>1, <2>7 DEF DetachPeers, Inv, TypeOK
  <2>8. "reinstall" \in Batchers /\ "ctx" \in Batchers /\ "shutdown" \in Batchers
    BY DEF Batchers
  <2>9. CASE HandleReconnect
    BY <2>7, <2>8, <2>9 DEF HandleReconnect
  <2>10. CASE CtxCloseSession
    BY <2>7, <2>8, <2>10 DEF CtxCloseSession
  <2>11. CASE ShutdownCloseSession
    BY <1>1, <2>7, <2>8, <2>11 DEF ShutdownCloseSession, Inv, ShutdownInv
  <2>12. ASSUME Cancel \/ CtxCloserEnds \/ ReconnectDone \/ ShutdownDone \/ ShutdownWait \/ RunReturns
         PROVE  FALSE
    BY <1>1, <2>12 DEF Cancel, CtxCloserEnds, ReconnectDone, ShutdownDone, ShutdownWait, RunReturns
  <2> QED BY <1>1, <2>1, <2>2, <2>3, <2>4, <2>5, <2>6, <2>9, <2>10, <2>11, <2>12, StepKinds
          DEF Inv, ShutdownStep
<1>2. SUFFICES ASSUME HasControlPlane PROVE Spec => PeersFailAlone
  OBVIOUS
<1>3. Inv /\ [Next]_vars => [A]_vars
  BY <1>1, <1>2
<1>4. [][Next]_vars /\ []Inv => [][A]_vars
  BY <1>3, PTL
<1> QED BY <1>4, Invariance, PTL DEF Spec, PeersFailAlone

\* The map, removePeer and the three bulk teardowns never leave a peer without an owner
\* or with two.
THEOREM PeersHaveOneOwner == Spec => []EveryPeerHasOneOwner
  BY RoutedPeersStayLive, PeersAreNeverLost, PeersHaveOneCloser, PTL DEF EveryPeerHasOneOwner

\* From getPeerSession to closePeerSession, with or without control planes.
THEOREM PeersStayAccounted == Spec => []PeersAreAccounted
  BY PeersHaveOneOwner, SessionsAreReported, RunLeavesNothing, PTL DEF PeersAreAccounted

=============================================================================
