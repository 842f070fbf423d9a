----------------------------- MODULE Vp8Channel -----------------------------
(***************************************************************************)
(* The vp8channel transport: one server and its clients share an SFU room  *)
(* that shows every frame to everybody.  A frame carries the epoch of its  *)
(* sender and of its addressee; behind the header are packets of KCP       *)
(* sessions that all use one conversation id, so nothing but the epochs    *)
(* keeps the streams apart.                                                *)
(*                                                                         *)
(* KCP (external) is a stream that accepts the packet it waits for and     *)
(* ignores the others.  Frames stay in the room once written, which stands *)
(* for delay, duplication, reordering, loss and KCP's retransmissions.     *)
(* Epochs are drawn fresh; control epochs are the data epochs with a flag, *)
(* here the field plane.  The binding token (one room) and the VP8 dress   *)
(* of a frame are left out.                                                *)
(***************************************************************************)
EXTENDS Integers, Sequences, FiniteSets, SequencesExt, TLC

CONSTANTS
    maxPeers,    \* peerTable capacity
    batchSize,   \* Options.BatchSize
    Scenes       \* the bounds, one record for every combination explored

(***************************************************************************)
(* A scene names the clients in the room and the server's track readers,   *)
(* and bounds the epochs ever drawn, the peer sessions ever made, the      *)
(* messages on the data planes, the faults (provider reconnects, deaths of *)
(* links, restarts, closes) and the packets a closed KCP session queues.   *)
(***************************************************************************)
ASSUME BoundsAssumption ==
    /\ maxPeers \in Nat \ {0} /\ batchSize \in Nat \ {0}
    /\ \A s \in Scenes :
        /\ IsFiniteSet(s.clients) /\ "server" \notin s.clients
        /\ s.epochs > Cardinality(s.clients)
        /\ {s.epochs, s.sessions, s.msgs, s.faults, s.late} \subseteq Nat

Server == "server"
Clients == UNION {s.clients : s \in Scenes}
Readers == UNION {s.readers : s \in Scenes}
AllEpochs == UNION {1 .. s.epochs : s \in Scenes}
Nodes == Clients \cup {Server}
Planes == {"data", "control"}
Goroutines == {"provider", "session"}   \* who calls into a client's transport

VARIABLES
    scene,     \* the scene, chosen at the start
    epoch,     \* localEpoch of each node
    drawn,     \* number of epochs drawn so far
    confirmed, peerEpoch, peerRestarting, closed,   \* of each client's transport
    rt,        \* every kcpRuntime ever started, named <<node, number>>
    plane,     \* the runtime installed in each kcpPlane of a client
    out,       \* the data plane's outbound queue of each client
    room,      \* frames written to the room
    sess,      \* every peerSession ever made
    peers,     \* peerTable: the sessions, least recently seen first
    tableClosed,
    reader,    \* the server's track readers
    answered,  \* hellos of an epoch the server has answered
    go, mu,    \* the client's goroutines, and the holder of its reconnectMu
    loop,      \* a session is installed and its control loop runs
    wanted,    \* stream.Reconnect has been asked for
    faults, late,
    upper,     \* history: what the server's upper layer got from each epoch
    lost,      \* history: epochs whose session the table has dropped
    mixed      \* history: epochs whose header has carried another session's packets

vars == <<scene, epoch, drawn, confirmed, peerEpoch, peerRestarting, closed, rt, plane, out, room, sess, peers,
          tableClosed, reader, answered, go, mu, loop, wanted, faults, late, upper, lost, mixed>>
clientVars == <<scene, confirmed, peerEpoch, peerRestarting, closed, plane, out, go, mu, loop, wanted>>
serverVars == <<scene, sess, peers, tableClosed, reader, answered, upper, lost>>

Epochs == 1 .. scene.epochs

IdleReader == [pc |-> "idle", plane |-> "data", src |-> 0, pkts |-> <<>>, sess |-> 0]
Reading == [w \in Readers |-> IF w \in scene.readers THEN IdleReader ELSE [IdleReader EXCEPT !.pc = "ended"]]
None == <<Server, 0>>   \* no runtime
Runtime(p, src, dst) ==
    [plane |-> p, src |-> src, dst |-> dst, msgs |-> <<>>, acked |-> 0, got |-> <<>>, open |-> TRUE]

\* The name of the next runtime of node n.
Fresh(n) == <<n, Cardinality({i \in DOMAIN rt : i[1] = n}) + 1>>

\* startKCP: one more runtime.
Started(rts, i, r) == [j \in DOMAIN rts \cup {i} |-> IF j = i THEN r ELSE rts[j]]

\* Every client of the scene has connected: both planes run under its epoch,
\* addressed to nobody, and bringUpLink is about to shake hands under
\* reconnectMu.  The others have closed, and readers not in the scene have ended.
Here(c) == c \in scene.clients
Init ==
    /\ scene \in Scenes
    /\ \E order \in Bijection(scene.clients, 1 .. Cardinality(scene.clients)) :
        /\ epoch = [n \in Nodes |-> IF n = Server THEN 1 ELSE IF Here(n) THEN order[n] + 1 ELSE 0]
        /\ drawn = Cardinality(scene.clients) + 1
        /\ rt = [i \in scene.clients \X {1, 2} |->
                    Runtime(IF i[2] = 1 THEN "data" ELSE "control", order[i[1]] + 1, 0)]
        /\ plane = [c \in Clients |-> [p \in Planes |-> IF Here(c) THEN <<c, IF p = "data" THEN 1 ELSE 2>> ELSE None]]
        /\ confirmed = [c \in Clients |-> FALSE] /\ peerEpoch = [c \in Clients |-> 0]
        /\ peerRestarting = [c \in Clients |-> FALSE] /\ closed = [c \in Clients |-> ~Here(c)]
        /\ out = [c \in Clients |-> <<>>] /\ room = {}
        /\ sess = <<>> /\ peers = <<>> /\ tableClosed = FALSE
        /\ reader = Reading
        /\ answered = [e \in Epochs |-> 0]
        /\ go = [c \in Clients |-> [g \in Goroutines |->
                    [pc |-> IF g = "session" /\ Here(c) THEN "hello" ELSE "idle", hdr |-> 0]]]
        /\ mu = [c \in Clients |-> IF Here(c) THEN "session" ELSE "free"]
        /\ loop = [c \in Clients |-> FALSE] /\ wanted = [c \in Clients |-> FALSE]
        /\ faults = 0 /\ late = 0
        /\ upper = [p \in Planes |-> [e \in Epochs |-> <<>>]]
        /\ lost = {} /\ mixed = {}

Fault == faults < scene.faults /\ faults' = faults + 1

------------------------------------------------------------------------------
(* KCP sessions.                                                            *)

\* kcpRuntime.deliver and readLoop: a packet is <<sending runtime, number>>;
\* an open session takes the one it waits for and ignores the others.
Accept(got, pkt) == IF pkt[2] = Len(got) + 1 THEN Append(got, pkt) ELSE got
Received(got, pkts) ==
    LET after[k \in 0 .. Len(pkts)] == IF k = 0 THEN got ELSE Accept(after[k - 1], pkts[k])
    IN  after[Len(pkts)]
Input(r, pkts) == IF r.open THEN [r EXCEPT !.got = Received(@, pkts)] ELSE r

\* kcpRuntime.close.
Shut(rts, ids) == [i \in DOMAIN rts |-> IF i \in ids THEN [rts[i] EXCEPT !.open = FALSE] ELSE rts[i]]

\* A frame with the header of runtime i and packets of it.
FrameOf(r, pkts) == [plane |-> r.plane, src |-> r.src, dst |-> r.dst, pkts |-> pkts]

\* kcpRuntime.send on a session whose packets go straight to the writer: the
\* control planes, and the server's per-peer pumps.
SendVia(rts, i, content) == [rts EXCEPT ![i].msgs = Append(@, content)]

SendBound == SumFunction([i \in DOMAIN rt |-> IF rt[i].plane = "data" THEN Len(rt[i].msgs) ELSE 0]) < scene.msgs

------------------------------------------------------------------------------
(* A client's restartPlanes, run by the provider's callback without a lock  *)
(* and by handleReconnect under reconnectMu.                                *)

At(c, g, pc) == go[c][g].pc = pc
To(c, g, pc) == go' = [go EXCEPT ![c][g].pc = pc]

\* The confirmation is dropped and a fresh epoch drawn (rotateEpochHeader); frames
\* addressed to the old one reach nobody any more and leave the room.
RotateEpochHeader(c, g) ==
    /\ At(c, g, "restart") /\ drawn < scene.epochs
    /\ confirmed' = [confirmed EXCEPT ![c] = FALSE]
    /\ peerEpoch' = [peerEpoch EXCEPT ![c] = 0]
    /\ drawn' = drawn + 1
    /\ epoch' = [epoch EXCEPT ![c] = drawn + 1]
    /\ go' = [go EXCEPT ![c][g] = [pc |-> "rotated", hdr |-> drawn + 1]]
    /\ room' = {f \in room : f.dst # epoch[c]}
    /\ UNCHANGED <<loop, peerRestarting, closed, rt, plane, out, mu, wanted, faults, late, mixed, serverVars>>

\* Mutant: restart without the closed check.
MutRestartPlane(c, p, src) ==
    /\ rt' = Started(Shut(rt, {plane[c][p]}), Fresh(c), Runtime(p, src, 0))
    /\ plane' = [plane EXCEPT ![c][p] = Fresh(c)]

\* kcpPlane.restart under lifecycleMu: nothing on a closed plane.
RestartPlane(c, p, src) ==
    IF closed[c] THEN UNCHANGED <<rt, plane>>
    ELSE /\ rt' = Started(Shut(rt, {plane[c][p]}), Fresh(c), Runtime(p, src, 0))
         /\ plane' = [plane EXCEPT ![c][p] = Fresh(c)]

\* data.restart drains the queue first.
RestartData(c, g) ==
    /\ At(c, g, "rotated")
    /\ RestartPlane(c, "data", go[c][g].hdr)
    /\ out' = IF closed[c] THEN out ELSE [out EXCEPT ![c] = <<>>]
    /\ To(c, g, "data")
    /\ UNCHANGED <<loop, epoch, drawn, confirmed, peerEpoch, peerRestarting, closed, room, mu, wanted, faults,
                   late, mixed, serverVars>>

\* controlEpochHeader is derived from the epoch of this moment ...
ControlEpochHeader(c, g) ==
    /\ At(c, g, "data")
    /\ go' = [go EXCEPT ![c][g] = [pc |-> "header", hdr |-> epoch[c]]]
    /\ UNCHANGED <<loop, epoch, drawn, confirmed, peerEpoch, peerRestarting, closed, rt, plane, out, room, mu,
                   wanted, faults, late, mixed, serverVars>>

\* ... and control.restart uses it when it gets lifecycleMu.
RestartControl(c, g) ==
    /\ At(c, g, "header")
    /\ RestartPlane(c, "control", go[c][g].hdr)
    /\ To(c, g, "restarted")
    /\ UNCHANGED <<loop, epoch, drawn, confirmed, peerEpoch, peerRestarting, closed, out, room, mu, wanted, faults,
                   late, mixed, serverVars>>

------------------------------------------------------------------------------
(* The client above: handleReconnect and the handshake (client/link.go).    *)

\* The provider has reconnected: its callback restarts the planes unlocked.
ProviderReconnected(c) ==
    /\ At(c, "provider", "idle") /\ ~closed[c]
    /\ \/ wanted[c] /\ UNCHANGED faults
       \/ ~wanted[c] /\ Fault
    /\ wanted' = [wanted EXCEPT ![c] = FALSE]
    /\ To(c, "provider", "restart")
    /\ UNCHANGED <<loop, epoch, drawn, confirmed, peerEpoch, peerRestarting, closed, rt, plane, out, room, mu,
                   late, mixed, serverVars>>

\* Mutant: after the provider's restart, handleReconnect does not reset again.
MutLockReconnect(c, g) ==
    /\ mu[c] = "free" /\ mu' = [mu EXCEPT ![c] = g]
    /\ loop' = [loop EXCEPT ![c] = FALSE]
    /\ To(c, g, IF g = "provider" THEN "restarted" ELSE "restart")

\* handleReconnect of g starts with ResetPeer, under reconnectMu.
LockReconnect(c, g) ==
    /\ mu[c] = "free" /\ mu' = [mu EXCEPT ![c] = g]
    /\ loop' = [loop EXCEPT ![c] = FALSE]
    /\ To(c, g, "restart")

\* The provider's callback goes on into handleReconnect.
ProviderLocks(c) ==
    /\ At(c, "provider", "restarted") /\ mu[c] # "provider"
    /\ LockReconnect(c, "provider")
    /\ UNCHANGED <<epoch, drawn, confirmed, peerEpoch, peerRestarting, closed, rt, plane, out, room, wanted,
                   faults, late, mixed, serverVars>>

\* The control loop declares the link dead.
LinkDies(c) ==
    /\ At(c, "session", "idle") /\ loop[c] /\ Fault
    /\ LockReconnect(c, "session")
    /\ UNCHANGED <<epoch, drawn, confirmed, peerEpoch, peerRestarting, closed, rt, plane, out, room, wanted,
                   late, mixed, serverVars>>

\* After the locked restart the provider path shakes hands; the liveness path
\* asks for a provider rebuild and unlocks.
AfterReset(c) ==
    \/ /\ mu[c] = "provider" /\ At(c, "provider", "restarted")
       /\ To(c, "provider", "hello")
       /\ UNCHANGED <<mu, wanted>>
    \/ /\ mu[c] = "session" /\ At(c, "session", "restarted")
       /\ To(c, "session", "idle")
       /\ mu' = [mu EXCEPT ![c] = "free"]
       /\ wanted' = [wanted EXCEPT ![c] = TRUE]
ContinueReconnect(c) ==
    /\ AfterReset(c)
    /\ UNCHANGED <<loop, epoch, drawn, confirmed, peerEpoch, peerRestarting, closed, rt, plane, out, room,
                   faults, late, mixed, serverVars>>

\* ControlSend: the hello enters the singleton control session.
SendHello(c) ==
    LET g == mu[c]
        i == plane[c]["control"]
    IN  /\ g # "free" /\ At(c, g, "hello")
        /\ rt[i].open
        /\ rt' = SendVia(rt, i, 0)
        /\ go' = [go EXCEPT ![c][g] = [pc |-> "welcome", hdr |-> Len(rt[i].got)]]
        /\ UNCHANGED <<loop, epoch, drawn, confirmed, peerEpoch, peerRestarting, closed, plane, out, room, mu, wanted,
                       faults, late, mixed, serverVars>>

\* The handshake read the welcome: ConfirmPeer binds the data plane to the
\* epoch it names, and the session is installed.
ConfirmPeer(c) ==
    LET g == mu[c]
        i == plane[c]["control"]
        welcome == rt[i].got[Len(rt[i].got)]
        server == rt[welcome[1]].msgs[welcome[2]]
    IN  /\ g # "free" /\ At(c, g, "welcome") /\ Len(rt[i].got) > go[c][g].hdr
        /\ rt' = [rt EXCEPT ![plane[c]["data"]].src = epoch[c], ![plane[c]["data"]].dst = server]
        /\ peerEpoch' = [peerEpoch EXCEPT ![c] = server]
        /\ peerRestarting' = [peerRestarting EXCEPT ![c] = FALSE]
        /\ confirmed' = [confirmed EXCEPT ![c] = TRUE]
        /\ loop' = [loop EXCEPT ![c] = TRUE]
        /\ mu' = [mu EXCEPT ![c] = "free"]
        /\ To(c, g, "idle")
        /\ UNCHANGED <<epoch, drawn, closed, plane, out, room, wanted, faults, late, mixed, serverVars>>

\* The attempts to shake hands run out: after a close, during a restart, or when
\* the answers go to another epoch.
HandshakeFails(c) ==
    LET g == mu[c]
    IN  /\ g # "free" /\ go[c][g].pc \in {"hello", "welcome"}
        /\ \/ closed[c] \/ rt[plane[c]["control"]].src # epoch[c]
           \/ g # "provider" /\ ~At(c, "provider", "idle")
        /\ mu' = [mu EXCEPT ![c] = "free"]
        /\ To(c, g, "idle")
        /\ UNCHANGED <<loop, epoch, drawn, confirmed, peerEpoch, peerRestarting, closed, rt, plane, out, room,
                       wanted, faults, late, mixed, serverVars>>

\* Send: smux writes on the data plane of an established session.
Send(c) ==
    LET i == plane[c]["data"]
    IN  /\ mu[c] = "free" /\ confirmed[c] /\ ~closed[c]
        /\ SendBound
        /\ rt' = SendVia(rt, i, 0)
        /\ UNCHANGED <<epoch, drawn, room, faults, late, mixed, clientVars, serverVars>>

\* Close: both planes are closed for good.
Close(c) ==
    /\ ~closed[c] /\ Fault
    /\ closed' = [closed EXCEPT ![c] = TRUE]
    /\ rt' = Shut(rt, {plane[c]["data"], plane[c]["control"]})
    /\ UNCHANGED <<loop, epoch, drawn, confirmed, peerEpoch, peerRestarting, plane, out, room, go, mu, wanted, late,
                   mixed, serverVars>>

Has(e) == \E k \in DOMAIN peers : sess[peers[k]].epoch = e

------------------------------------------------------------------------------
(* The client's paced writer.                                               *)

Queued(c, i, sn) == [src |-> rt[i].src, dst |-> rt[i].dst, pkt |-> <<i, sn>>]

\* kcpConn.WriteTo stamps a packet with the header of the moment and queues it.
WriteTo(c, i, sn) ==
    /\ sn > rt[i].acked
    /\ \A k \in DOMAIN out[c] : out[c][k].pkt # <<i, sn>>
    /\ out' = [out EXCEPT ![c] = Append(@, Queued(c, i, sn))]

\* KCP's flush sends what the room has not seen under this header.
Flush(c) ==
    LET i == plane[c]["data"]
    IN  /\ ~closed[c] /\ rt[i].open
        /\ \E sn \in 1 .. Len(rt[i].msgs) :
            /\ \A f \in room : f.src = rt[i].src /\ f.dst = rt[i].dst =>
                                   \A k \in DOMAIN f.pkts : f.pkts[k] # <<i, sn>>
            /\ WriteTo(c, i, sn)
        /\ UNCHANGED <<loop, epoch, drawn, confirmed, peerEpoch, peerRestarting, closed, rt, plane, room, go, mu,
                       wanted, faults, late, mixed, serverVars>>

\* The transmit goroutine of a closed session finds both the queue and the
\* closed channel ready, and queues its packet although the plane has drained.
LateWriteTo(c) ==
    /\ late < scene.late /\ late' = late + 1
    /\ \E i \in DOMAIN rt :
        /\ ~rt[i].open /\ rt[i].plane = "data" /\ i[1] = c
        /\ \E sn \in 1 .. Len(rt[i].msgs) : WriteTo(c, i, sn)
    /\ UNCHANGED <<loop, epoch, drawn, confirmed, peerEpoch, peerRestarting, closed, rt, plane, room, go, mu,
                   wanted, faults, mixed, serverVars>>

\* batchSampleFrom: one frame with the header of the first packet and the payloads
\* of up to batchSize packets, whose own headers are cut off.
BatchSampleFrom(batch) ==
    [plane |-> "data", src |-> batch[1].src, dst |-> batch[1].dst, pkts |-> [k \in DOMAIN batch |-> batch[k].pkt]]

\* writerLoop's drainData.
DrainData(c) ==
    LET n == Min({Len(out[c]), batchSize})
        batch == SubSeq(out[c], 1, n)
    IN  /\ out[c] # <<>> /\ ~closed[c]
        /\ room' = room \cup {BatchSampleFrom(batch)}
        /\ out' = [out EXCEPT ![c] = SubSeq(@, n + 1, Len(@))]
        /\ mixed' = IF \E k \in 1 .. n : batch[k].src # batch[1].src THEN mixed \cup {batch[1].src} ELSE mixed
        /\ UNCHANGED <<loop, epoch, drawn, confirmed, peerEpoch, peerRestarting, closed, rt, plane, go, mu, wanted,
                       faults, late, serverVars>>

\* forceKeepalive, and the keepalive of an idle tick: a bare header (left out
\* when the server knows the epoch, where it only keeps the session alive).
ForceKeepalive(c) ==
    LET f == [plane |-> "data", src |-> epoch[c], dst |-> 0, pkts |-> <<>>]
    IN  /\ ~closed[c] /\ f \notin room /\ ~Has(epoch[c])
        /\ room' = room \cup {f}
        /\ UNCHANGED <<epoch, drawn, rt, faults, late, mixed, clientVars, serverVars>>

\* drainControl writes every control packet under its own header; KCP sends
\* again what a restarted server has not acknowledged.
DrainControl(c) ==
    LET i == plane[c]["control"]
    IN  /\ ~closed[c] /\ rt[i].open
        /\ \E sn \in 1 .. Len(rt[i].msgs) :
            /\ sn > rt[i].acked /\ FrameOf(rt[i], <<<<i, sn>>>>) \notin room
            /\ room' = room \cup {FrameOf(rt[i], <<<<i, sn>>>>)}
        /\ UNCHANGED <<epoch, drawn, rt, faults, late, mixed, clientVars, serverVars>>

------------------------------------------------------------------------------
(* handleIncomingFrame.                                                     *)

\* Loopback and frames for somebody else are dropped.
AcceptsDst(n, f) == f.src # epoch[n] /\ f.dst \in {0, epoch[n]}

\* A client takes control frames only when they are addressed to it, and data
\* only from the epoch it has confirmed.
ForClient(c, f) ==
    /\ AcceptsDst(c, f)
    /\ IF f.plane = "control" THEN f.dst = epoch[c]
       ELSE confirmed[c] /\ f.src = peerEpoch[c]

HandleClientFrame(c) ==
    \E f \in room :
        LET i == plane[c][f.plane]
        IN  /\ ForClient(c, f)
            /\ ~closed[c] /\ Input(rt[i], f.pkts) # rt[i]
            /\ rt' = [rt EXCEPT ![i] = Input(@, f.pkts)]
            /\ UNCHANGED <<epoch, drawn, room, faults, late, mixed, clientVars, serverVars>>

\* maybePeerRestart: a data frame of another epoch while the confirmed server
\* is silent and the control loop reports the link unhealthy, once per binding.
MaybePeerRestart(c) ==
    /\ confirmed[c] /\ ~peerRestarting[c]
    /\ (peerEpoch[c] # epoch[Server] /\ UNCHANGED faults) \/ Fault
    /\ \E f \in room : AcceptsDst(c, f) /\ f.plane = "data" /\ f.src # peerEpoch[c]
    /\ peerRestarting' = [peerRestarting EXCEPT ![c] = TRUE]
    /\ wanted' = [wanted EXCEPT ![c] = TRUE]
    /\ UNCHANGED <<loop, epoch, drawn, confirmed, peerEpoch, closed, rt, plane, out, room, go, mu, late,
                   mixed, serverVars>>

------------------------------------------------------------------------------
(* The server's peer table.                                                 *)

\* peerTable.get refreshes the idle timer.
Get(e) == CHOOSE s \in {peers[k] : k \in DOMAIN peers} : sess[s].epoch = e
Without(tab, s) == RemoveAt(tab, CHOOSE k \in DOMAIN tab : tab[k] = s)
Touch(tab, s) == Append(Without(tab, s), s)

RuntimesOf(s) == {sess[s].data, sess[s].control} \ {None}

\* peerSession.close.
ClosedSession(ss, s) == [ss EXCEPT ![s].control = None, ![s].closed = TRUE]

\* Mutant: add without the capacity.
MutAdd(e) ==
    /\ rt' = Started(rt, Fresh(Server), Runtime("data", epoch[Server], e))
    /\ sess' = Append(sess, [epoch |-> e, data |-> Fresh(Server), control |-> None, closed |-> FALSE])
    /\ peers' = Append(peers, Len(sess) + 1)
    /\ UNCHANGED lost

\* peerTable.add of a new session for e, which evicts the oldest when full.
Add(e) ==
    LET full == Len(peers) >= maxPeers
        old == IF full THEN {Head(peers)} ELSE {}
        gone == UNION {RuntimesOf(s) : s \in old}
        kept == IF full THEN ClosedSession(sess, Head(peers)) ELSE sess
    IN  /\ rt' = Started(Shut(rt, gone), Fresh(Server), Runtime("data", epoch[Server], e))
        /\ sess' = Append(kept, [epoch |-> e, data |-> Fresh(Server), control |-> None, closed |-> FALSE])
        /\ peers' = Append(IF full THEN Tail(peers) ELSE peers, Len(sess) + 1)
        /\ lost' = lost \cup {sess[s].epoch : s \in old}

\* What deliverKCPPayload hands to the upper layer of the server.
DeliverTo(i, e, p, pkts) ==
    LET before == Len(rt[i].got)
        after == Input(rt[i], pkts)
    IN  /\ rt' = [rt EXCEPT ![i] = after]
        /\ upper' = [upper EXCEPT ![p][e] = @ \o SubSeq(after.got, before + 1, Len(after.got))]

\* handlePeerFrame and handleControlFrame: a reader takes a frame of epoch e.
\* Frames that would change at most the idle timer are not taken.
Creating == Len(sess) + Cardinality({w \in Readers : reader[w].pc = "create"})
Matters(f) ==
    IF ~Has(f.src) THEN ~tableClosed /\ Creating < scene.sessions /\ (f.plane = "control" => f.pkts # <<>>)
    ELSE LET s == Get(f.src)
             i == IF f.plane = "data" THEN sess[s].data ELSE sess[s].control
         IN  IF i = None THEN TRUE ELSE Input(rt[i], f.pkts) # rt[i]
Found(held, s) == IF held.pkts = <<>> THEN IdleReader ELSE [held EXCEPT !.pc = held.plane, !.sess = s]
TakeFrame(w) ==
    \E f \in room :
        /\ reader[w].pc = "idle" /\ AcceptsDst(Server, f) /\ Matters(f)
        /\ reader' = [reader EXCEPT ![w] =
                        LET held == [pc |-> "create", plane |-> f.plane, src |-> f.src, pkts |-> f.pkts, sess |-> 0]
                        IN  IF Has(f.src) THEN Found(held, Get(f.src)) ELSE held]
        /\ peers' = IF Has(f.src) THEN Touch(peers, Get(f.src)) ELSE peers
        /\ UNCHANGED <<epoch, drawn, rt, room, sess, tableClosed, answered, faults, late, mixed, upper, lost,
                       clientVars>>

\* Mutant: no second look under createMu; add replaces the entry.
MutPeerSessionFor(w) ==
    LET e == reader[w].src
        others == SelectSeq(peers, LAMBDA s : sess[s].epoch # e)
    IN  /\ reader[w].pc = "create" /\ ~tableClosed
        /\ rt' = Started(rt, Fresh(Server), Runtime("data", epoch[Server], e))
        /\ sess' = Append(sess, [epoch |-> e, data |-> Fresh(Server), control |-> None, closed |-> FALSE])
        /\ peers' = Append(others, Len(sess) + 1)
        /\ reader' = [reader EXCEPT ![w] = Found(@, Len(sess) + 1)]
        /\ UNCHANGED <<epoch, drawn, room, tableClosed, answered, faults, late, mixed, upper, lost, clientVars>>

\* peerSessionFor's second look and creation, under createMu.
PeerSessionFor(w) ==
    LET e == reader[w].src
    IN  /\ reader[w].pc = "create"
        /\ \/ /\ Has(e)
              /\ reader' = [reader EXCEPT ![w] = Found(@, Get(e))]
              /\ peers' = Touch(peers, Get(e))
              /\ UNCHANGED <<rt, sess, lost>>
           \/ /\ ~Has(e) /\ tableClosed
              /\ reader' = [reader EXCEPT ![w] = IdleReader]
              /\ UNCHANGED <<rt, sess, peers, lost>>
           \/ /\ ~Has(e) /\ ~tableClosed
              /\ Add(e)
              /\ reader' = [reader EXCEPT ![w] = Found(@, Len(sess) + 1)]
        /\ UNCHANGED <<epoch, drawn, room, tableClosed, answered, faults, late, mixed, upper, clientVars>>

\* The data payload goes to the session's KCP.
DeliverData(w) ==
    /\ reader[w].pc = "data"
    /\ DeliverTo(sess[reader[w].sess].data, reader[w].src, "data", reader[w].pkts)
    /\ reader' = [reader EXCEPT ![w] = IdleReader]
    /\ UNCHANGED <<epoch, drawn, room, sess, peers, tableClosed, answered, faults, late, mixed, lost, clientVars>>

\* peerControlFor under controlMu: the session may have been closed meanwhile.
PeerControlFor(w) ==
    LET s == reader[w].sess
    IN  /\ reader[w].pc = "control"
        /\ \/ /\ sess[s].control = None
              /\ rt' = Started(rt, Fresh(Server), Runtime("control", epoch[Server], sess[s].epoch))
              /\ sess' = [sess EXCEPT ![s].control = Fresh(Server)]
              /\ UNCHANGED <<reader, upper>>
           \/ /\ sess[s].control # None
              /\ DeliverTo(sess[s].control, reader[w].src, "control", reader[w].pkts)
              /\ reader' = [reader EXCEPT ![w] = IdleReader]
              /\ UNCHANGED sess
        /\ UNCHANGED <<epoch, drawn, room, peers, tableClosed, answered, faults, late, mixed, lost, clientVars>>

\* What is addressed to an epoch that no client holds reaches nobody: left out.
Held(e) == \E c \in Clients : epoch[c] = e

\* The server answers a hello: ControlSendTo with its own epoch (LocalPeerID), when
\* ControlPeerCanSend knows the peer.
Welcome(e) ==
    /\ Held(e) /\ answered[e] < Len(upper["control"][e]) /\ ~tableClosed
    /\ Has(e) /\ sess[Get(e)].control # None
    /\ LET i == sess[Get(e)].control
       IN  /\ rt' = SendVia(rt, i, epoch[Server])
           /\ room' = room \cup {FrameOf(rt[i], <<<<i, Len(rt[i].msgs) + 1>>>>)}
    /\ peers' = Touch(peers, Get(e))
    /\ answered' = [answered EXCEPT ![e] = @ + 1]
    /\ UNCHANGED <<epoch, drawn, sess, tableClosed, reader, faults, late, mixed, upper, lost, clientVars>>

\* peerWriterPump writes a packet of the peer's own queue.
PeerWriterPump(i, sn) == room' = room \cup {FrameOf(rt[i], <<<<i, sn>>>>)}

\* SendTo: bulk data for a peer that has shaken hands.
SendTo(e) ==
    /\ Held(e) /\ answered[e] > 0 /\ Has(e) /\ ~tableClosed
    /\ LET i == sess[Get(e)].data
       IN  /\ SendBound
           /\ rt' = SendVia(rt, i, 0)
           /\ PeerWriterPump(i, Len(rt[i].msgs) + 1)
    /\ peers' = Touch(peers, Get(e))
    /\ UNCHANGED <<epoch, drawn, sess, tableClosed, reader, answered, faults, late, mixed, upper, lost, clientVars>>

\* sweepPeers collects a session whose client has moved to another epoch: the
\* idle time is longer than frames live and than planes take to restart.
Sweep ==
    \E k \in DOMAIN peers :
        LET s == peers[k]
        IN  /\ ~Held(sess[s].epoch)
            /\ \A w \in Readers : reader[w].src # sess[s].epoch
            /\ \A c \in Clients, g \in Goroutines : go[c][g].pc \in {"idle", "hello", "welcome"}
            /\ peers' = RemoveAt(peers, k)
            /\ rt' = Shut(rt, RuntimesOf(s))
            /\ sess' = ClosedSession(sess, s)
            /\ lost' = lost \cup {sess[s].epoch}
            /\ room' = {f \in room : f.src # sess[s].epoch}
    /\ UNCHANGED <<epoch, drawn, tableClosed, reader, answered, faults, late, mixed, upper, clientVars>>

\* The server's provider reconnects: restartPlanes draws a new epoch, and the
\* peer sessions keep their headers.
ServerReconnects ==
    /\ Fault /\ drawn < scene.epochs /\ ~tableClosed
    /\ drawn' = drawn + 1
    /\ epoch' = [epoch EXCEPT ![Server] = drawn + 1]
    /\ room' = {f \in room : f.dst # epoch[Server]}
    /\ UNCHANGED <<rt, late, mixed, clientVars, serverVars>>

\* The server closes: closeAll.
ServerCloses ==
    /\ Fault /\ ~tableClosed
    /\ tableClosed' = TRUE
    /\ rt' = Shut(rt, UNION {RuntimesOf(peers[k]) : k \in DOMAIN peers})
    /\ sess' = [s \in DOMAIN sess |->
                   IF \E k \in DOMAIN peers : peers[k] = s
                   THEN [sess[s] EXCEPT !.control = None, !.closed = TRUE] ELSE sess[s]]
    /\ peers' = <<>>
    /\ lost' = lost \cup {sess[peers[k]].epoch : k \in DOMAIN peers}
    /\ UNCHANGED <<epoch, drawn, room, reader, answered, late, mixed, upper, clientVars>>

\* The packets of runtime i that this server has received.
Taken(i) == Cardinality({pkt \in Range(upper[rt[i].plane][rt[i].src]) : pkt[1] = i})

\* The server's process dies and starts again; what it had received stays
\* acknowledged, and the room holds nothing of the time before.
ServerRestarts ==
    /\ Fault /\ drawn < scene.epochs /\ ~tableClosed
    /\ drawn' = drawn + 1
    /\ epoch' = [epoch EXCEPT ![Server] = drawn + 1]
    /\ rt' = [i \in DOMAIN rt |->
                IF i[1] = Server THEN [rt[i] EXCEPT !.open = FALSE]
                ELSE [rt[i] EXCEPT !.acked = Max({@, Taken(i)})]]
    /\ room' = {} /\ peers' = <<>>
    /\ reader' = Reading
    /\ answered' = [e \in Epochs |-> 0]
    /\ upper' = [p \in Planes |-> [e \in Epochs |-> <<>>]]
    /\ UNCHANGED <<sess, tableClosed, late, mixed, lost, clientVars>>

------------------------------------------------------------------------------
Restart(c, g) ==
    \/ RotateEpochHeader(c, g) \/ RestartData(c, g) \/ ControlEpochHeader(c, g) \/ RestartControl(c, g)

Next ==
    \/ \E c \in Clients :
        \/ \E g \in Goroutines : Restart(c, g)
        \/ ProviderReconnected(c) \/ ProviderLocks(c) \/ LinkDies(c) \/ ContinueReconnect(c)
        \/ SendHello(c) \/ ConfirmPeer(c) \/ HandshakeFails(c)
        \/ Send(c) \/ Flush(c) \/ LateWriteTo(c) \/ DrainData(c) \/ ForceKeepalive(c) \/ DrainControl(c) \/ Close(c)
        \/ HandleClientFrame(c) \/ MaybePeerRestart(c)
    \/ \E w \in Readers : TakeFrame(w) \/ PeerSessionFor(w) \/ DeliverData(w) \/ PeerControlFor(w)
    \/ \E e \in AllEpochs : Welcome(e) \/ SendTo(e)
    \/ Sweep \/ ServerReconnects \/ ServerCloses \/ ServerRestarts

Spec == Init /\ [][Next]_vars

------------------------------------------------------------------------------
TypeOK ==
    /\ drawn \in Epochs /\ epoch \in [Nodes -> Epochs \cup {0}]
    /\ confirmed \in [Clients -> BOOLEAN] /\ peerEpoch \in [Clients -> Epochs \cup {0}]
    /\ plane \in [Clients -> [Planes -> DOMAIN rt \cup {None}]]
    /\ \A k \in DOMAIN peers : peers[k] \in DOMAIN sess
    /\ mu \in [Clients -> Goroutines \cup {"free"}]

\* The table of peers stays within its capacity, holds each epoch once and no
\* session that was closed, although add, evict, sweep and close race.
TableIsSound ==
    /\ TypeOK
    /\ Len(peers) <= maxPeers /\ IsInjective(peers)
    /\ \A k \in DOMAIN peers : ~sess[peers[k]].closed
    /\ \A j, k \in DOMAIN peers : sess[peers[j]].epoch = sess[peers[k]].epoch => j = k

\* What comes out of a KCP session is one session of the other side from its
\* first packet on, although all sessions share a conversation id and the room
\* shows everybody everything (AcceptsDst, the filter of control frames, the
\* confirmed epoch, createMu).  For data this is about the epochs that have
\* shaken hands.  Excepted are epochs whose session the table has dropped, and
\* epochs under whose header a batch carried late packets of a closed session.
Pure(s) == \A k \in DOMAIN s : s[k] = <<s[1][1], k>>
OneStream ==
    /\ \A i \in DOMAIN rt : i[1] # Server => rt[i].src \in lost \/ Pure(rt[i].got)
    /\ \A e \in Epochs \ lost :
        /\ Pure(upper["control"][e])
        /\ answered[e] > 0 /\ e \notin mixed => Pure(upper["data"][e])

\* When nobody restarts the planes, both run under the client's epoch: restarts
\* that overlap (the provider's callback takes no lock) never leave headers of
\* different epochs behind, on which no answer of the server would be accepted.
\* With a session installed, data is addressed to the confirmed server.
AtRest(c) == mu[c] = "free" /\ ~closed[c] /\ \A g \in Goroutines : At(c, g, "idle")
PlanesAgree ==
    \A c \in Clients : AtRest(c) =>
        /\ \A p \in Planes : rt[plane[c][p]].open /\ rt[plane[c][p]].src = epoch[c]
        /\ loop[c] => confirmed[c] /\ rt[plane[c]["data"]].dst = peerEpoch[c]

\* No KCP session is left running without an owner: it is installed in a plane
\* of an open transport or belongs to a session of the table.  The exception is
\* a control session that peerControlFor starts for a peer closed meanwhile.
Owned(i) ==
    \/ \E c \in Clients : ~closed[c] /\ \E p \in Planes : plane[c][p] = i
    \/ \E k \in DOMAIN peers : i \in RuntimesOf(peers[k])
Overtaken(i) == \E s \in DOMAIN sess : sess[s].closed /\ sess[s].control = i
NoStrandedRuntime == \A i \in DOMAIN rt : rt[i].open => Owned(i) \/ Overtaken(i)
==============================================================================
