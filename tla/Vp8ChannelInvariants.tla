------------------------ MODULE Vp8ChannelInvariants ------------------------
(***************************************************************************)
(* The invariants that Vp8ChannelProofs proves of Vp8Channel, and names    *)
(* for what a step does to their parts. They come in layers, each of which *)
(* rests on the ones before it:                                            *)
(*   Inv       the peer table, the planes, the owners of KCP sessions;     *)
(*   Ground    whose every epoch, frame, queued packet and address is;     *)
(*   HeardInv  the server answers under an epoch only once a hello was     *)
(*             sent under it;                                              *)
(*   Streams   one control session says hello under an epoch, and from     *)
(*             then on one data session uses that epoch;                   *)
(*   Table     the server has one session for an epoch that is not lost,   *)
(*             and its upper layer has what that session has received.     *)
(***************************************************************************)
EXTENDS Vp8Channel

\* The runtimes of a node are numbered from 1 on, so that Fresh names a new one.
NamesInv == \A n \in Nodes : \E k \in Nat : {i \in DOMAIN rt : i[1] = n} = {<<n, j>> : j \in 1 .. k}

------------------------------------------------------------------------------
(* The inductive invariant.                                                 *)

Ids == Nodes \X (Nat \ {0})

SentBy(rts) == {x \in (DOMAIN rts) \X Nat : x[2] \in 1 .. Len(rts[x[1]].msgs)}

RuntimeType(E, P) ==
    [plane : Planes, src : E \ {0}, dst : E, msgs : Seq(E), acked : Nat, got : Seq(P), open : BOOLEAN]

FrameType(E, P) == [plane : Planes, src : E, dst : E, pkts : Seq(P)]

Stamped(E, P) == [src : E, dst : E, pkt : P]

ReaderType(E, P) ==
    [pc : {"idle", "ended", "create", "data", "control"}, plane : Planes, src : E, pkts : Seq(P), sess : Nat]

SessionType(E) == [epoch : E, data : Ids, control : Ids \cup {None}, closed : BOOLEAN]

PCs == {"idle", "restart", "rotated", "data", "header", "restarted", "hello", "welcome"}

E0 == 0 .. scene.epochs

\* Who is in the room has an epoch.
EpochMap == {f \in [Nodes -> E0] : \A n \in scene.clients \cup {Server} : f[n] # 0}

\* Runtimes have their types, and what a session has received was sent.
RuntimesOK(rts, E) ==
    /\ rts = [i \in DOMAIN rts |-> rts[i]]
    /\ \A i \in DOMAIN rts : i \in Ids /\ rts[i] \in RuntimeType(E, SentBy(rts))

RoomTypes ==
    /\ scene \in Scenes
    /\ drawn \in Epochs /\ epoch \in EpochMap
    /\ RuntimesOK(rt, E0)
    /\ room \subseteq FrameType(E0, SentBy(rt))

ClientTypes ==
    /\ confirmed \in [Clients -> BOOLEAN] /\ closed \in [Clients -> BOOLEAN]
    /\ loop \in [Clients -> BOOLEAN]
    /\ peerEpoch \in [Clients -> E0]
    /\ plane \in [Clients -> [Planes -> Ids \cup {None}]]
    /\ out \in [Clients -> Seq(Stamped(E0, SentBy(rt)))]
    /\ go \in [Clients -> [Goroutines -> [pc : PCs, hdr : Nat]]]
    /\ mu \in [Clients -> Goroutines \cup {"free"}]

ServerTypes ==
    /\ sess \in Seq(SessionType(E0))
    /\ peers \in Seq(DOMAIN sess)
    /\ tableClosed \in BOOLEAN
    /\ reader \in [Readers -> ReaderType(E0, SentBy(rt))]
    /\ upper \in [Planes -> [Epochs -> Seq(SentBy(rt))]]

\* The runtimes of a session are the server's.
SessionInv ==
    \A s \in DOMAIN sess :
        /\ sess[s].data \in DOMAIN rt /\ sess[s].data[1] = Server
        /\ sess[s].control # None => sess[s].control \in DOMAIN rt /\ sess[s].control[1] = Server

TableInv ==
    /\ Len(peers) <= maxPeers
    /\ \A k \in DOMAIN peers : ~sess[peers[k]].closed
    /\ \A j, k \in DOMAIN peers : sess[peers[j]].epoch = sess[peers[k]].epoch => j = k

\* A reader holds a session of the table or one that was closed meanwhile.
InTable(s) == \E k \in DOMAIN peers : peers[k] = s

ReaderInv ==
    \A w \in Readers : reader[w].pc \in {"data", "control"} =>
        /\ reader[w].sess \in DOMAIN sess
        /\ sess[reader[w].sess].closed \/ InTable(reader[w].sess)

\* The planes of a client hold its own runtimes, which run until it closes.
PlaneInv(c) ==
    /\ c \in scene.clients => \A p \in Planes :
        /\ plane[c][p] \in DOMAIN rt /\ plane[c][p][1] = c /\ rt[plane[c][p]].plane = p
        /\ ~closed[c] => rt[plane[c][p]].open
    /\ c \notin scene.clients =>
        /\ closed[c] /\ mu[c] = "free" /\ ~loop[c] /\ \A g \in Goroutines : go[c][g].pc = "idle"
        /\ \A p \in Planes : plane[c][p] = None

\* Who is in the middle of what: the session's goroutine moves only under
\* reconnectMu, the provider's restarts once without it.
MuInv(c) ==
    /\ mu[c] = "session" <=> go[c]["session"].pc # "idle"
    /\ mu[c] = "provider" => go[c]["provider"].pc # "idle"
    /\ go[c]["provider"].pc \in {"hello", "welcome"} => mu[c] = "provider"
    /\ mu[c] # "free" => ~loop[c]
    /\ \A g \in Goroutines : go[c][g].pc \in {"rotated", "header"} => go[c][g].hdr \in E0 \ {0}

\* No restart without the lock is under way.
Alone(c) == go[c]["provider"].pc = "idle" \/ mu[c] = "provider"

\* How far the headers agree with the epoch, at each point of a restart.
AgreeInv(c) ==
    ~closed[c] /\ Alone(c) =>
        /\ mu[c] = "free" => \A p \in Planes : rt[plane[c][p]].src = epoch[c]
        /\ \A g \in Goroutines : mu[c] = g =>
            /\ go[c][g].pc \in {"rotated", "header"} => go[c][g].hdr = epoch[c]
            /\ go[c][g].pc \notin {"restart", "rotated"} => rt[plane[c]["data"]].src = epoch[c]
            /\ go[c][g].pc \in {"restarted", "hello", "welcome"} => rt[plane[c]["control"]].src = epoch[c]
        /\ loop[c] => confirmed[c] /\ rt[plane[c]["data"]].dst = peerEpoch[c]

ClientInv == \A c \in Clients : PlaneInv(c) /\ MuInv(c) /\ AgreeInv(c)

Inv ==
    /\ RoomTypes /\ NamesInv /\ ClientTypes /\ ServerTypes
    /\ SessionInv /\ TableInv /\ ReaderInv /\ ClientInv /\ NoStrandedRuntime

------------------------------------------------------------------------------
(* What the operators do to the runtimes.                                   *)

\* Runtimes are never forgotten, what they sent stays sent, and a closed one
\* is not opened again.
Grows(rts, new) ==
    /\ DOMAIN rts \subseteq DOMAIN new
    /\ \A i \in DOMAIN rts :
        /\ new[i].plane = rts[i].plane
        /\ Len(rts[i].msgs) <= Len(new[i].msgs)
        /\ new[i].open => rts[i].open

\* A session of rts takes packets.
Fed(rts, d, pkts) == [rts EXCEPT ![d] = Input(rts[d], pkts)]

------------------------------------------------------------------------------
(* What a step leaves alone.                                                *)

\* The runtimes of n keep their headers and stay open.
Untouched(n) ==
    \A i \in DOMAIN rt : i[1] = n =>
        /\ i \in DOMAIN rt'
        /\ rt'[i].src = rt[i].src /\ rt'[i].dst = rt[i].dst
        /\ rt'[i].plane = rt[i].plane /\ rt'[i].open = rt[i].open

------------------------------------------------------------------------------
(* The steps of a client.                                                   *)

\* Everything of the clients other than c is as before.
Elsewhere(c) ==
    \A d \in Clients : d # c =>
        /\ closed'[d] = closed[d] /\ loop'[d] = loop[d] /\ confirmed'[d] = confirmed[d]
        /\ peerEpoch'[d] = peerEpoch[d] /\ plane'[d] = plane[d] /\ go'[d] = go[d] /\ mu'[d] = mu[d]
        /\ epoch'[d] = epoch[d]

\* kcpPlane.restart on an open transport replaces the runtime of one plane.
Replaced(c, p, src) ==
    /\ plane' \in [Clients -> [Planes -> Ids \cup {None}]]
    /\ plane'[c][p] \in DOMAIN rt' /\ plane'[c][p] \notin DOMAIN rt /\ plane'[c][p][1] = c
    /\ \A q \in Planes : q # p => plane'[c][q] = plane[c][q]
    /\ \A d \in Clients : d # c => plane'[d] = plane[d]
    /\ LET r == rt'[plane'[c][p]]
       IN  /\ r.src = src /\ r.dst = 0 /\ r.plane = p /\ r.open = TRUE /\ r.got = <<>> /\ r.msgs = <<>>
    /\ DOMAIN rt' = DOMAIN rt \cup {plane'[c][p]}
    /\ \A i \in DOMAIN rt :
        /\ rt'[i].src = rt[i].src /\ rt'[i].dst = rt[i].dst /\ rt'[i].plane = rt[i].plane
        /\ rt'[i].msgs = rt[i].msgs /\ rt'[i].got = rt[i].got
        /\ rt'[i].open <=> rt[i].open /\ i # plane[c][p]

------------------------------------------------------------------------------
(* The peer table.                                                          *)

\* new holds entries of old, each at most once.
PartOf(new, old) ==
    \E m \in [1 .. Len(new) -> 1 .. Len(old)] :
        /\ \A j \in 1 .. Len(new) : new[j] = old[m[j]]
        /\ \A i, j \in 1 .. Len(new) : m[i] = m[j] => i = j

\* new holds every entry of old.
Keeps(new, old) == \A k \in 1 .. Len(old) : \E j \in 1 .. Len(new) : new[j] = old[k]

------------------------------------------------------------------------------
(* The steps of the server.                                                 *)

\* The table is as before, or an entry has been touched.
Refreshed == peers' = peers \/ \E s \in DOMAIN sess : InTable(s) /\ peers' = Touch(peers, s)

\* A runtime of the server is started, after some have been shut.
Launched(ids, p, dst) ==
    /\ DOMAIN rt' = DOMAIN rt \cup {Fresh(Server)} /\ Fresh(Server) \notin DOMAIN rt
    /\ Fresh(Server) \in Ids /\ Fresh(Server)[1] = Server
    /\ rt'[Fresh(Server)] = Runtime(p, epoch[Server], dst)
    /\ \A i \in DOMAIN rt :
        /\ rt'[i].src = rt[i].src /\ rt'[i].dst = rt[i].dst /\ rt'[i].plane = rt[i].plane
        /\ rt'[i].msgs = rt[i].msgs /\ rt'[i].got = rt[i].got
        /\ rt'[i].open <=> rt[i].open /\ i \notin ids

\* Sessions leave the table: rest is left of it, kept of the sessions, and the
\* runtimes of those that left are gone.
Cut(rest, kept, gone) ==
    /\ rest \in Seq(DOMAIN sess) /\ Len(rest) <= Len(peers)
    /\ \A i \in DOMAIN rest : kept[rest[i]] = sess[rest[i]] /\ ~sess[rest[i]].closed
    /\ \A i, j \in DOMAIN rest : sess[rest[i]].epoch = sess[rest[j]].epoch => i = j
    /\ \A i \in DOMAIN rest : InTable(rest[i])
    /\ \A k \in DOMAIN peers :
        \/ \E i \in DOMAIN rest : rest[i] = peers[k]
        \/ kept[peers[k]].closed /\ RuntimesOf(peers[k]) \subseteq gone
    /\ kept \in Seq(SessionType(E0)) /\ Len(kept) = Len(sess)
    /\ \A s \in DOMAIN sess :
        /\ kept[s].data = sess[s].data /\ kept[s].control \in {sess[s].control, None}
        /\ sess[s].closed => kept[s] = sess[s]
    /\ \A i \in gone : i \in DOMAIN rt /\ i[1] = Server

------------------------------------------------------------------------------
(* What a step does to the traffic of the runtimes.                         *)

SameTraffic(i) ==
    /\ rt'[i].plane = rt[i].plane /\ rt'[i].src = rt[i].src /\ rt'[i].dst = rt[i].dst
    /\ rt'[i].msgs = rt[i].msgs /\ rt'[i].got = rt[i].got

NoTraffic == DOMAIN rt' = DOMAIN rt /\ \A i \in DOMAIN rt : SameTraffic(i)

\* The runtime d is started, d sends x, d takes packets of a frame, and d gets
\* another header.
Begins(d, p, src, dst) ==
    /\ d \notin DOMAIN rt /\ DOMAIN rt' = DOMAIN rt \cup {d} /\ \A i \in DOMAIN rt : SameTraffic(i)
    /\ rt'[d].plane = p /\ rt'[d].src = src /\ rt'[d].dst = dst /\ rt'[d].msgs = <<>> /\ rt'[d].got = <<>>

Sends(d, x) ==
    /\ d \in DOMAIN rt /\ DOMAIN rt' = DOMAIN rt /\ \A i \in DOMAIN rt : i # d => SameTraffic(i)
    /\ rt'[d].plane = rt[d].plane /\ rt'[d].src = rt[d].src /\ rt'[d].dst = rt[d].dst /\ rt'[d].got = rt[d].got
    /\ rt'[d].msgs = Append(rt[d].msgs, x)

Takes(d, pkts) ==
    /\ d \in DOMAIN rt /\ DOMAIN rt' = DOMAIN rt /\ \A i \in DOMAIN rt : i # d => SameTraffic(i)
    /\ rt'[d].plane = rt[d].plane /\ rt'[d].src = rt[d].src /\ rt'[d].dst = rt[d].dst /\ rt'[d].msgs = rt[d].msgs
    /\ \A n \in DOMAIN rt'[d].got :
        \/ n \in DOMAIN rt[d].got /\ rt'[d].got[n] = rt[d].got[n]
        \/ rt'[d].got[n][2] = n /\ \E k \in DOMAIN pkts : rt'[d].got[n] = pkts[k]

Binds(d, src, dst) ==
    /\ d \in DOMAIN rt /\ DOMAIN rt' = DOMAIN rt /\ \A i \in DOMAIN rt : i # d => SameTraffic(i)
    /\ rt'[d].plane = rt[d].plane /\ rt'[d].src = src /\ rt'[d].dst = dst
    /\ rt'[d].msgs = rt[d].msgs /\ rt'[d].got = rt[d].got

------------------------------------------------------------------------------
(* Whose epoch is whose.                                                    *)

\* The epochs the server has used, and those of client c.
ServerKnows(e) ==
    \/ epoch[Server] = e
    \/ \E i \in DOMAIN rt : i[1] = Server /\ rt[i].src = e
    \/ \E i \in DOMAIN rt : i[1] = Server /\ rt[i].plane = "control" /\ \E n \in DOMAIN rt[i].msgs : rt[i].msgs[n] = e
    \/ \E c \in Clients : confirmed[c] /\ peerEpoch[c] = e

ClientKnows(c, e) ==
    \/ epoch[c] = e
    \/ \E g \in Goroutines : go[c][g].pc \in {"rotated", "header"} /\ go[c][g].hdr = e
    \/ \E i \in DOMAIN rt : i[1] = c /\ rt[i].src = e
    \/ \E k \in DOMAIN out[c] : out[c][k].src = e

\* An epoch in use has been drawn, and by one node only.
KnownInv ==
    /\ \A e : ServerKnows(e) => e \in 1 .. drawn
    /\ \A c \in scene.clients : \A e : ClientKnows(c, e) =>
         /\ e \in 1 .. drawn /\ ~ServerKnows(e)
         /\ \A d \in scene.clients : ClientKnows(d, e) => d = c

\* What a step may add to the knowledge of the server, and of the clients.
RuntimesLearn ==
    /\ \A i \in DOMAIN rt' : i[1] = Server =>
         (i \in DOMAIN rt /\ rt'[i].src = rt[i].src) \/ rt'[i].src = epoch[Server]
    /\ \A i \in DOMAIN rt' : i[1] = Server /\ rt'[i].plane = "control" => \A n \in DOMAIN rt'[i].msgs :
         \/ /\ i \in DOMAIN rt /\ rt[i].plane = "control" 
            /\ n \in DOMAIN rt[i].msgs /\ rt'[i].msgs[n] = rt[i].msgs[n]
         \/ rt'[i].msgs[n] = epoch[Server]
    /\ \A i \in DOMAIN rt' : i[1] # Server =>
         (i \in DOMAIN rt /\ rt'[i].src = rt[i].src) \/ ClientKnows(i[1], rt'[i].src)

ClientsLearn ==
    /\ \A c \in Clients : confirmed'[c] =>
         (confirmed[c] /\ peerEpoch'[c] = peerEpoch[c]) \/ ServerKnows(peerEpoch'[c])
    /\ \A c \in Clients, g \in Goroutines : go'[c][g].pc \in {"rotated", "header"} => ClientKnows(c, go'[c][g].hdr)
    /\ \A c \in Clients : \A k \in DOMAIN out'[c] : ClientKnows(c, out'[c][k].src)

\* Nobody learns an epoch of before that was not its own.
NoNews ==
    /\ \A e : e # drawn + 1 \/ drawn' = drawn => (ServerKnows(e)' => ServerKnows(e))
    /\ \A c \in Clients : \A e : e # drawn + 1 \/ drawn' = drawn => (ClientKnows(c, e)' => ClientKnows(c, e))

------------------------------------------------------------------------------
(* Whose packets are where.                                                 *)

\* A frame carries packets of its plane: those of the server under the header of
\* their runtime, those of a client never under an epoch of the server's.
PacketOK(f, i) ==
    /\ rt[i].plane = f.plane
    /\ i[1] = Server => rt[i].src = f.src /\ rt[i].dst = f.dst
    /\ i[1] # Server => ~ServerKnows(f.src)
    /\ i[1] # Server /\ f.plane = "control" => rt[i].src = f.src /\ f.dst = 0

FrameOK(f) ==
    /\ f.src \in 1 .. drawn
    /\ \A k \in DOMAIN f.pkts : PacketOK(f, f.pkts[k][1])

FrameInv == \A f \in room : FrameOK(f)

\* A client queues packets of its own data runtimes.
OutInv == \A c \in Clients : \A k \in DOMAIN out[c] : out[c][k].pkt[1][1] = c /\ rt[out[c][k].pkt[1]].plane = "data"

\* A packet that a client has sent on plane p, under its control epoch e.
FromClient(pkt, p, e) == pkt[1][1] # Server /\ rt[pkt[1]].plane = p /\ (p = "control" => rt[pkt[1]].src = e)

HoldsOK(r) ==
    /\ \A k \in DOMAIN r.pkts : FromClient(r.pkts[k], r.plane, r.src)
    /\ r.src \in 0 .. drawn /\ r.src # epoch[Server]
    /\ r.pc \in {"create", "data", "control"} => r.src # 0
    /\ r.pc \in {"data", "control"} => r.plane = r.pc

HeldFor(r) == r.pc \in {"data", "control"} => sess[r.sess].epoch = r.src

HoldInv == \A w \in Readers : HoldsOK(reader[w]) /\ HeldFor(reader[w])

\* The runtimes of a session are addressed to its epoch.
SessOK(s) ==
    /\ rt[sess[s].data].plane = "data" /\ rt[sess[s].data].dst = sess[s].epoch
    /\ sess[s].control # None => rt[sess[s].control].plane = "control" /\ rt[sess[s].control].dst = sess[s].epoch
    /\ sess[s].epoch \in 1 .. drawn /\ sess[s].epoch # epoch[Server]

AddressInv == \A s \in DOMAIN sess : SessOK(s)

\* The server's runtimes get packets of clients, the clients' those of the server.
ServerRtOK(j) ==
    /\ rt[j].dst \in 1 .. drawn /\ rt[j].dst # epoch[Server]
    /\ \A n \in DOMAIN rt[j].got : FromClient(rt[j].got[n], rt[j].plane, rt[j].dst)

ClientRtOK(i) ==
    /\ rt[i].plane = "control" => rt[i].dst = 0
    /\ \A n \in DOMAIN rt[i].got : rt[i].got[n][1][1] = Server /\ rt[rt[i].got[n][1]].plane = rt[i].plane

Numbered(i) == \A n \in DOMAIN rt[i].got : rt[i].got[n][2] = n

OriginInv == \A i \in DOMAIN rt : Numbered(i) /\ IF i[1] = Server THEN ServerRtOK(i) ELSE ClientRtOK(i)

Ground == KnownInv /\ FrameInv /\ OutInv /\ HoldInv /\ AddressInv /\ OriginInv

\* What no step changes: runtimes and sessions stay what they are, the headers of
\* the server's and of the control runtimes too, and a message stays sent.
SteadyRuntime(i) ==
    /\ i \in DOMAIN rt' /\ rt'[i].plane = rt[i].plane
    /\ i[1] = Server \/ rt[i].plane = "control" => rt'[i].src = rt[i].src /\ rt'[i].dst = rt[i].dst
    /\ rt[i].msgs # <<>> => rt'[i].msgs # <<>>

Steady ==
    /\ scene' = scene /\ drawn \in Nat /\ drawn' \in Nat /\ drawn <= drawn'
    /\ epoch'[Server] = epoch[Server] \/ epoch'[Server] = drawn + 1
    /\ \A i \in DOMAIN rt : SteadyRuntime(i)

\* A frame, a queued packet, a reader, a session and a runtime after a step: as
\* before, or made in one of the ways that keep packets apart.
FrameStep(f) == f \in room \/ (FrameOK(f) /\ \A k \in DOMAIN f.pkts : f.pkts[k][1] \in DOMAIN rt)

OutStep(c, k) ==
    \/ \E j \in DOMAIN out[c] : out'[c][k] = out[c][j]
    \/ LET i == out'[c][k].pkt[1]
       IN  i \in DOMAIN rt /\ i[1] = c /\ rt[i].plane = "data" /\ out'[c][k].src = rt[i].src

HoldStep(w) ==
    \/ reader'[w] = reader[w]
    \/ HoldsOK(reader'[w]) /\ \A k \in DOMAIN reader'[w].pkts : reader'[w].pkts[k][1] \in DOMAIN rt

AddressStep(s) ==
    /\ \/ s \in DOMAIN sess /\ sess'[s].data = sess[s].data /\ sess'[s].epoch = sess[s].epoch
       \/ /\ rt'[sess'[s].data].plane = "data" /\ rt'[sess'[s].data].dst = sess'[s].epoch
          /\ sess'[s].epoch \in 1 .. drawn /\ sess'[s].epoch # epoch[Server]
    /\ \/ s \in DOMAIN sess /\ sess'[s].control = sess[s].control /\ sess'[s].epoch = sess[s].epoch
       \/ sess'[s].control = None
       \/ rt'[sess'[s].control].plane = "control" /\ rt'[sess'[s].control].dst = sess'[s].epoch

OriginStep(i) ==
    /\ i[1] = Server => (i \in DOMAIN rt \/ (rt'[i].dst \in 1 .. drawn /\ rt'[i].dst # epoch[Server]))
    /\ i[1] # Server /\ rt'[i].plane = "control" => (i \in DOMAIN rt \/ rt'[i].dst = 0)
    /\ \A n \in DOMAIN rt'[i].got :
        \/ i \in DOMAIN rt /\ n \in DOMAIN rt[i].got /\ rt'[i].got[n] = rt[i].got[n]
        \/ /\ rt'[i].got[n][2] = n /\ rt'[i].got[n][1] \in DOMAIN rt
           /\ IF i[1] = Server THEN FromClient(rt'[i].got[n], rt'[i].plane, rt'[i].dst)
              ELSE rt'[i].got[n][1][1] = Server /\ rt[rt'[i].got[n][1]].plane = rt'[i].plane

\* Each kind of traffic keeps the runtimes steady and packets apart.
Regular ==
    /\ \A i \in DOMAIN rt : SteadyRuntime(i)
    /\ \A i \in DOMAIN rt' : OriginStep(i)
    /\ RuntimesLearn

\* Of a goroutine: it has not moved, or it has no header in hand, or its epoch.
GoStep(c) == \A g \in Goroutines :
    go'[c][g] = go[c][g] \/ go'[c][g].pc \notin {"rotated", "header"} \/ go'[c][g].hdr = epoch[c]

GroundKept == Ground' /\ Steady /\ NoNews

\* A goroutine of c moves, and nobody else's.
Moved(c, g) ==
    /\ \A h \in Goroutines : h # g => go'[c][h] = go[c][h]
    /\ \A d \in Clients : d # c => go'[d] = go[d]

\* A packet of a data runtime of c joins the queue of c.
Queues(c, i, sn) ==
    /\ i \in DOMAIN rt /\ i[1] = c /\ rt[i].plane = "data" /\ sn \in 1 .. Len(rt[i].msgs)
    /\ \A d \in Clients : d # c => out'[d] = out[d]
    /\ \A k \in DOMAIN out'[c] : (k \in DOMAIN out[c] /\ out'[c][k] = out[c][k]) \/ out'[c][k] = Queued(c, i, sn)

\* drainData writes the frame f with the first n packets of the queue.
Drains(c, f, n) ==
    /\ n \in 1 .. Len(out[c]) /\ 1 \in DOMAIN out[c] /\ room' = room \cup {f}
    /\ f.plane = "data" /\ f.src = out[c][1].src /\ f.dst = out[c][1].dst
    /\ f.pkts \in Seq(SentBy(rt)) /\ DOMAIN f.pkts = 1 .. n
    /\ \A k \in 1 .. n : k \in DOMAIN out[c] /\ f.pkts[k] = out[c][k].pkt
    /\ \A d \in Clients : d # c => out'[d] = out[d]
    /\ \A k \in DOMAIN out'[c] : \E j \in DOMAIN out[c] : out'[c][k] = out[c][j]
    /\ mixed' = IF \E k \in 1 .. n : out[c][k].src # out[c][1].src THEN mixed \cup {f.src} ELSE mixed

------------------------------------------------------------------------------
(* The sessions that leave the table and join it.                           *)

\* The sessions of D leave the table.
Leaves(D) ==
    /\ \A s \in D : s \in DOMAIN sess /\ InTable(s)
    /\ lost' = lost \cup {sess[s].epoch : s \in D}
    /\ \A s \in DOMAIN sess :
        /\ s \in DOMAIN sess' /\ sess'[s].epoch = sess[s].epoch /\ sess'[s].data = sess[s].data
        /\ s \in D => sess'[s].closed /\ sess'[s].control = None
        /\ s \notin D => sess'[s] = sess[s]

\* The session N joins it, for the epoch e.
Joins(N, e, D) ==
    /\ Leaves(D) /\ N \notin DOMAIN sess /\ DOMAIN sess' = DOMAIN sess \cup {N}
    /\ sess'[N].epoch = e /\ sess'[N].data = Fresh(Server) /\ sess'[N].control = None /\ ~sess'[N].closed
    /\ \A s : InTable(s)' <=> (InTable(s) /\ s \notin D) \/ s = N
    /\ Begins(Fresh(Server), "data", epoch[Server], e)

\* A session for e joins what is left of the table when the sessions D leave it.
Entering(e, rest, kept, gone, D) ==
    /\ rest \in Seq(DOMAIN sess) /\ kept \in Seq(SessionType(E0)) /\ Len(kept) = Len(sess)
    /\ \A i \in gone : i[1] = Server
    /\ \A s \in D : s \in DOMAIN sess /\ InTable(s)
    /\ lost' = lost \cup {sess[s].epoch : s \in D}
    /\ \A s \in DOMAIN sess :
          /\ kept[s].epoch = sess[s].epoch /\ kept[s].data = sess[s].data
          /\ s \in D => kept[s].closed /\ kept[s].control = None
          /\ s \notin D => kept[s] = sess[s]
    /\ \A s : (\E j \in DOMAIN rest : rest[j] = s) <=> (InTable(s) /\ s \notin D)
    /\ rt' = Started(Shut(rt, gone), Fresh(Server), Runtime("data", epoch[Server], e))
    /\ sess' = Append(kept, [epoch |-> e, data |-> Fresh(Server), control |-> None, closed |-> FALSE])
    /\ peers' = Append(rest, Len(sess) + 1)

\* The server's runtime i takes packets, and the upper layer gets what is new.
Delivers(i, e, p, pkts) ==
    /\ Takes(i, pkts)
    /\ upper[p][e] = rt[i].got => upper'[p][e] = rt'[i].got
    /\ \A n \in DOMAIN upper'[p][e] :
        \/ n \in DOMAIN upper[p][e] /\ upper'[p][e][n] = upper[p][e][n]
        \/ \E k \in DOMAIN pkts : upper'[p][e][n] = pkts[k]
    /\ \A q \in Planes, x \in Epochs : (q # p \/ x # e) => upper'[q][x] = upper[q][x]

\* The session s gets a control runtime of its own.
Opens(s) ==
    /\ sess[s].control = None /\ Begins(Fresh(Server), "control", epoch[Server], sess[s].epoch)
    /\ DOMAIN sess' = DOMAIN sess /\ \A t \in DOMAIN sess : t # s => sess'[t] = sess[t]
    /\ sess'[s].epoch = sess[s].epoch /\ sess'[s].data = sess[s].data /\ sess'[s].closed = sess[s].closed
    /\ sess'[s].control = Fresh(Server) /\ Fresh(Server) # None /\ Fresh(Server)[1] = Server

\* A session of the table sends x to its peer, in the frame f.
Answers(e, i, x, f) ==
    /\ i \in DOMAIN rt /\ i[1] = Server /\ rt[i].dst = e /\ Sends(i, x) /\ room' = room \cup {f}
    /\ f.plane = rt[i].plane /\ f.src = rt[i].src /\ f.dst = e /\ DOMAIN f.pkts = {1} /\ f.pkts[1][1] = i
    /\ \A s : InTable(s)' <=> InTable(s)

------------------------------------------------------------------------------
(* The data sessions that an epoch stands for.                              *)

\* A client's hello was sent under e, and no hello was.
Speaks(i, e) == i \in DOMAIN rt /\ i[1] # Server /\ rt[i].plane = "control" /\ rt[i].src = e /\ rt[i].msgs # <<>>

Silent(e) == \A i : ~Speaks(i, e)

\* The data runtime i of a client has the header e, or packets of it are on
\* their way under e: in a queue, the room, a reader or a session of the server.
Headed(i, e) == i \in DOMAIN rt /\ i[1] # Server /\ rt[i].plane = "data" /\ rt[i].src = e

InQueue(i, e) == \E c \in Clients : \E k \in DOMAIN out[c] : out[c][k].src = e /\ out[c][k].pkt[1] = i

InFrame(i, e) ==
    \E f \in room : f.plane = "data" /\ f.src = e /\ i[1] # Server /\ \E k \in DOMAIN f.pkts : f.pkts[k][1] = i

InReader(i, e) == \E w \in Readers :
    reader[w].plane = "data" /\ reader[w].src = e /\ \E k \in DOMAIN reader[w].pkts : reader[w].pkts[k][1] = i

InSession(i, e) == \E j \in DOMAIN rt :
    j[1] = Server /\ rt[j].plane = "data" /\ rt[j].dst = e /\ \E k \in DOMAIN rt[j].got : rt[j].got[k][1] = i

Uses(i, e) ==
    \/ Headed(i, e)
    \/ InQueue(i, e)
    \/ e \notin mixed /\ (InFrame(i, e) \/ InReader(i, e) \/ InSession(i, e))

\* At most one data runtime uses e, or none.
Sole(e) == \A i, j : Uses(i, e) /\ Uses(j, e) => i = j

Clean(e) == \A i : ~Uses(i, e)

\* A step that carries packets on, and puts none under another epoch.
FrameUse(f) == f.plane = "data" => \A k \in DOMAIN f.pkts :
    LET i == f.pkts[k][1] IN i[1] = Server \/ InFrame(i, f.src) \/ f.src \in mixed' \/ InQueue(i, f.src)

ReaderUse(w) == reader'[w].plane = "data" => \A k \in DOMAIN reader'[w].pkts :
    LET i == reader'[w].pkts[k][1] IN InFrame(i, reader'[w].src) \/ InReader(i, reader'[w].src)

SessionUse(j) == j[1] = Server /\ rt'[j].plane = "data" => \A k \in DOMAIN rt'[j].got :
    LET i == rt'[j].got[k][1] IN InReader(i, rt'[j].dst) \/ InSession(i, rt'[j].dst)

Carried ==
    /\ mixed \subseteq mixed'
    /\ \A c \in Clients : \A k \in DOMAIN out'[c] : OutStep(c, k)
    /\ \A f \in room' : FrameUse(f)
    /\ \A w \in Readers : ReaderUse(w)
    /\ \A j \in DOMAIN rt' : SessionUse(j)

\* A step that says nothing new under e.
NoHello(e) == \A i : Speaks(i, e)' => Speaks(i, e)

NoHeader(e) == \A i : Headed(i, e)' => Headed(i, e)

Quiet(e) == \A i : (Speaks(i, e)' => Speaks(i, e)) /\ (Uses(i, e)' => Uses(i, e))

\* A step of client c leaves the server and the other clients alone.
Alike(d) ==
    /\ epoch'[d] = epoch[d] /\ confirmed'[d] = confirmed[d] /\ peerEpoch'[d] = peerEpoch[d]
    /\ plane'[d] = plane[d] /\ go'[d] = go[d] /\ mu'[d] = mu[d] /\ closed'[d] = closed[d]

Foreign(n) == \A i \in DOMAIN rt' : i[1] # n => i \in DOMAIN rt /\ SameTraffic(i)

Apart(c) ==
    /\ UNCHANGED serverVars /\ Foreign(c)
    /\ \A d \in Clients : d # c => Alike(d)

\* Steps of c that change no header, stream or binding of it: what the planes
\* and the goroutines of c are stays as it was.
Settled(c) ==
    /\ epoch' = epoch /\ confirmed' = confirmed /\ peerEpoch' = peerEpoch /\ plane' = plane /\ go' = go /\ mu' = mu
    /\ \A d \in Clients : closed[d] => closed'[d]
    /\ \A i \in DOMAIN rt : i \in DOMAIN rt' /\ rt'[i].src = rt[i].src /\ rt'[i].got = rt[i].got
    /\ \A e : NoHello(e) /\ NoHeader(e)

\* A step of the server leaves the clients alone.
Remote ==
    /\ Foreign(Server) /\ UNCHANGED clientVars /\ Carried
    /\ \A c \in Clients : epoch'[c] = epoch[c]
    /\ \A e : NoHello(e) /\ NoHeader(e)

\* The server's sessions have what they had, and new ones have nothing.
SameGot == \A j \in DOMAIN rt' :
    (j \in DOMAIN rt /\ rt'[j].plane = rt[j].plane /\ rt'[j].dst = rt[j].dst /\ rt'[j].got = rt[j].got) \/ rt'[j].got = <<>>

------------------------------------------------------------------------------
(* Who has been heard.                                                      *)

\* The server answers, and hands to its upper layer, what a client has sent on
\* the control plane.
HeardInv ==
    /\ answered \in [Epochs -> Nat]
    /\ \A e \in Epochs : \A n \in DOMAIN upper["control"][e] : FromClient(upper["control"][e][n], "control", e)
    /\ \A e \in Epochs : answered[e] > 0 => ~Silent(e)
    /\ \A j \in DOMAIN rt : j[1] = Server /\ rt[j].plane = "control" /\ rt[j].msgs # <<>> => ~Silent(rt[j].dst)

\* What a step adds to what has been answered, heard and said.
AnsweredStep == answered' \in [Epochs -> Nat] /\ \A e \in Epochs : answered'[e] > 0 => answered[e] > 0 \/ ~Silent(e)

UpperStep == \A e \in Epochs : \A n \in DOMAIN upper'["control"][e] :
    \/ n \in DOMAIN upper["control"][e] /\ upper'["control"][e][n] = upper["control"][e][n]
    \/ FromClient(upper'["control"][e][n], "control", e) /\ upper'["control"][e][n][1] \in DOMAIN rt

SpeechStep == \A j \in DOMAIN rt' : j[1] = Server /\ rt'[j].plane = "control" /\ rt'[j].msgs # <<>> =>
    \/ j \in DOMAIN rt /\ rt[j].plane = "control" /\ rt[j].msgs # <<>> /\ rt'[j].dst = rt[j].dst
    \/ ~Silent(rt'[j].dst)

------------------------------------------------------------------------------
(* The streams of a client.                                                 *)

\* Epochs under which no hello was sent, that one data runtime uses at most, and
\* that none uses.
Mute == {e \in Nat : Silent(e)}

Lone == {e \in Nat : Sole(e)}

Unused == {e \in Nat : Clean(e)}

Pc(c, g) == go[c][g].pc

DataSrc(c) == rt[plane[c]["data"]].src

DataGot(c) == rt[plane[c]["data"]].got

ControlSrc(c) == rt[plane[c]["control"]].src

\* The first handshake of c is under way.
First(c) == Pc(c, "session") \in {"hello", "welcome"}

\* No hello has been sent under an epoch that a plane of c has yet to get, nor
\* under the one a hello is about to be sent under.
SilenceOf(c) ==
    /\ \A g \in Goroutines :
        /\ Pc(c, g) \in {"rotated", "data", "header"} => epoch[c] \in Mute
        /\ Pc(c, g) = "rotated" => go[c][g].hdr \in Mute
    /\ DataSrc(c) # epoch[c] \/ ControlSrc(c) # epoch[c] => epoch[c] \in Mute
    /\ mu[c] = "provider" /\ Pc(c, "provider") \in {"restarted", "hello"} => epoch[c] \in Mute
    /\ Pc(c, "session") = "hello" => ControlSrc(c) \in Mute

\* Until its handshake is done, c has received no data.
NewbornOf(c) ==
    /\ First(c) => ~confirmed[c] /\ DataGot(c) = <<>>
    /\ mu[c] = "provider" /\ Pc(c, "provider") # "restart" => ~confirmed[c]
    /\ mu[c] = "provider" /\ Pc(c, "provider") \notin {"restart", "rotated"} /\ ~closed[c] => DataGot(c) = <<>>
    /\ Pc(c, "provider") = "welcome" => DataGot(c) = <<>>

\* The headers during the first handshake, while the provider restarts the planes.
HeadersOf(c) ==
    First(c) /\ ~closed[c] =>
        /\ Pc(c, "provider") \in {"rotated", "header"} => go[c]["provider"].hdr = epoch[c]
        /\ Pc(c, "provider") # "rotated" => DataSrc(c) = epoch[c]
        /\ Pc(c, "provider") \in {"rotated", "data", "header"} => ControlSrc(c) # epoch[c]

\* Who is about to send a hello has one data runtime under its epoch.
SoleOf(c) ==
    /\ ~closed[c] /\ (mu[c] = "provider" \/ Pc(c, "session") = "hello") =>
        /\ Pc(c, "provider") = "rotated" => go[c]["provider"].hdr = epoch[c] /\ epoch[c] \in Unused
        /\ Pc(c, "provider") \in {"data", "header", "restarted", "hello"} => epoch[c] \in Lone
    /\ ~closed[c] /\ Pc(c, "session") = "hello" => ControlSrc(c) \in Lone

\* A confirmed client receives data of the epoch it has confirmed.
BoundOf(c) ==
    confirmed[c] /\ ~closed[c] =>
        /\ DataSrc(c) = epoch[c]
        /\ \A g \in Goroutines : Pc(c, g) = "rotated" => go[c][g].hdr = epoch[c]
        /\ \A n \in DOMAIN DataGot(c) : rt[DataGot(c)[n][1]].src = peerEpoch[c]

StreamsOf(c) == SilenceOf(c) /\ NewbornOf(c) /\ HeadersOf(c) /\ SoleOf(c) /\ BoundOf(c)

\* Runtimes belong to who is in the room.
HereInv == \A i \in DOMAIN rt : i[1] = Server \/ i[1] \in scene.clients

\* A client sends one hello in a control session, and one session under an epoch.
HelloInv ==
    /\ \A i, j : \A e : Speaks(i, e) /\ Speaks(j, e) => i = j
    /\ \A i \in DOMAIN rt : i[1] # Server /\ rt[i].plane = "control" => Len(rt[i].msgs) <= 1

\* What a client has received was addressed to the epoch it received it under,
\* and its data came from one epoch.
GotOK(i) == \A n \in DOMAIN rt[i].got :
    /\ rt[rt[i].got[n][1]].dst = rt[i].src
    /\ rt[i].plane = "data" => \A m \in DOMAIN rt[i].got : rt[rt[i].got[n][1]].src = rt[rt[i].got[m][1]].src

GotInv == \A i \in DOMAIN rt : i[1] # Server => GotOK(i)

\* An epoch under which a hello was sent stands for one data runtime.
SoleInv == \A e : Silent(e) \/ Sole(e)

Streams == HereInv /\ HelloInv /\ GotInv /\ SoleInv /\ \A c \in scene.clients : StreamsOf(c)

\* The state of c is as before, or c has closed.
Still(c) ==
    /\ epoch'[c] = epoch[c] /\ confirmed'[c] = confirmed[c] /\ peerEpoch'[c] = peerEpoch[c]
    /\ go'[c] = go[c] /\ mu'[c] = mu[c] /\ (closed[c] => closed'[c])
    /\ DataSrc(c)' = DataSrc(c) /\ DataGot(c)' = DataGot(c) /\ ControlSrc(c)' = ControlSrc(c)

\* The planes of c have the headers and the data they had.
SamePlanes(c) == DataSrc(c)' = DataSrc(c) /\ DataGot(c)' = DataGot(c) /\ ControlSrc(c)' = ControlSrc(c)

\* A goroutine of c moves, and what the planes are is as before.
Lull(c) ==
    /\ SamePlanes(c) /\ epoch'[c] = epoch[c] /\ confirmed'[c] = confirmed[c] /\ peerEpoch'[c] = peerEpoch[c]
    /\ closed'[c] = closed[c]
    /\ epoch[c] \in Mute => epoch[c] \in Mute'
    /\ epoch[c] \in Lone => epoch[c] \in Lone'
    /\ epoch[c] \in Unused => epoch[c] \in Unused'
    /\ ControlSrc(c) \in Mute => ControlSrc(c) \in Mute'
    /\ ControlSrc(c) \in Lone => ControlSrc(c) \in Lone'
    /\ \A g \in Goroutines : go[c][g].hdr \in Mute => go[c][g].hdr \in Mute'
    /\ \A n \in DOMAIN DataGot(c) : rt'[DataGot(c)[n][1]].src = rt[DataGot(c)[n][1]].src

\* The goroutine g of c goes on, keeps its header, and the other one waits.
Moves(c, g, from, to) ==
    /\ Pc(c, g) = from /\ Pc(c, g)' = to /\ go'[c][g].hdr = go[c][g].hdr
    /\ \A h \in Goroutines : h # g => go'[c][h] = go[c][h]

\* The clients' runtimes after a step: new ones belong to who is in the room, have
\* received nothing and have sent nothing, the others are as before.
HereKin == \A i \in DOMAIN rt' : i \in DOMAIN rt \/ i[1] = Server \/ i[1] \in scene.clients

GotKin == \A i \in DOMAIN rt' : i[1] # Server =>
    \/ rt'[i].got = <<>>
    \/ i \in DOMAIN rt /\ rt'[i].src = rt[i].src /\ rt'[i].got = rt[i].got

HelloKin == \A i \in DOMAIN rt' : i[1] # Server /\ rt'[i].plane = "control" =>
    rt'[i].msgs = <<>> \/ (i \in DOMAIN rt /\ rt'[i].msgs = rt[i].msgs)

Hush == HereKin /\ GotKin /\ HelloKin /\ \A e : Quiet(e)

\* No other control session of a client has sent its hello.
OneHello == \A i \in DOMAIN rt : i[1] # Server /\ rt[i].plane = "control" => Len(rt[i].msgs) <= 1

OneSpeaker(e) == \A i, j : Speaks(i, e) /\ Speaks(j, e) => i = j

------------------------------------------------------------------------------
(* The server's sessions and what its upper layer has.                      *)

\* A closed session's epoch is lost.
ClosedInv == \A s \in DOMAIN sess : sess[s].closed => sess[s].epoch \in lost

\* Under one epoch of its own the server has one data runtime for an epoch that is
\* not lost, and under the present one that of a session of the table.
DataFor(j, e) == j \in DOMAIN rt /\ j[1] = Server /\ rt[j].plane = "data" /\ rt[j].dst = e

UniqueInv == \A j, k : \A e : e \notin lost /\ DataFor(j, e) /\ DataFor(k, e) /\ rt[j].src = rt[k].src => j = k

Homed(j) == \E s \in DOMAIN sess : InTable(s) /\ sess[s].data = j

HomeInv == \A j : \A e : e \notin lost /\ DataFor(j, e) /\ rt[j].src = epoch[Server] => Homed(j)

\* It has answered a hello once.
BriefInv == \A j \in DOMAIN rt : j[1] = Server /\ rt[j].plane = "control" /\ rt[j].dst \notin lost => Len(rt[j].msgs) <= 1

\* Its upper layer has from an epoch what the runtimes of the session have received.
UpperOf(s) ==
    LET e == sess[s].epoch
        d == sess[s].data
        i == sess[s].control
    IN  e \notin lost =>
          /\ upper["data"][e] = rt[d].got
          /\ i = None => upper["control"][e] = <<>>
          /\ i # None => upper["control"][e] = rt[i].got /\ Len(rt[i].msgs) <= answered[e]

UpperInv == \A s \in DOMAIN sess : InTable(s) => UpperOf(s)

EmptyInv == \A e \in Epochs \ lost : ~Has(e) => upper["data"][e] = <<>> /\ upper["control"][e] = <<>>

Table == ClosedInv /\ UniqueInv /\ HomeInv /\ BriefInv /\ UpperInv /\ EmptyInv

\* The sessions stay what they are, and leave the table only when their epoch is lost.
KeepSess ==
    /\ lost \subseteq lost'
    /\ \A s \in DOMAIN sess : s \in DOMAIN sess' /\ sess'[s].data = sess[s].data /\ sess'[s].epoch = sess[s].epoch

KeepTable == \A s \in DOMAIN sess : InTable(s) => InTable(s)' \/ sess[s].epoch \in lost'

OldData == \A j \in DOMAIN rt' : j[1] = Server /\ rt'[j].plane = "data" => j \in DOMAIN rt

\* Nothing is received, answered or sent on the control plane for epoch e.
Calm(e) ==
    /\ \A j \in DOMAIN rt : j[1] = Server /\ rt[j].dst = e =>
         rt'[j].got = rt[j].got /\ (rt[j].plane = "control" => rt'[j].msgs = rt[j].msgs)
    /\ upper'["data"][e] = upper["data"][e] /\ upper'["control"][e] = upper["control"][e]
    /\ answered'[e] = answered[e]

\* The server's runtimes have the traffic they had.
ServerSame == \A j \in DOMAIN rt' : j[1] = Server => j \in DOMAIN rt /\ SameTraffic(j)

\* The sessions that are in the table after a step were in it, and those that a
\* step closes are lost.
KeptTable == \A s \in DOMAIN sess' : InTable(s)' => s \in DOMAIN sess /\ InTable(s) /\ sess'[s] = sess[s]

CloseLost == \A s \in DOMAIN sess' : sess'[s].closed => (s \in DOMAIN sess /\ sess[s].closed) \/ sess'[s].epoch \in lost'

------------------------------------------------------------------------------
(* The steps of one actor.                                                  *)

\* A step of client c that is not part of a restart, and a step of a track reader.
ClientStep(c) ==
    \/ ProviderReconnected(c) \/ ProviderLocks(c) \/ LinkDies(c) \/ ContinueReconnect(c)
    \/ SendHello(c) \/ ConfirmPeer(c) \/ HandshakeFails(c)
    \/ Send(c) \/ Flush(c) \/ LateWriteTo(c) \/ DrainData(c) \/ ForceKeepalive(c) \/ DrainControl(c)
    \/ Close(c) \/ HandleClientFrame(c) \/ MaybePeerRestart(c)

ReaderStep(w) == TakeFrame(w) \/ PeerSessionFor(w) \/ DeliverData(w) \/ PeerControlFor(w)

=============================================================================
