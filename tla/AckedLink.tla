------------------------------ MODULE AckedLink ------------------------------
(***************************************************************************)
(* The acknowledged video transports, seichannel and videochannel, on      *)
(* transport/common, with the muxconn.Conn on top of each end: two ends    *)
(* that fragment messages, queue, write paced frames on a lossy track,     *)
(* reassemble, acknowledge per fragment and retransmit.                    *)
(*                                                                         *)
(* A message is <<end, incarnation, sequence number>>; the incarnation     *)
(* stands for its CRC, which is what tells apart the messages that a       *)
(* restarted process sends under sequence numbers used before.  Sealing,   *)
(* pacing (Shaper), codecs and the payload are left out.  A track keeps    *)
(* the order of its frames (the sample builder restores it) and loses any  *)
(* of them; a damaged fragment fails its checksum, which is a loss.        *)
(***************************************************************************)
EXTENDS Integers, Sequences, FiniteSets, SequencesExt

CONSTANTS
    Kinds,        \* the transports under study, of {"sei", "video"}
    Frags,        \* the number of fragments of a message
    MaxAttempts,  \* SenderConfig.MaxAttempts
    MaxRecent,    \* Reassembler.maxRecent (and maxPending)
    DataCap,      \* outboundDataQueueSize
    AckCap,       \* outboundAckQueueSize
    InCap,        \* muxconn inboundQueue
    AirCap,       \* bound: frames under way on a track
    MaxMsgs,      \* bound: messages an end sends per incarnation
    MaxFaults,    \* bound: closes, resets and crashes
    MaxLosses     \* bound: lost frames

ASSUME KindsAssumption == Kinds \subseteq {"sei", "video"}
ASSUME LimitsAssumption ==
    \A n \in {Frags, MaxAttempts, MaxRecent, DataCap, AckCap, InCap, AirCap} : n \in Nat \ {0}
ASSUME BoundsAssumption ==
    /\ MaxFaults \in Nat /\ MaxLosses \in Nat
    /\ DOMAIN MaxMsgs = {"client", "server"} /\ \A e \in DOMAIN MaxMsgs : MaxMsgs[e] \in Nat

Ends == {"client", "server"}
Other(e) == IF e = "client" THEN "server" ELSE "client"
Fragments == 1 .. Frags

VARIABLES
    kind,      \* which transport this link runs, chosen once
    snd,       \* each end's Conn.Write and Sender.Send
    inc,       \* each end's incarnation
    dataQ,     \* OutboundQueue.data
    ackQ,      \* OutboundQueue.acks
    air,       \* frames an end has written and the other has not read
    rasm,      \* Reassembler: inbound (oldest first), delivered, previous
    rd,        \* the goroutine that reads the remote track
    latch,     \* streamTransport.peerReady (seichannel)
    closed,    \* streamTransport.closed
    conn,      \* the muxconn.Conn of each end
    faults, losses,
    sent, known, ever, torn, confirmed,   \* history, see MessageChannel
    read,      \* history: the messages each end's smux read, in order
    failed     \* history: messages whose Send returned an error

hist == <<sent, known, ever, torn, confirmed, read, failed>>
vars == <<kind, snd, inc, dataQ, ackQ, air, rasm, rd, latch, closed, conn,
          faults, losses, hist>>

NewSender == [pc |-> "idle", seq |-> 0, att |-> 0, pend |-> {}, acked |-> {}]
NewReassembler == [inbound |-> <<>>, delivered |-> {}, previous |-> {}]
NoFrame == [type |-> "none", seq |-> 0, crc |-> 0, frag |-> 0]
IdleReader == [pc |-> "idle", frame |-> NoFrame, gen |-> 0]
NewConn(g) == [gen |-> g, open |-> TRUE, in |-> <<>>]

Init ==
    /\ kind \in Kinds
    /\ snd = [e \in Ends |-> NewSender]
    /\ inc = [e \in Ends |-> 0]
    /\ dataQ = [e \in Ends |-> <<>>] /\ ackQ = [e \in Ends |-> <<>>]
    /\ air = [e \in Ends |-> <<>>]
    /\ rasm = [e \in Ends |-> NewReassembler]
    /\ rd = [e \in Ends |-> IdleReader]
    /\ latch = [e \in Ends |-> FALSE]
    /\ closed = [e \in Ends |-> FALSE]
    /\ conn = [e \in Ends |-> NewConn(0)]
    /\ faults = 0 /\ losses = [e \in Ends |-> 0]
    /\ sent = {} /\ known = [e \in Ends |-> {}] /\ ever = {} /\ torn = {}
    /\ confirmed = {} /\ read = [e \in Ends |-> <<>>] /\ failed = {}

Msg(e, crc, seq) == <<e, crc, seq>>
Current(e) == Msg(e, inc[e], snd[e].seq)

------------------------------------------------------------------------------
(* Frames.                                                                  *)

EncodeData(e, i) == [type |-> "data", seq |-> snd[e].seq, crc |-> inc[e], frag |-> i]
EncodeAck(frame) == [frame EXCEPT !.type = "ack"]
EncodeHello == [NoFrame EXCEPT !.type = "hello"]

------------------------------------------------------------------------------
(* Conn.Write and Sender.Send.                                              *)

\* CanSend of the two transports; the engine below is up.
CanSendSEI(e) == ~closed[e] /\ latch[e]
CanSendVideo(e) == ~closed[e]
CanSend(e) == IF kind = "sei" THEN CanSendSEI(e) ELSE CanSendVideo(e)

\* Send (or Write) returns an error.
Fails(e) ==
    /\ snd' = [snd EXCEPT ![e].pc = "idle"]
    /\ failed' = failed \cup {Current(e)}
    /\ UNCHANGED <<sent, known, ever, torn, confirmed, read>>

\* smux's send loop calls Conn.Write, which waits for the transport.
Write(e) ==
    /\ snd[e].pc = "idle" /\ snd[e].seq < MaxMsgs[e]
    /\ conn[e].open
    /\ snd' = [snd EXCEPT ![e].pc = "ready"]
    /\ UNCHANGED <<kind, inc, dataQ, ackQ, air, rasm, rd, latch, closed, conn, faults, losses, hist>>

\* waitSendReady gives up: the conn was closed or the deadline passed.
WaitSendReadyFails(e) ==
    /\ snd[e].pc = "ready"
    /\ ~conn[e].open \/ ~CanSend(e)
    /\ snd' = [snd EXCEPT ![e].pc = "idle"]
    /\ UNCHANGED <<kind, inc, dataQ, ackQ, air, rasm, rd, latch, closed, conn, faults, losses, hist>>

\* The transport is ready: send checks closed and Sender.Send registers a waiter.
Register(e) ==
    /\ snd[e].pc = "ready" /\ conn[e].open /\ CanSend(e)
    /\ snd' = [snd EXCEPT ![e] = [pc |-> "queue", seq |-> @.seq + 1, att |-> 1,
                                  pend |-> Fragments, acked |-> {}]]
    /\ losses' = [losses EXCEPT ![e] = 0]
    /\ sent' = sent \cup {Msg(e, inc[e], snd[e].seq + 1)}
    /\ UNCHANGED <<kind, inc, dataQ, ackQ, air, rasm, rd, latch, closed, conn, faults,
                   known, ever, torn, confirmed, read, failed>>

\* OutboundQueue.Enqueue: fails on a closed transport, blocks on a full queue.
Enqueue(q, cap, e, frame) ==
    /\ ~closed[e] /\ Len(q[e]) < cap
    /\ q' = [q EXCEPT ![e] = Append(@, frame)]

QueueFragment(e) ==
    /\ snd[e].pc = "queue"
    /\ \E i \in snd[e].pend :
        /\ \A j \in snd[e].pend : i <= j
        /\ Enqueue(dataQ, DataCap, e, EncodeData(e, i))
        /\ snd' = [snd EXCEPT ![e].pend = @ \ {i},
                              ![e].pc = IF snd[e].pend = {i} THEN "await" ELSE "queue"]
    /\ UNCHANGED <<kind, inc, ackQ, air, rasm, rd, latch, closed, conn, faults, losses, hist>>

\* AckWaiter.Done and AckWaiter.Pending.
Done(e) == snd[e].acked = Fragments
Pending(e) == Fragments \ snd[e].acked

\* await sees every fragment acknowledged.
SendDone(e) ==
    /\ snd[e].pc = "await" /\ Done(e)
    /\ snd' = [snd EXCEPT ![e].pc = "idle"]
    /\ confirmed' = confirmed \cup {Current(e)}
    /\ UNCHANGED <<kind, inc, dataQ, ackQ, air, rasm, rd, latch, closed, conn, faults, losses,
                   sent, known, ever, torn, read, failed>>

\* Mutant: a Send blocked on a full queue does not watch closeCh.
MutSendClosed(e) ==
    /\ snd[e].pc = "await" /\ closed[e]
    /\ Fails(e)
    /\ UNCHANGED <<kind, inc, dataQ, ackQ, air, rasm, rd, latch, closed, conn, faults, losses>>

\* The transport closes under a Send that queues or waits.
SendClosed(e) ==
    /\ snd[e].pc \in {"queue", "await"} /\ closed[e]
    /\ Fails(e)
    /\ UNCHANGED <<kind, inc, dataQ, ackQ, air, rasm, rd, latch, closed, conn, faults, losses>>

\* The reader of e is stuck in Conn.Push: smux does not read.
Stalled(e) ==
    /\ rd[e].pc = "push" /\ rd[e].gen = conn[e].gen
    /\ conn[e].open /\ Len(conn[e].in) = InCap

\* PerAttemptAckTimeout covers the time the writers, the readers and the acks
\* take, so the timer of an attempt fires only when none of them can move.
Quiet ==
    \A e \in Ends :
        /\ closed[e] \/ (dataQ[e] = <<>> /\ ackQ[e] = <<>>)
        /\ \/ Stalled(e)
           \/ rd[e].pc = "idle" /\ \A i \in DOMAIN air[Other(e)] : air[Other(e)][i].type = "hello"

AckTimeout(e) == snd[e].pc = "await" /\ ~Done(e) /\ ~closed[e] /\ Quiet

\* A round passed: what is still pending is queued again.
Retransmit(e) ==
    /\ AckTimeout(e) /\ snd[e].att < MaxAttempts
    /\ snd' = [snd EXCEPT ![e].pc = "queue", ![e].att = @ + 1,
                          ![e].pend = Pending(e)]
    /\ UNCHANGED <<kind, inc, dataQ, ackQ, air, rasm, rd, latch, closed, conn, faults, losses, hist>>

\* The budget is spent: ErrAckTimeout.
GiveUp(e) ==
    /\ AckTimeout(e) /\ snd[e].att = MaxAttempts
    /\ Fails(e)
    /\ UNCHANGED <<kind, inc, dataQ, ackQ, air, rasm, rd, latch, closed, conn, faults, losses>>

------------------------------------------------------------------------------
(* The paced writer.                                                        *)

\* A frame leaves for the track; the network may lose it, and does when the
\* other end does not read.
Emit(e, frame) ==
    \/ /\ Len(air[e]) < AirCap
       /\ air' = [air EXCEPT ![e] = Append(@, frame)]
       /\ UNCHANGED losses
    \/ /\ Len(air[e]) = AirCap \/ \A x \in Ends : losses[x] < MaxLosses
       /\ losses' = [x \in Ends |-> IF losses[x] < MaxLosses THEN losses[x] + 1 ELSE MaxLosses]
       /\ UNCHANGED air

\* OutboundQueue.Next prefers an acknowledgement.
NextFrame(e) ==
    /\ ~closed[e]
    /\ \/ /\ ackQ[e] # <<>>
          /\ Emit(e, Head(ackQ[e]))
          /\ ackQ' = [ackQ EXCEPT ![e] = Tail(@)]
          /\ UNCHANGED dataQ
       \/ /\ ackQ[e] = <<>> /\ dataQ[e] # <<>>
          /\ Emit(e, Head(dataQ[e]))
          /\ dataQ' = [dataQ EXCEPT ![e] = Tail(@)]
          /\ UNCHANGED ackQ

\* One frame of writeBatch in seichannel's writerLoop.
WriteBatch(e) ==
    /\ kind = "sei" /\ NextFrame(e)
    /\ UNCHANGED <<kind, snd, inc, rasm, rd, latch, closed, conn, faults, hist>>

\* One tick of videochannel's writerLoop.
WriteVisual(e) ==
    /\ kind = "video" /\ NextFrame(e)
    /\ UNCHANGED <<kind, snd, inc, rasm, rd, latch, closed, conn, faults, hist>>

\* An idle tick of seichannel writes a hello.  It matters only while the other
\* end's latch is down; videochannel's idle frame carries nothing.
WriteHello(e) ==
    /\ kind = "sei" /\ ~closed[e] /\ ackQ[e] = <<>> /\ dataQ[e] = <<>>
    /\ ~latch[Other(e)] /\ air[e] = <<>>
    /\ air' = [air EXCEPT ![e] = <<EncodeHello>>]
    /\ UNCHANGED <<kind, snd, inc, dataQ, ackQ, rasm, rd, latch, closed, conn, faults, losses, hist>>

------------------------------------------------------------------------------
(* The reader: handleSample / handleFrame and DeliverFragment.              *)

\* Mutants: the crc is not compared; a message is not remembered as delivered.
MutMark(e, frame) ==
    IF snd[e].pc \in {"queue", "await"} /\ snd[e].seq = frame.seq
    THEN [snd EXCEPT ![e].acked = @ \cup {frame.frag}]
    ELSE snd
MutAlreadyDelivered(r, f) == FALSE

\* AckTracker.Mark: the waiter must exist and its crc must match.
Mark(e, frame) ==
    IF /\ snd[e].pc \in {"queue", "await"}
       /\ snd[e].seq = frame.seq /\ inc[e] = frame.crc
    THEN [snd EXCEPT ![e].acked = @ \cup {frame.frag}]
    ELSE snd

AlreadyDelivered(r, f) ==
    \/ <<f.seq, f.crc>> \in r.delivered
    \/ /\ \A p \in r.delivered : p[1] # f.seq
       /\ <<f.seq, f.crc>> \in r.previous

\* The entries without the one of a sequence number: the map holds at most one.
Without(inbound, seq) ==
    IF \E k \in DOMAIN inbound : inbound[k].seq = seq
    THEN RemoveAt(inbound, CHOOSE k \in DOMAIN inbound : inbound[k].seq = seq)
    ELSE inbound

\* upsert with evictOldestIfFull: the entry of f's message goes to the end of
\* the sequence when it is new, and the oldest other entry leaves a full one.
Upsert(r, f) ==
    IF \E k \in DOMAIN r.inbound : r.inbound[k].seq = f.seq /\ r.inbound[k].crc = f.crc
    THEN r.inbound
    ELSE LET others == Without(r.inbound, f.seq)
             entry == [seq |-> f.seq, crc |-> f.crc, got |-> {}]
         IN  Append(IF Len(others) >= MaxRecent THEN Tail(others) ELSE others, entry)

StoreChunk(inbound, f) ==
    [k \in DOMAIN inbound |->
        IF inbound[k].seq = f.seq THEN [inbound[k] EXCEPT !.got = @ \cup {f.frag}]
        ELSE inbound[k]]

Complete(inbound, f) ==
    \E k \in DOMAIN inbound : inbound[k].seq = f.seq /\ inbound[k].got = Fragments

\* deliver: drop the entry and note the message, rotating a full window.
Deliver(r, inbound, f) ==
    LET full == Cardinality(r.delivered) >= MaxRecent
        kept == {p \in r.delivered : p[1] # f.seq}
    IN  [inbound   |-> Without(inbound, f.seq),
         delivered |-> (IF full THEN {} ELSE kept) \cup {<<f.seq, f.crc>>},
         previous  |-> IF full THEN r.delivered ELSE r.previous]

\* Reassembler.Push of a valid fragment.
Push(r, f) ==
    LET stored == StoreChunk(Upsert(r, f), f)
    IN  IF AlreadyDelivered(r, f) THEN [result |-> "duplicate", r |-> r]
        ELSE IF Complete(stored, f) THEN [result |-> "delivered", r |-> Deliver(r, stored, f)]
        ELSE [result |-> "partial", r |-> [r EXCEPT !.inbound = stored]]

\* Mutant: a duplicate is not acknowledged again.
MutDeliverFragment(e, f) ==
    LET p == Push(rasm[e], f)
        m == Msg(Other(e), f.crc, f.seq)
        handed == p.result = "delivered"
    IN  /\ rasm' = [rasm EXCEPT ![e] = p.r]
        /\ rd' = IF p.result = "duplicate" THEN rd
                 ELSE [rd EXCEPT ![e] = [pc |-> IF handed /\ conn[e].open THEN "push" ELSE "ack",
                                         frame |-> f, gen |-> conn[e].gen]]
        /\ known' = IF handed THEN [known EXCEPT ![e] = @ \cup {m}] ELSE known
        /\ ever' = IF handed THEN ever \cup {m} ELSE ever
        /\ UNCHANGED <<sent, torn, confirmed, read, failed>>

\* A complete message goes to onData (Conn.Push, which first looks whether the
\* conn is closed) and is then acknowledged; so is a part, and a duplicate.
DeliverFragment(e, f) ==
    LET p == Push(rasm[e], f)
        m == Msg(Other(e), f.crc, f.seq)
        handed == p.result = "delivered"
    IN  /\ rasm' = [rasm EXCEPT ![e] = p.r]
        /\ rd' = [rd EXCEPT ![e] = [pc |-> IF handed /\ conn[e].open THEN "push" ELSE "ack",
                                    frame |-> f, gen |-> conn[e].gen]]
        /\ known' = IF handed THEN [known EXCEPT ![e] = @ \cup {m}] ELSE known
        /\ ever' = IF handed THEN ever \cup {m} ELSE ever
        /\ UNCHANGED <<sent, torn, confirmed, read, failed>>

Incoming(e) == Head(air[Other(e)])

\* The reader takes the next frame of the track.
TakeFrame(e) ==
    /\ rd[e].pc = "idle" /\ air[Other(e)] # <<>>
    /\ air' = [air EXCEPT ![Other(e)] = Tail(@)]
    /\ UNCHANGED <<kind, inc, dataQ, ackQ, closed, conn, faults>>

\* The branches on the type of an accepted frame.
Dispatch(e, f) ==
    \/ f.type = "hello" /\ UNCHANGED <<snd, rasm, rd, hist>>
    \/ f.type = "ack" /\ snd' = Mark(e, f) /\ UNCHANGED <<rasm, rd, hist>>
    \/ f.type = "data" /\ DeliverFragment(e, f) /\ UNCHANGED snd

\* seichannel's handleSample: any accepted frame shows that the peer is there.
HandleSample(e) ==
    /\ kind = "sei" /\ TakeFrame(e) /\ ~closed[e]
    /\ latch' = [latch EXCEPT ![e] = TRUE]
    /\ Dispatch(e, Incoming(e))
    /\ UNCHANGED losses

\* videochannel's popDecoderFrames and handleFrame.
HandleVisual(e) ==
    /\ kind = "video" /\ TakeFrame(e) /\ ~closed[e]
    /\ Dispatch(e, Incoming(e))
    /\ UNCHANGED <<latch, losses>>

\* A fragment whose checksum fails is neither stored nor acknowledged.
HandleDamaged(e) ==
    /\ TakeFrame(e) /\ ~closed[e] /\ Incoming(e).type = "data"
    /\ \A x \in Ends : losses[x] < MaxLosses
    /\ losses' = [x \in Ends |-> losses[x] + 1]
    /\ latch' = IF kind = "sei" THEN [latch EXCEPT ![e] = TRUE] ELSE latch
    /\ UNCHANGED <<snd, rasm, rd, hist>>

\* After Close both readers drop what they still receive.
DropFrame(e) ==
    /\ TakeFrame(e) /\ closed[e]
    /\ UNCHANGED <<snd, rasm, rd, latch, losses, hist>>

\* Conn.Push as onData: into the queue when there is room; a closed conn, or one
\* that has been replaced, takes the frame and nobody reads it.  A close that
\* came after Push's first look may still see the frame queued.
OnData(e) ==
    /\ rd[e].pc = "push"
    /\ \/ /\ rd[e].gen = conn[e].gen /\ Len(conn[e].in) < InCap
          /\ conn' = [conn EXCEPT ![e].in = Append(@, Msg(Other(e), rd[e].frame.crc, rd[e].frame.seq))]
       \/ /\ rd[e].gen # conn[e].gen \/ ~conn[e].open
          /\ UNCHANGED conn
    /\ rd' = [rd EXCEPT ![e].pc = "ack"]
    /\ UNCHANGED <<kind, snd, inc, dataQ, ackQ, air, rasm, latch, closed, faults, losses, hist>>

\* Sender.Ack on the priority queue.
SendAck(e) ==
    /\ rd[e].pc = "ack"
    /\ \/ Enqueue(ackQ, AckCap, e, EncodeAck(rd[e].frame))
       \/ closed[e] /\ UNCHANGED ackQ
    /\ rd' = [rd EXCEPT ![e] = IdleReader]
    /\ UNCHANGED <<kind, snd, inc, dataQ, air, rasm, latch, closed, conn, faults, losses, hist>>

\* smux's receive loop takes a frame from Conn.Read.
Read(e) ==
    /\ conn[e].in # <<>>
    /\ read' = [read EXCEPT ![e] = Append(@, Head(conn[e].in))]
    /\ conn' = [conn EXCEPT ![e].in = Tail(@)]
    /\ UNCHANGED <<kind, snd, inc, dataQ, ackQ, air, rasm, rd, latch, closed, faults, losses,
                   sent, known, ever, torn, confirmed, failed>>

------------------------------------------------------------------------------
(* Close, reset, crash.                                                     *)

Fault == faults < MaxFaults /\ faults' = faults + 1

\* Conn.Close drops what is queued.
CloseConn(e) ==
    /\ Fault /\ conn[e].open
    /\ conn' = [conn EXCEPT ![e].open = FALSE, ![e].in = <<>>]
    /\ UNCHANGED <<kind, snd, inc, dataQ, ackQ, air, rasm, rd, latch, closed, losses, hist>>

\* The session above is rebuilt on the same transport.
ReplaceConn(e) ==
    /\ ~conn[e].open /\ snd[e].pc = "idle"
    /\ conn' = [conn EXCEPT ![e] = NewConn(conn[e].gen + 1)]
    /\ UNCHANGED <<kind, snd, inc, dataQ, ackQ, air, rasm, rd, latch, closed, faults, losses, hist>>

\* The receiving state of e is forgotten.
Forgets(e) ==
    /\ rasm' = [rasm EXCEPT ![e] = NewReassembler]
    /\ latch' = [latch EXCEPT ![e] = FALSE]
    /\ known' = [known EXCEPT ![e] = {}]
    /\ torn' = torn \cup {m \in sent : m[1] # e}

\* seichannel's resetPeerState, on a provider reconnect or ResetPeer.
ResetPeer(e) ==
    /\ Fault /\ kind = "sei"
    /\ Forgets(e)
    /\ UNCHANGED <<kind, snd, inc, dataQ, ackQ, air, rd, closed, conn, losses,
                   sent, ever, confirmed, read, failed>>

\* streamTransport.Close of seichannel; the writer stops with the queues as they are.
CloseSEI(e) ==
    /\ Fault /\ kind = "sei" /\ ~closed[e]
    /\ closed' = [closed EXCEPT ![e] = TRUE]
    /\ UNCHANGED <<kind, snd, inc, dataQ, ackQ, air, rasm, rd, latch, conn, losses, hist>>

\* streamTransport.Close of videochannel, which closes the encoder and decoders too.
CloseVideo(e) ==
    /\ Fault /\ kind = "video" /\ ~closed[e]
    /\ closed' = [closed EXCEPT ![e] = TRUE]
    /\ UNCHANGED <<kind, snd, inc, dataQ, ackQ, air, rasm, rd, latch, conn, losses, hist>>

\* The process of e dies and starts again: sequence numbers from one.
Restart(e) ==
    /\ Fault
    /\ inc' = [inc EXCEPT ![e] = @ + 1]
    /\ snd' = [snd EXCEPT ![e] = NewSender]
    /\ failed' = IF snd[e].pc \in {"queue", "await"} THEN failed \cup {Current(e)} ELSE failed
    /\ dataQ' = [dataQ EXCEPT ![e] = <<>>] /\ ackQ' = [ackQ EXCEPT ![e] = <<>>]
    /\ rd' = [rd EXCEPT ![e] = IdleReader]
    /\ conn' = [conn EXCEPT ![e] = NewConn(conn[e].gen + 1)]
    /\ closed' = [closed EXCEPT ![e] = FALSE]
    /\ Forgets(e)
    /\ UNCHANGED <<kind, air, losses, sent, ever, confirmed, read>>

------------------------------------------------------------------------------
SenderStep(e) ==
    \/ WaitSendReadyFails(e) \/ Register(e) \/ QueueFragment(e) \/ SendDone(e)
    \/ SendClosed(e) \/ Retransmit(e) \/ GiveUp(e)
WriterStep(e) == WriteBatch(e) \/ WriteVisual(e)
ReaderStep(e) ==
    \/ HandleSample(e) \/ HandleVisual(e) \/ HandleDamaged(e) \/ DropFrame(e)
    \/ OnData(e) \/ SendAck(e)

Next ==
    \E e \in Ends :
        \/ Write(e) \/ SenderStep(e) \/ WriterStep(e) \/ WriteHello(e)
        \/ ReaderStep(e) \/ Read(e)
        \/ CloseConn(e) \/ ReplaceConn(e)
        \/ ResetPeer(e) \/ CloseSEI(e) \/ CloseVideo(e) \/ Restart(e)

Spec == Init /\ [][Next]_vars

\* Go runs every goroutine that can move, and the tickers and timers fire.
FairSpec ==
    /\ Spec
    /\ \A e \in Ends : WF_vars(SenderStep(e)) /\ WF_vars(WriterStep(e)) /\ WF_vars(ReaderStep(e))

------------------------------------------------------------------------------
Frame == [type : {"none", "data", "ack", "hello"}, seq : Nat, crc : Nat, frag : 0 .. Frags]

TypeOK ==
    /\ kind \in Kinds
    /\ snd \in [Ends -> [pc : {"idle", "ready", "queue", "await"}, seq : Nat,
                         att : 0 .. MaxAttempts, pend : SUBSET Fragments, acked : SUBSET Fragments]]
    /\ \A e \in Ends :
        /\ dataQ[e] \in Seq(Frame) /\ Len(dataQ[e]) <= DataCap
        /\ ackQ[e] \in Seq(Frame) /\ Len(ackQ[e]) <= AckCap
        /\ air[e] \in Seq(Frame) /\ Len(air[e]) <= AirCap
        /\ Len(rasm[e].inbound) <= MaxRecent
        /\ Cardinality(rasm[e].delivered) <= MaxRecent
        /\ rd[e].frame \in Frame
        /\ Len(conn[e].in) <= InCap

\* The transport implements the message channel: no message is handed to the
\* conn twice by a receiver that keeps its state, and Send reports success only
\* for a message that was handed over or that a reset tore (DeliverFragment's
\* order of delivery and acknowledgement, Mark's crc check, the dedup window).
ChannelMessages(e) == {e} \X (0 .. MaxFaults) \X (1 .. MaxMsgs[e])
Channel == INSTANCE MessageChannel WITH Ends <- Ends, Messages <- ChannelMessages
ImplementsChannel == Channel!Spec

\* What smux reads from an end keeps the order in which the other end's
\* incarnation sent it, without repetition, although fragments are
\* retransmitted, dropped by a closing conn and cut by resets: only a message
\* that a reset or a restart of the reader tore may come a second time.
ReadsInOrder ==
    \A e \in Ends : \A i, j \in DOMAIN read[e] :
        LET a == read[e][i]
            b == read[e][j]
        IN  i < j /\ a[2] = b[2] => a[3] < b[3] \/ b \in torn

\* The stream of frames below smux is sound: queues and fragment sets stay in
\* bounds, and what is read is in order.
StreamIsSound == TypeOK /\ ReadsInOrder

\* A Send gives up only after at least MaxAttempts frames were lost, or after a
\* close, reset, restart or stalled reader: each round of retransmission fails
\* only for a reason of its own (duplicates are acknowledged again).
GiveUpNeedsLosses ==
    [][\A e \in Ends : GiveUp(e) =>
          losses[e] >= MaxAttempts \/ faults > 0 \/ \E x \in Ends : Stalled(x)]_vars

\* Every Write that starts returns: the attempts are bounded, a closed transport
\* wakes the sender, and an absent peer runs into the deadline of waitSendReady.
WritesReturn == \A e \in Ends : snd[e].pc # "idle" ~> snd[e].pc = "idle"

==============================================================================
