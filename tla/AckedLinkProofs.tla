--------------------------- MODULE AckedLinkProofs ---------------------------
(***************************************************************************)
(* Proofs about AckedLink: the acknowledged transports implement the       *)
(* message channel, and what smux reads is in order, for every number of   *)
(* fragments, attempts and messages, every size of the queues and of the   *)
(* reassembler's windows, and every pattern of losses and faults.          *)
(***************************************************************************)
EXTENDS AckedLink, FiniteSetTheorems, SequenceTheorems, TLAPS

Message == Ends \X Nat \X Nat
Entry == [seq : Nat, crc : Nat, got : SUBSET Fragments]
Reassemblers == [inbound : Seq(Entry), delivered : SUBSET (Nat \X Nat), previous : SUBSET (Nat \X Nat)]
Senders == [pc : {"idle", "ready", "queue", "await"}, seq : Nat, att : 0 .. MaxAttempts,
            pend : SUBSET Fragments, acked : SUBSET Fragments]
Readers == [pc : {"idle", "push", "ack"}, frame : Frame, gen : Nat]
Conns == [gen : Nat, open : BOOLEAN, in : Seq(Message)]

\* An end's frames and what it reassembles are well formed and within the caps.
QueueInv ==
    /\ dataQ \in [Ends -> Seq(Frame)] /\ ackQ \in [Ends -> Seq(Frame)] /\ air \in [Ends -> Seq(Frame)]
    /\ \A e \in Ends : Len(dataQ[e]) <= DataCap /\ Len(ackQ[e]) <= AckCap /\ Len(air[e]) <= AirCap

\* The messages under reassembly have distinct numbers, and none is complete.
GoodEntries(q) ==
    /\ \A i, j \in DOMAIN q : q[i].seq = q[j].seq => i = j
    /\ \A i \in DOMAIN q : q[i].got # Fragments

WindowInv ==
    /\ rasm \in [Ends -> Reassemblers]
    /\ \A e \in Ends :
        /\ Len(rasm[e].inbound) <= MaxRecent /\ GoodEntries(rasm[e].inbound)
        /\ IsFiniteSet(rasm[e].delivered) /\ Cardinality(rasm[e].delivered) <= MaxRecent

ConnInv ==
    /\ conn \in [Ends -> Conns]
    /\ \A e \in Ends : Len(conn[e].in) <= InCap

HistoryInv ==
    /\ sent \in SUBSET Message /\ ever \in SUBSET Message
    /\ torn \in SUBSET sent /\ confirmed \in SUBSET sent
    /\ known \in [Ends -> SUBSET sent] /\ read \in [Ends -> Seq(Message)]

Shape ==
    /\ kind \in Kinds /\ faults \in 0 .. MaxFaults
    /\ snd \in [Ends -> Senders] /\ inc \in [Ends -> Nat] /\ rd \in [Ends -> Readers]
    /\ QueueInv /\ WindowInv /\ ConnInv /\ HistoryInv

\* The order in which an end sends: by incarnation, then by sequence number.
Precedes(a, b) == a[2] < b[2] \/ (a[2] = b[2] /\ a[3] < b[3])
NotAfter(a, b) == a[2] < b[2] \/ (a[2] = b[2] /\ a[3] <= b[3])

\* The message that a frame belongs to, when end e is the one that sent it as data.
MsgOf(e, f) == Msg(e, f.crc, f.seq)

Sending(e) == snd[e].pc \in {"queue", "await"}

\* Nothing an end has sent comes after its current message, and the numbers
\* stay within what ChannelMessages allows.
SendOf(e) ==
    /\ inc[e] <= faults /\ snd[e].seq <= MaxMsgs[e]
    /\ snd[e].pc = "ready" => snd[e].seq < MaxMsgs[e]
    /\ Sending(e) => Current(e) \in sent \ confirmed
    /\ \A m \in sent : m[1] = e => NotAfter(m, Current(e)) /\ 1 <= m[3] /\ m[3] <= MaxMsgs[e]

\* What a reset tore was sent before everything that it did not tear.
TornInv == \A a \in torn, b \in sent \ torn : a[1] = b[1] => Precedes(a, b)

\* The fragments and the acknowledgements that end e has queued or written.
DataOn(e) ==
    {dataQ[e][j] : j \in DOMAIN dataQ[e]}
       \cup {air[e][j] : j \in {i \in DOMAIN air[e] : air[e][i].type = "data"}}
AcksOn(e) ==
    {ackQ[e][j] : j \in DOMAIN ackQ[e]}
       \cup {air[e][j] : j \in {i \in DOMAIN air[e] : air[e][i].type = "ack"}}

\* Queue and track keep the order in which the end sent.
OrderOf(e) ==
    /\ \A i, j \in DOMAIN dataQ[e] : i < j => NotAfter(MsgOf(e, dataQ[e][i]), MsgOf(e, dataQ[e][j]))
    /\ \A i \in DOMAIN air[e] : air[e][i].type = "data" =>
        /\ \A j \in DOMAIN air[e] : i < j /\ air[e][j].type = "data"
              => NotAfter(MsgOf(e, air[e][i]), MsgOf(e, air[e][j]))
        /\ \A j \in DOMAIN dataQ[e] : NotAfter(MsgOf(e, air[e][i]), MsgOf(e, dataQ[e][j]))

\* Fragments are of messages that were sent, acknowledgements of messages that
\* the other end sent.
StreamOf(e) ==
    /\ \A j \in DOMAIN dataQ[e] : dataQ[e][j].type = "data"
    /\ \A j \in DOMAIN ackQ[e] : ackQ[e][j].type = "ack"
    /\ \A f \in DataOn(e) : MsgOf(e, f) \in sent /\ f.frag \in Fragments
    /\ \A f \in AcksOn(e) : MsgOf(Other(e), f) \in sent /\ f.frag \in Fragments
    /\ OrderOf(e)

\* What end e has handed over or is reassembling was sent by the other end, and
\* nothing older is still on its way.
Arrived(e) == known[e] \cup {MsgOf(Other(e), rasm[e].inbound[k]) : k \in DOMAIN rasm[e].inbound}
ArrivalOf(e) ==
    \A m \in Arrived(e) :
        /\ m \in sent /\ m[1] = Other(e)
        /\ \A f \in DataOn(Other(e)) : NotAfter(m, MsgOf(Other(e), f))

\* The reassembler remembers the latest message that was handed over, and
\* remembers nothing else.
DedupOf(e) ==
    /\ \A m \in known[e] :
          <<m[3], m[2]>> \in rasm[e].delivered \/ \E n \in known[e] : Precedes(m, n)
    /\ \A p \in rasm[e].delivered \cup rasm[e].previous : Msg(Other(e), p[2], p[1]) \in ever

\* An acknowledgement of the current message is backed by a stored fragment,
\* unless the message has been handed over or torn.
Stored(e, i) ==
    \/ Current(e) \in ever \cup torn
    \/ \E k \in DOMAIN rasm[Other(e)].inbound :
        /\ MsgOf(e, rasm[Other(e)].inbound[k]) = Current(e)
        /\ i \in rasm[Other(e)].inbound[k].got
AckOf(e) ==
    /\ rd[e].pc # "idle" => MsgOf(Other(e), rd[e].frame) \in sent /\ rd[e].frame.frag \in Fragments
    /\ Sending(e) =>
        /\ \A i \in snd[e].acked : Stored(e, i)
        /\ \A f \in AcksOn(Other(e)) : MsgOf(e, f) = Current(e) => Stored(e, f.frag)
        /\ rd[Other(e)].pc # "idle" /\ MsgOf(e, rd[Other(e)].frame) = Current(e)
              => Stored(e, rd[Other(e)].frame.frag)

\* What smux has read, then what the conn holds, then what the reader pushes is
\* in order; all of it is known to the reassembler or torn.
Ordered(a, b) == a[2] = b[2] => a[3] < b[3] \/ b \in torn
Handed(e, m) == m \in sent /\ m[1] = Other(e) /\ m \in known[e] \cup torn
Pushed(e) == MsgOf(Other(e), rd[e].frame)
ReadOf(e) ==
    /\ \A i \in DOMAIN read[e] : Handed(e, read[e][i])
    /\ \A i \in DOMAIN conn[e].in : Handed(e, conn[e].in[i])
    /\ \A i, j \in DOMAIN read[e] : i < j => Ordered(read[e][i], read[e][j])
    /\ \A i, j \in DOMAIN conn[e].in : i < j => Ordered(conn[e].in[i], conn[e].in[j])
    /\ \A i \in DOMAIN read[e], j \in DOMAIN conn[e].in : Ordered(read[e][i], conn[e].in[j])
    /\ rd[e].pc = "push" =>
        /\ Handed(e, Pushed(e))
        /\ \A i \in DOMAIN read[e] : Ordered(read[e][i], Pushed(e))
        /\ \A i \in DOMAIN conn[e].in : Ordered(conn[e].in[i], Pushed(e))

\* The invariant of one end.
EndInv(e) == SendOf(e) /\ StreamOf(e) /\ ArrivalOf(e) /\ DedupOf(e) /\ AckOf(e) /\ ReadOf(e)

Inv == Shape /\ TornInv /\ \A e \in Ends : EndInv(e)

-----------------------------------------------------------------------------
(* Ends, messages and sequences *)

LEMMA EndFacts ==
    ASSUME NEW e \in Ends
    PROVE  /\ Other(e) \in Ends /\ Other(e) # e /\ Other(Other(e)) = e
           /\ \A x \in Ends : x = e \/ x = Other(e)
           /\ \A x \in Ends : x # e => Other(x) = e
  BY DEF Ends, Other

LEMMA LimitFacts ==
    /\ Frags \in Nat \ {0} /\ MaxAttempts \in Nat \ {0} /\ MaxRecent \in Nat \ {0}
    /\ DataCap \in Nat \ {0} /\ AckCap \in Nat \ {0} /\ InCap \in Nat \ {0} /\ AirCap \in Nat \ {0}
    /\ MaxFaults \in Nat
    /\ \A e \in Ends : MaxMsgs[e] \in Nat
  BY LimitsAssumption, BoundsAssumption DEF Ends

LEMMA MsgFacts ==
    ASSUME NEW e \in Ends, NEW c \in Nat, NEW s \in Nat
    PROVE  /\ Msg(e, c, s) \in Message
           /\ Msg(e, c, s)[1] = e /\ Msg(e, c, s)[2] = c /\ Msg(e, c, s)[3] = s
  BY DEF Msg, Message

LEMMA MsgOfFacts ==
    ASSUME NEW e \in Ends, NEW f \in Frame
    PROVE  /\ MsgOf(e, f) \in Message /\ f.crc \in Nat /\ f.seq \in Nat
           /\ MsgOf(e, f)[1] = e /\ MsgOf(e, f)[2] = f.crc /\ MsgOf(e, f)[3] = f.seq
<1>1. f.crc \in Nat /\ f.seq \in Nat
  BY DEF Frame
<1> QED BY <1>1, MsgFacts DEF MsgOf

LEMMA MessageFacts ==
    ASSUME NEW m \in Message
    PROVE  m[1] \in Ends /\ m[2] \in Nat /\ m[3] \in Nat /\ m = Msg(m[1], m[2], m[3])
  BY DEF Message, Msg

LEMMA MessageEqual ==
    ASSUME NEW m \in Message, NEW n \in Message, m[1] = n[1], m[2] = n[2], m[3] = n[3]
    PROVE  m = n
  BY MessageFacts

\* NotAfter is a total order on the messages of an end.
LEMMA NotAfterOrder ==
    /\ \A a, b, c \in Message : NotAfter(a, b) /\ NotAfter(b, c) => NotAfter(a, c)
    /\ \A a, b \in Message : Precedes(a, b) => NotAfter(a, b) /\ ~NotAfter(b, a)
    /\ \A a, b \in Message : NotAfter(a, b) /\ a[1] = b[1] => Precedes(a, b) \/ a = b
    /\ \A a \in Message : NotAfter(a, a)
<1>1. \A a \in Message : a[2] \in Int /\ a[3] \in Int
  BY MessageFacts
<1>2. \A a, b \in Message : NotAfter(a, b) /\ a[1] = b[1] => Precedes(a, b) \/ a = b
  <2> SUFFICES ASSUME NEW a \in Message, NEW b \in Message, NotAfter(a, b), a[1] = b[1], ~Precedes(a, b)
               PROVE  a = b
    OBVIOUS
  <2>1. a[2] = b[2] /\ a[3] = b[3]
    BY <1>1 DEF NotAfter, Precedes
  <2> QED BY <2>1, MessageEqual
<1>3. \A a, b, c \in Message : NotAfter(a, b) /\ NotAfter(b, c) => NotAfter(a, c)
  BY <1>1 DEF NotAfter
<1>4. \A a, b \in Message : Precedes(a, b) => NotAfter(a, b) /\ ~NotAfter(b, a)
  BY <1>1 DEF NotAfter, Precedes
<1>5. \A a \in Message : NotAfter(a, a)
  BY <1>1 DEF NotAfter
<1> QED BY <1>2, <1>3, <1>4, <1>5

LEMMA AppendFacts ==
    ASSUME NEW S, NEW q \in Seq(S), NEW x \in S
    PROVE  /\ Append(q, x) \in Seq(S) /\ Len(Append(q, x)) = Len(q) + 1 /\ Len(q) \in Nat
           /\ DOMAIN q = 1 .. Len(q) /\ DOMAIN Append(q, x) = 1 .. (Len(q) + 1)
           /\ \A i \in DOMAIN q : Append(q, x)[i] = q[i]
           /\ Append(q, x)[Len(q) + 1] = x
  OBVIOUS

LEMMA TailFacts ==
    ASSUME NEW S, NEW q \in Seq(S), q # <<>>
    PROVE  /\ Tail(q) \in Seq(S) /\ Len(Tail(q)) = Len(q) - 1 /\ Len(q) \in Nat \ {0}
           /\ DOMAIN q = 1 .. Len(q) /\ DOMAIN Tail(q) = 1 .. (Len(q) - 1)
           /\ Head(q) = q[1] /\ q[1] \in S /\ 1 \in DOMAIN q
           /\ \A i \in DOMAIN Tail(q) : i + 1 \in DOMAIN q /\ Tail(q)[i] = q[i + 1]
  OBVIOUS

\* The current message of an end.
LEMMA CurrentFacts ==
    ASSUME Shape, NEW e \in Ends
    PROVE  /\ Current(e) \in Message
           /\ Current(e)[1] = e /\ Current(e)[2] = inc[e] /\ Current(e)[3] = snd[e].seq
           /\ inc[e] \in Nat /\ snd[e].seq \in Nat /\ snd[e] \in Senders
<1>1. inc[e] \in Nat /\ snd[e] \in Senders
  BY DEF Shape
<1>2. snd[e].seq \in Nat
  BY <1>1 DEF Senders
<1> QED BY <1>1, <1>2, MsgFacts DEF Current

-----------------------------------------------------------------------------
(* Frame lemmas: what each part of the invariant depends on *)

LEMMA SendFrame ==
    ASSUME NEW x \in Ends, SendOf(x), Shape, faults' \in Nat, faults <= faults', inc'[x] = inc[x],
           snd'[x].seq = snd[x].seq, snd'[x].pc = "ready" => snd[x].pc = "ready",
           Sending(x)' => Sending(x),
           sent' = sent, \A m \in confirmed' \ confirmed : m[1] # x
    PROVE  SendOf(x)'
<1>1. Current(x)' = Current(x)
  BY DEF Current
<1>2. inc[x] \in Nat /\ faults \in Nat /\ Current(x)[1] = x
  BY CurrentFacts, LimitFacts DEF Shape
<1>3. inc'[x] <= faults'
  BY <1>2 DEF SendOf
<1>4. Sending(x)' => Current(x)' \in sent' \ confirmed'
  BY <1>1, <1>2 DEF SendOf
<1> QED BY <1>1, <1>3, <1>4 DEF SendOf

LEMMA StreamFrame ==
    ASSUME NEW x \in Ends, StreamOf(x), dataQ'[x] = dataQ[x], ackQ'[x] = ackQ[x], air'[x] = air[x],
           sent \subseteq sent'
    PROVE  StreamOf(x)' /\ DataOn(x)' = DataOn(x) /\ AcksOn(x)' = AcksOn(x)
<1>1. DataOn(x)' = DataOn(x) /\ AcksOn(x)' = AcksOn(x)
  BY DEF DataOn, AcksOn
<1>2. OrderOf(x)' <=> OrderOf(x)
  BY DEF OrderOf
<1> QED BY <1>1, <1>2 DEF StreamOf

LEMMA ArrivalFrame ==
    ASSUME NEW x \in Ends, ArrivalOf(x), known'[x] = known[x], rasm'[x] = rasm[x],
           sent \subseteq sent', DataOn(Other(x))' \subseteq DataOn(Other(x))
    PROVE  ArrivalOf(x)'
<1>1. Arrived(x)' = Arrived(x)
  BY DEF Arrived
<1> QED BY <1>1 DEF ArrivalOf

LEMMA DedupFrame ==
    ASSUME NEW x \in Ends, DedupOf(x), known'[x] = known[x], rasm'[x] = rasm[x], ever \subseteq ever'
    PROVE  DedupOf(x)'
  BY DEF DedupOf

LEMMA AckFrame ==
    ASSUME NEW x \in Ends, AckOf(x), inc'[x] = inc[x], snd'[x].seq = snd[x].seq,
           Sending(x)' => Sending(x) /\ snd'[x].acked = snd[x].acked,
           AcksOn(Other(x))' \subseteq AcksOn(Other(x)),
           rd'[x].pc # "idle" => rd[x].pc # "idle" /\ rd'[x].frame = rd[x].frame,
           rd'[Other(x)].pc # "idle" => rd[Other(x)].pc # "idle" /\ rd'[Other(x)].frame = rd[Other(x)].frame,
           rasm'[Other(x)] = rasm[Other(x)], ever \subseteq ever', torn \subseteq torn', sent \subseteq sent'
    PROVE  AckOf(x)'
<1>1. Current(x)' = Current(x)
  BY DEF Current
<1>2. \A i : Stored(x, i) => Stored(x, i)'
  BY <1>1 DEF Stored
<1>3. rd'[x].pc # "idle" => MsgOf(Other(x), rd'[x].frame) \in sent' /\ rd'[x].frame.frag \in Fragments
  BY DEF AckOf
<1>4. ASSUME Sending(x)'
      PROVE  /\ \A i \in snd'[x].acked : Stored(x, i)'
             /\ \A f \in AcksOn(Other(x))' : MsgOf(x, f) = Current(x)' => Stored(x, f.frag)'
             /\ rd'[Other(x)].pc # "idle" /\ MsgOf(x, rd'[Other(x)].frame) = Current(x)'
                   => Stored(x, rd[Other(x)].frame.frag)'
  <2>1. Sending(x) /\ snd'[x].acked = snd[x].acked
    BY <1>4
  <2>2. \A i \in snd'[x].acked : Stored(x, i)'
    BY <1>2, <2>1 DEF AckOf
  <2>3. ASSUME NEW f \in AcksOn(Other(x))', MsgOf(x, f) = Current(x)'
        PROVE  Stored(x, f.frag)'
    BY <1>1, <1>2, <2>1, <2>3 DEF AckOf
  <2>4. ASSUME rd'[Other(x)].pc # "idle", MsgOf(x, rd'[Other(x)].frame) = Current(x)'
        PROVE  Stored(x, rd[Other(x)].frame.frag)'
    <3>1. rd'[Other(x)].frame = rd[Other(x)].frame /\ rd[Other(x)].pc # "idle"
      BY <2>4
    <3>2. Stored(x, rd[Other(x)].frame.frag)
      BY <1>1, <2>1, <2>4, <3>1 DEF AckOf
    <3> QED BY <1>1, <3>1, <3>2 DEF Stored
  <2> QED BY <2>2, <2>3, <2>4
<1> QED BY <1>3, <1>4 DEF AckOf

LEMMA ReadFrame ==
    ASSUME NEW x \in Ends, ReadOf(x), read'[x] = read[x], conn'[x].in = conn[x].in,
           rd'[x].pc = "push" => rd[x].pc = "push" /\ rd'[x].frame = rd[x].frame,
           known[x] \subseteq known'[x] \cup torn', sent \subseteq sent', torn \subseteq torn'
    PROVE  ReadOf(x)'
<1>1. \A m : Handed(x, m) => Handed(x, m)'
  BY DEF Handed
<1>2. \A a, b : Ordered(a, b) => Ordered(a, b)'
  BY DEF Ordered
<1>3. rd'[x].pc = "push" => Pushed(x)' = Pushed(x)
  BY DEF Pushed
<1> QED BY <1>1, <1>2, <1>3 DEF ReadOf

\* The parts of an end that only conn, reader, faults and the sender's program
\* counter could disturb.
LEMMA QuietFrame ==
    ASSUME Inv, NEW x \in Ends,
           UNCHANGED <<inc, dataQ, ackQ, air, rasm, sent, known, ever, torn>>,
           rd' = rd, snd'[x].seq = snd[x].seq, Sending(x)' => Sending(x) /\ snd'[x].acked = snd[x].acked
    PROVE  StreamOf(x)' /\ ArrivalOf(x)' /\ DedupOf(x)' /\ AckOf(x)'
<1> USE DEF Inv, EndInv
<1>1. Other(x) \in Ends
  BY EndFacts
<1>2. StreamOf(x)' /\ DataOn(Other(x))' = DataOn(Other(x)) /\ AcksOn(Other(x))' = AcksOn(Other(x))
  BY <1>1, StreamFrame
<1>3. ArrivalOf(x)'
  BY <1>2, ArrivalFrame
<1>4. DedupOf(x)'
  BY DedupFrame
<1>5. AckOf(x)'
  BY <1>2, AckFrame
<1> QED BY <1>2, <1>3, <1>4, <1>5

LEMMA TornFrame ==
    ASSUME TornInv, UNCHANGED <<sent, torn>>
    PROVE  TornInv'
  BY DEF TornInv

-----------------------------------------------------------------------------
(* The invariant holds initially *)

LEMMA InitInv == Init => Inv
<1> SUFFICES ASSUME Init PROVE Inv
  OBVIOUS
<1> USE LimitFacts
<1>1. NoFrame \in Frame
  BY DEF NoFrame, Frame
<1>2. NewSender \in Senders /\ NewSender.pc = "idle" /\ NewSender.seq = 0
  BY DEF NewSender, Senders
<1>3. IdleReader \in Readers /\ IdleReader.pc = "idle"
  BY <1>1 DEF IdleReader, Readers
<1>4. /\ NewReassembler \in Reassemblers
      /\ NewReassembler.inbound = <<>> /\ NewReassembler.delivered = {}
      /\ NewReassembler.previous = {}
  BY DEF NewReassembler, Reassemblers
<1>5. NewConn(0) \in Conns /\ NewConn(0).in = <<>>
  BY DEF NewConn, Conns
<1>6. QueueInv
  BY DEF Init, QueueInv
<1>7. WindowInv
  <2>1. IsFiniteSet({}) /\ Cardinality({}) = 0
    BY FS_EmptySet
  <2>2. \A e \in Ends : rasm[e] = NewReassembler
    BY DEF Init
  <2>3. rasm \in [Ends -> Reassemblers]
    BY <1>4 DEF Init
  <2>4. 0 <= MaxRecent /\ Len(<<>>) = 0
    OBVIOUS
  <2>5. \A e \in Ends : rasm[e].inbound = <<>> /\ rasm[e].delivered = {}
    BY <1>4, <2>2
  <2>6. GoodEntries(<<>>)
    BY DEF GoodEntries
  <2> QED BY <2>1, <2>3, <2>4, <2>5, <2>6 DEF WindowInv
<1>8. ConnInv
  BY <1>5 DEF Init, ConnInv
<1>9. HistoryInv
  BY DEF Init, HistoryInv
<1>10. Shape
  BY <1>2, <1>3, <1>6, <1>7, <1>8, <1>9 DEF Init, Shape
<1>11. TornInv
  BY DEF Init, TornInv
<1>12. ASSUME NEW e \in Ends PROVE EndInv(e)
  <2>0. Other(e) \in Ends
    BY EndFacts
  <2>1. SendOf(e)
    BY <1>2 DEF Init, SendOf, Sending
  <2>2. DataOn(e) = {} /\ AcksOn(e) = {} /\ DataOn(Other(e)) = {} /\ AcksOn(Other(e)) = {}
    BY <2>0 DEF Init, DataOn, AcksOn
  <2>3. StreamOf(e)
    BY <2>2 DEF Init, StreamOf, OrderOf
  <2>4. ArrivalOf(e)
    BY <1>4 DEF Init, ArrivalOf, Arrived
  <2>5. DedupOf(e)
    BY <1>4 DEF Init, DedupOf
  <2>6. AckOf(e)
    BY <1>2, <1>3 DEF Init, AckOf, Sending
  <2>7. ReadOf(e)
    BY <1>3, <1>5 DEF Init, ReadOf
  <2> QED BY <2>1, <2>3, <2>4, <2>5, <2>6, <2>7 DEF EndInv
<1> QED BY <1>10, <1>11, <1>12 DEF Inv

-----------------------------------------------------------------------------
(* The sender *)

\* A step that moves only the sender's program counter, its attempts and what
\* it still has to queue; when it ends well, the message is confirmed.
LEMMA PcStep ==
    ASSUME Inv, NEW e \in Ends,
           snd' \in [Ends -> Senders], \A x \in Ends : x # e => snd'[x] = snd[x],
           snd'[e].seq = snd[e].seq, snd'[e].acked = snd[e].acked,
           Sending(e)' => Sending(e),
           snd'[e].pc = "ready" => snd[e].seq < MaxMsgs[e],
           UNCHANGED <<kind, inc, dataQ, ackQ, air, rasm, rd, conn, faults, sent, known, ever, torn, read>>,
           \/ confirmed' = confirmed
           \/ confirmed' = confirmed \cup {Current(e)} /\ Sending(e) /\ snd'[e].pc = "idle"
    PROVE  Inv'
<1> USE DEF Inv, EndInv
<1>0. /\ Current(e) \in Message /\ Current(e)[1] = e /\ faults \in Nat
      /\ Sending(e) => Current(e) \in sent
  BY CurrentFacts, LimitFacts DEF Shape, SendOf
<1>1. HistoryInv'
  BY <1>0 DEF Shape, HistoryInv
<1>2. QueueInv' /\ WindowInv' /\ ConnInv'
  BY DEF Shape, QueueInv, WindowInv, ConnInv
<1>3. Shape'
  BY <1>1, <1>2 DEF Shape
<1>4. TornInv'
  BY TornFrame
<1>5. ASSUME NEW x \in Ends PROVE EndInv(x)'
  <2>1. StreamOf(x)' /\ ArrivalOf(x)' /\ DedupOf(x)' /\ AckOf(x)'
    <3>1. snd'[x].seq = snd[x].seq /\ (Sending(x)' => Sending(x) /\ snd'[x].acked = snd[x].acked)
      BY DEF Sending
    <3> QED BY <3>1, QuietFrame
  <2>2. ReadOf(x)'
    BY ReadFrame
  <2>3. SendOf(x)'
    <3>1. CASE x # e
      <4>1. Sending(x)' => Sending(x)
        BY <3>1 DEF Sending
      <4>2. \A m \in confirmed' \ confirmed : m[1] # x
        BY <1>0, <3>1
      <4>3. faults' \in Nat /\ faults <= faults'
        BY <1>0
      <4> QED BY <3>1, <4>1, <4>2, <4>3, SendFrame
    <3>2. CASE x = e
      <4>1. Current(e)' = Current(e)
        BY DEF Current
      <4>2. Sending(e)' => Current(e)' \in sent' \ confirmed'
        BY <4>1 DEF SendOf, Sending
      <4> QED BY <3>2, <4>1, <4>2 DEF SendOf
    <3> QED BY <3>1, <3>2
  <2> QED BY <2>1, <2>2, <2>3
<1> QED BY <1>3, <1>4, <1>5

LEMMA WriteKeepsInv ==
    ASSUME Inv, NEW e \in Ends, Write(e) \/ WaitSendReadyFails(e)
    PROVE  Inv'
<1>0. snd \in [Ends -> Senders] /\ snd[e] \in Senders
  BY DEF Inv, Shape
<1>1. PICK pc \in {"idle", "ready"} :
         /\ snd' = [snd EXCEPT ![e].pc = pc]
         /\ pc = "ready" => snd[e].seq < MaxMsgs[e]
  BY DEF Write, WaitSendReadyFails
<1>2. [snd[e] EXCEPT !.pc = pc] \in Senders
  BY <1>0 DEF Senders
<1>3. /\ snd' \in [Ends -> Senders] /\ \A x \in Ends : x # e => snd'[x] = snd[x]
      /\ snd'[e] = [snd[e] EXCEPT !.pc = pc]
  BY <1>0, <1>1, <1>2
<1>4. snd'[e].seq = snd[e].seq /\ snd'[e].acked = snd[e].acked /\ snd'[e].pc = pc
  BY <1>0, <1>3 DEF Senders
<1>5. ~Sending(e)'
  BY <1>4 DEF Sending
<1>6. UNCHANGED <<kind, inc, dataQ, ackQ, air, rasm, rd, conn, faults, sent, known, ever, torn, read, confirmed>>
  BY DEF Write, WaitSendReadyFails, hist
<1> QED BY <1>1, <1>3, <1>4, <1>5, <1>6, PcStep

LEMMA SendEndsKeepsInv ==
    ASSUME Inv, NEW e \in Ends, SendDone(e) \/ SendClosed(e) \/ GiveUp(e)
    PROVE  Inv'
<1>0. snd \in [Ends -> Senders] /\ snd[e] \in Senders
  BY DEF Inv, Shape
<1>1. snd' = [snd EXCEPT ![e].pc = "idle"]
  BY DEF SendDone, SendClosed, GiveUp, Fails
<1>2. [snd[e] EXCEPT !.pc = "idle"] \in Senders
  BY <1>0 DEF Senders
<1>3. /\ snd' \in [Ends -> Senders] /\ \A x \in Ends : x # e => snd'[x] = snd[x]
      /\ snd'[e] = [snd[e] EXCEPT !.pc = "idle"]
  BY <1>0, <1>1, <1>2
<1>4. snd'[e].seq = snd[e].seq /\ snd'[e].acked = snd[e].acked /\ snd'[e].pc = "idle"
  BY <1>0, <1>3 DEF Senders
<1>5. ~Sending(e)'
  BY <1>4 DEF Sending
<1>6. UNCHANGED <<kind, inc, dataQ, ackQ, air, rasm, rd, conn, faults, sent, known, ever, torn, read>>
  BY DEF SendDone, SendClosed, GiveUp, Fails
<1>7. \/ confirmed' = confirmed
      \/ confirmed' = confirmed \cup {Current(e)} /\ Sending(e) /\ snd'[e].pc = "idle"
  BY <1>4 DEF SendDone, SendClosed, GiveUp, Fails, Sending
<1> QED BY <1>3, <1>4, <1>5, <1>6, <1>7, PcStep

LEMMA RetransmitKeepsInv ==
    ASSUME Inv, NEW e \in Ends, Retransmit(e)
    PROVE  Inv'
<1>0. snd \in [Ends -> Senders] /\ snd[e] \in Senders /\ MaxAttempts \in Nat
  BY LimitFacts DEF Inv, Shape
<1> DEFINE n == snd[e].att + 1
           p == Pending(e)
<1>1. n \in 0 .. MaxAttempts /\ p \in SUBSET Fragments
  BY <1>0 DEF Retransmit, Senders, Pending
<1>2. snd' = [snd EXCEPT ![e].pc = "queue", ![e].att = n, ![e].pend = p]
  BY <1>0 DEF Retransmit
<1> HIDE DEF n, p
<1>3. [snd[e] EXCEPT !.pc = "queue", !.att = n, !.pend = p] \in Senders
  BY <1>0, <1>1 DEF Senders
<1>4. /\ snd' \in [Ends -> Senders] /\ \A x \in Ends : x # e => snd'[x] = snd[x]
      /\ snd'[e] = [snd[e] EXCEPT !.pc = "queue", !.att = n, !.pend = p]
  BY <1>0, <1>2, <1>3
<1>5. snd'[e].seq = snd[e].seq /\ snd'[e].acked = snd[e].acked /\ snd'[e].pc = "queue"
  BY <1>0, <1>4 DEF Senders
<1>6. Sending(e)
  BY DEF Retransmit, AckTimeout, Sending
<1>7. UNCHANGED <<kind, inc, dataQ, ackQ, air, rasm, rd, conn, faults, sent, known, ever, torn, read, confirmed>>
  BY DEF Retransmit, hist
<1> QED BY <1>4, <1>5, <1>6, <1>7, PcStep

\* A new message: it comes after everything its end has sent, so nothing that
\* is on its way belongs to it.
LEMMA RegisterKeepsInv ==
    ASSUME Inv, NEW e \in Ends, Register(e)
    PROVE  Inv'
<1> USE DEF Inv, EndInv
<1> DEFINE new == [pc |-> "queue", seq |-> snd[e].seq + 1, att |-> 1, pend |-> Fragments, acked |-> {}]
           m == Msg(e, inc[e], snd[e].seq + 1)
<1>0. /\ snd \in [Ends -> Senders] /\ snd[e] \in Senders /\ snd[e].seq \in Nat /\ inc[e] \in Nat
      /\ MaxAttempts \in Nat \ {0} /\ faults \in Nat /\ MaxMsgs[e] \in Nat
      /\ Current(e) \in Message /\ Current(e)[1] = e /\ Current(e)[2] = inc[e] /\ Current(e)[3] = snd[e].seq
  BY CurrentFacts, LimitFacts DEF Shape
<1>1. new \in Senders /\ new.seq = snd[e].seq + 1 /\ new.pc = "queue" /\ new.acked = {}
  BY <1>0 DEF Senders
<1>2. snd' = [snd EXCEPT ![e] = new] /\ sent' = sent \cup {m}
  BY DEF Register
<1>3. /\ m \in Message /\ m[1] = e /\ m[2] = inc[e] /\ m[3] = snd[e].seq + 1
  BY <1>0, MsgFacts
<1>4. UNCHANGED <<kind, inc, dataQ, ackQ, air, rasm, rd, conn, faults, known, ever, torn, read, confirmed>>
  BY DEF Register
<1> HIDE DEF new, m
<1>5. /\ snd' \in [Ends -> Senders] /\ \A x \in Ends : x # e => snd'[x] = snd[x]
      /\ snd'[e] = new
  BY <1>0, <1>1, <1>2
<1>6. Current(e)' = m
  BY <1>1, <1>4, <1>5 DEF Current, m
<1>7. ASSUME NEW a \in sent, a[1] = e
      PROVE  Precedes(a, m) /\ a # m
  <2>1. a \in Message
    BY DEF Shape, HistoryInv
  <2>2. NotAfter(a, Current(e)) /\ a[2] \in Nat /\ a[3] \in Nat
    BY <1>7, <2>1, MessageFacts DEF SendOf
  <2> QED BY <1>0, <1>3, <2>2 DEF NotAfter, Precedes
<1>8. m \notin sent
  BY <1>3, <1>7
<1>9. Shape'
  <2>1. HistoryInv'
    BY <1>2, <1>3, <1>4 DEF Shape, HistoryInv
  <2>2. QueueInv' /\ WindowInv' /\ ConnInv'
    BY <1>4 DEF Shape, QueueInv, WindowInv, ConnInv
  <2> QED BY <1>4, <1>5, <2>1, <2>2 DEF Shape
<1>10. TornInv'
  <2> SUFFICES ASSUME NEW a \in torn, NEW b \in sent' \ torn, a[1] = b[1]
               PROVE  Precedes(a, b)
    BY <1>4 DEF TornInv
  <2>1. CASE b \in sent
    BY <2>1 DEF TornInv
  <2>2. CASE b = m
    <3>1. a \in sent
      BY DEF Shape, HistoryInv
    <3> QED BY <1>3, <1>7, <2>2, <3>1
  <2> QED BY <1>2, <2>1, <2>2
<1>11. ASSUME NEW x \in Ends
       PROVE  StreamOf(x)' /\ DataOn(x)' = DataOn(x) /\ AcksOn(x)' = AcksOn(x)
  BY <1>2, <1>4, StreamFrame
<1>12. ASSUME NEW x \in Ends
       PROVE  ArrivalOf(x)' /\ DedupOf(x)' /\ ReadOf(x)'
  <2>1. DataOn(Other(x))' = DataOn(Other(x))
    BY <1>11, EndFacts
  <2>2. ArrivalOf(x)'
    BY <1>2, <1>4, <2>1, ArrivalFrame
  <2>3. DedupOf(x)'
    BY <1>4, DedupFrame
  <2>4. ReadOf(x)'
    BY <1>2, <1>4, ReadFrame
  <2> QED BY <2>2, <2>3, <2>4
<1>13. SendOf(e)'
  <2>1. snd[e].seq < MaxMsgs[e]
    BY DEF Register, SendOf
  <2>2. Current(e)' \in sent' \ confirmed'
    <3>1. confirmed \subseteq sent
      BY DEF Shape, HistoryInv
    <3> QED BY <1>2, <1>4, <1>6, <1>8, <3>1
  <2>3. ASSUME NEW a \in sent', a[1] = e
        PROVE  NotAfter(a, m) /\ 1 <= a[3] /\ a[3] <= MaxMsgs[e]
    <3>1. CASE a = m
      BY <1>0, <1>3, <2>1, <3>1 DEF NotAfter
    <3>2. CASE a \in sent
      <4>1. Precedes(a, m)
        BY <1>7, <2>3, <3>2
      <4>2. a \in Message
        BY <3>2 DEF Shape, HistoryInv
      <4>3. NotAfter(a, m)
        BY <1>3, <4>1, <4>2, NotAfterOrder
      <4> QED BY <2>3, <3>2, <4>3 DEF SendOf
    <3> QED BY <1>2, <3>1, <3>2
  <2>4. snd'[e].seq <= MaxMsgs'[e] /\ snd'[e].pc = "queue" /\ inc'[e] <= faults'
    BY <1>0, <1>1, <1>4, <1>5, <2>1 DEF SendOf
  <2> QED BY <1>6, <2>2, <2>3, <2>4 DEF SendOf
<1>14. ASSUME NEW x \in Ends, x # e
       PROVE  SendOf(x)'
  <2>1. Current(x)' = Current(x) /\ (Sending(x)' <=> Sending(x)) /\ snd'[x] = snd[x]
    BY <1>4, <1>5, <1>14 DEF Current, Sending
  <2>2. \A a \in sent' : a[1] = x => a \in sent
    BY <1>2, <1>3, <1>14
  <2> QED BY <1>2, <1>4, <2>1, <2>2 DEF SendOf
<1>15. AckOf(e)'
  <2>1. rd'[e].pc # "idle" => MsgOf(Other(e), rd'[e].frame) \in sent' /\ rd'[e].frame.frag \in Fragments
    BY <1>2, <1>4 DEF AckOf
  <2>2. ASSUME NEW f \in AcksOn(Other(e))'
        PROVE  MsgOf(e, f) # Current(e)'
    <3>1. f \in AcksOn(Other(e)) /\ Other(Other(e)) = e
      BY <1>11, <2>2, EndFacts
    <3>2. MsgOf(e, f) \in sent
      BY <3>1, EndFacts DEF StreamOf
    <3> QED BY <1>6, <1>8, <3>2
  <2>3. rd'[Other(e)].pc # "idle" => MsgOf(e, rd'[Other(e)].frame) # Current(e)'
    <3>1. rd[Other(e)].pc # "idle" => MsgOf(e, rd[Other(e)].frame) \in sent
      BY EndFacts DEF AckOf
    <3> QED BY <1>4, <1>6, <1>8, <3>1
  <2>4. snd'[e].acked = {}
    BY <1>1, <1>5
  <2> QED BY <2>1, <2>2, <2>3, <2>4 DEF AckOf
<1>16. ASSUME NEW x \in Ends, x # e
       PROVE  AckOf(x)'
  <2>1. /\ snd'[x] = snd[x] /\ (Sending(x)' <=> Sending(x))
        /\ AcksOn(Other(x))' = AcksOn(Other(x))
    BY <1>5, <1>11, <1>16, EndFacts DEF Sending
  <2> QED BY <1>2, <1>4, <2>1, AckFrame
<1>17. ASSUME NEW x \in Ends PROVE SendOf(x)' /\ AckOf(x)'
  BY <1>13, <1>14, <1>15, <1>16
<1> QED BY <1>9, <1>10, <1>11, <1>12, <1>17

\* A fragment of the current message enters the queue: nothing that was sent
\* comes after it.
LEMMA QueueFragmentKeepsInv ==
    ASSUME Inv, NEW e \in Ends, QueueFragment(e)
    PROVE  Inv'
<1> USE DEF Inv, EndInv
<1>0. /\ snd \in [Ends -> Senders] /\ snd[e] \in Senders /\ snd[e].seq \in Nat /\ inc[e] \in Nat
      /\ faults \in Nat /\ DataCap \in Nat /\ Frags \in Nat
      /\ Current(e) \in Message /\ Current(e)[1] = e /\ Current(e)[2] = inc[e] /\ Current(e)[3] = snd[e].seq
  BY CurrentFacts, LimitFacts DEF Shape
<1>1. PICK i \in snd[e].pend :
         /\ Len(dataQ[e]) < DataCap
         /\ dataQ' = [dataQ EXCEPT ![e] = Append(@, EncodeData(e, i))]
         /\ snd' = [snd EXCEPT ![e].pend = @ \ {i},
                               ![e].pc = IF snd[e].pend = {i} THEN "await" ELSE "queue"]
  BY DEF QueueFragment, Enqueue
<1> DEFINE f == EncodeData(e, i)
           p == snd[e].pend \ {i}
           c == IF snd[e].pend = {i} THEN "await" ELSE "queue"
<1>2. i \in Fragments /\ p \in SUBSET Fragments /\ c \in {"queue", "await"}
  BY <1>0 DEF Senders
<1>3. f \in Frame /\ f.type = "data" /\ MsgOf(e, f) = Current(e) /\ f.frag \in Fragments
  BY <1>0, <1>2 DEF Frame, EncodeData, MsgOf, Current, Fragments
<1>4. snd' = [snd EXCEPT ![e].pend = p, ![e].pc = c] /\ dataQ' = [dataQ EXCEPT ![e] = Append(@, f)]
  BY <1>0, <1>1
<1> HIDE DEF f, p, c
<1>5. [snd[e] EXCEPT !.pend = p, !.pc = c] \in Senders
  BY <1>0, <1>2 DEF Senders
<1>6. /\ snd' \in [Ends -> Senders] /\ \A x \in Ends : x # e => snd'[x] = snd[x]
      /\ snd'[e] = [snd[e] EXCEPT !.pend = p, !.pc = c]
  BY <1>0, <1>4, <1>5
<1>7. snd'[e].seq = snd[e].seq /\ snd'[e].acked = snd[e].acked /\ snd'[e].pc = c
  BY <1>0, <1>6 DEF Senders
<1>8. Sending(e) /\ Sending(e)'
  BY <1>2, <1>7 DEF QueueFragment, Sending
<1>9. UNCHANGED <<kind, inc, ackQ, air, rasm, rd, conn, faults, sent, known, ever, torn, confirmed, read>>
  BY DEF QueueFragment, hist
<1>10. /\ dataQ \in [Ends -> Seq(Frame)] /\ dataQ[e] \in Seq(Frame) /\ air[e] \in Seq(Frame)
       /\ dataQ'[e] = Append(dataQ[e], f) /\ \A x \in Ends : x # e => dataQ'[x] = dataQ[x]
  BY <1>4 DEF Shape, QueueInv
<1>11. /\ dataQ'[e] \in Seq(Frame) /\ Len(dataQ'[e]) = Len(dataQ[e]) + 1 /\ Len(dataQ[e]) \in Nat
       /\ DOMAIN dataQ[e] = 1 .. Len(dataQ[e]) /\ DOMAIN dataQ'[e] = 1 .. (Len(dataQ[e]) + 1)
       /\ \A j \in DOMAIN dataQ[e] : dataQ'[e][j] = dataQ[e][j]
       /\ dataQ'[e][Len(dataQ[e]) + 1] = f
  BY <1>3, <1>10, AppendFacts
<1>12. Shape'
  <2>1. HistoryInv' /\ WindowInv' /\ ConnInv'
    BY <1>9 DEF Shape, HistoryInv, WindowInv, ConnInv
  <2>2. Len(dataQ'[e]) <= DataCap
    BY <1>0, <1>1, <1>11
  <2>3. dataQ' \in [Ends -> Seq(Frame)]
    BY <1>4, <1>10, <1>11
  <2>4. QueueInv'
    BY <1>9, <1>10, <2>2, <2>3 DEF Shape, QueueInv
  <2> QED BY <1>6, <1>9, <2>1, <2>4 DEF Shape
<1>13. TornInv'
  BY <1>9, TornFrame
<1>14. /\ DataOn(e)' \subseteq DataOn(e) \cup {f}
       /\ AcksOn(e)' = AcksOn(e)
  <2>1. AcksOn(e)' = AcksOn(e)
    BY <1>9 DEF AcksOn
  <2>2. ASSUME NEW j \in DOMAIN dataQ'[e] PROVE dataQ'[e][j] \in DataOn(e) \cup {f}
    BY <1>11, <2>2 DEF DataOn
  <2> QED BY <1>9, <2>1, <2>2 DEF DataOn
<1>15. Current(e) \in sent /\ \A g \in DataOn(e) : NotAfter(MsgOf(e, g), Current(e))
  <2>1. Current(e) \in sent
    BY <1>8 DEF SendOf
  <2>2. ASSUME NEW g \in DataOn(e) PROVE NotAfter(MsgOf(e, g), Current(e))
    <3>1. MsgOf(e, g) \in sent /\ MsgOf(e, g)[1] = e
      BY <2>2 DEF StreamOf, MsgOf, Msg
    <3> QED BY <3>1 DEF SendOf
  <2> QED BY <2>1, <2>2
<1>16. StreamOf(e)'
  <2>1. \A j \in DOMAIN dataQ'[e] : dataQ'[e][j].type = "data"
    <3> SUFFICES ASSUME NEW j \in DOMAIN dataQ'[e] PROVE dataQ'[e][j].type = "data"
      OBVIOUS
    <3>1. j \in DOMAIN dataQ[e] \/ j = Len(dataQ[e]) + 1
      BY <1>11
    <3> QED BY <1>3, <1>11, <3>1 DEF StreamOf
  <2>2. \A g \in DataOn(e)' : MsgOf(e, g) \in sent' /\ g.frag \in Fragments
    BY <1>3, <1>9, <1>14, <1>15 DEF StreamOf
  <2>3. \A g \in AcksOn(e)' : MsgOf(Other(e), g) \in sent' /\ g.frag \in Fragments
    BY <1>9, <1>14 DEF StreamOf
  <2>4. OrderOf(e)'
    <3>1. ASSUME NEW a \in DOMAIN dataQ'[e], NEW b \in DOMAIN dataQ'[e], a < b
          PROVE  NotAfter(MsgOf(e, dataQ'[e][a]), MsgOf(e, dataQ'[e][b]))
      <4>1. CASE b \in DOMAIN dataQ[e]
        <5>1. a \in DOMAIN dataQ[e]
          BY <1>11, <3>1, <4>1
        <5> QED BY <1>11, <3>1, <4>1, <5>1 DEF StreamOf, OrderOf
      <4>2. CASE b = Len(dataQ[e]) + 1
        <5>1. a \in DOMAIN dataQ[e]
          BY <1>11, <3>1, <4>2
        <5>2. dataQ[e][a] \in DataOn(e)
          BY <5>1 DEF DataOn
        <5> QED BY <1>3, <1>11, <1>15, <4>2, <5>1, <5>2
      <4> QED BY <1>11, <4>1, <4>2
    <3>2. ASSUME NEW a \in DOMAIN air[e], air[e][a].type = "data", NEW b \in DOMAIN dataQ'[e]
          PROVE  NotAfter(MsgOf(e, air[e][a]), MsgOf(e, dataQ'[e][b]))
      <4>1. CASE b \in DOMAIN dataQ[e]
        BY <1>11, <3>2, <4>1 DEF StreamOf, OrderOf
      <4>2. CASE b = Len(dataQ[e]) + 1
        <5>1. air[e][a] \in DataOn(e)
          BY <3>2 DEF DataOn
        <5> QED BY <1>3, <1>11, <1>15, <4>2, <5>1
      <4> QED BY <1>11, <4>1, <4>2
    <3>3. \A a, b \in DOMAIN air[e] : a < b /\ air[e][a].type = "data" /\ air[e][b].type = "data"
             => NotAfter(MsgOf(e, air[e][a]), MsgOf(e, air[e][b]))
      BY DEF StreamOf, OrderOf
    <3> QED BY <1>9, <3>1, <3>2, <3>3 DEF OrderOf
  <2>5. \A j \in DOMAIN ackQ'[e] : ackQ'[e][j].type = "ack"
    BY <1>9 DEF StreamOf
  <2> QED BY <2>1, <2>2, <2>3, <2>4, <2>5 DEF StreamOf
<1>17. ASSUME NEW x \in Ends, x # e
       PROVE  StreamOf(x)' /\ DataOn(x)' = DataOn(x) /\ AcksOn(x)' = AcksOn(x)
  BY <1>9, <1>10, <1>17, StreamFrame
<1>18. ASSUME NEW x \in Ends
       PROVE  SendOf(x)' /\ DedupOf(x)' /\ ReadOf(x)' /\ AckOf(x)'
  <2>1. /\ snd'[x].seq = snd[x].seq /\ snd'[x].acked = snd[x].acked
        /\ Sending(x)' => Sending(x)
        /\ snd'[x].pc = "ready" => snd[x].pc = "ready"
    BY <1>2, <1>6, <1>7, <1>8 DEF Sending
  <2>2. AcksOn(Other(x))' = AcksOn(Other(x))
    BY <1>14, <1>17, EndFacts
  <2>3. SendOf(x)'
    BY <1>0, <1>9, <2>1, SendFrame
  <2>4. DedupOf(x)'
    BY <1>9, DedupFrame
  <2>5. ReadOf(x)'
    BY <1>9, ReadFrame
  <2>6. AckOf(x)'
    BY <1>9, <2>1, <2>2, AckFrame
  <2> QED BY <2>3, <2>4, <2>5, <2>6
<1>19. ArrivalOf(e)'
  BY <1>9, <1>17, EndFacts, ArrivalFrame
<1>20. ASSUME NEW x \in Ends, x # e
       PROVE  ArrivalOf(x)'
  <2>1. Other(x) = e /\ Arrived(x)' = Arrived(x)
    BY <1>9, <1>20, EndFacts DEF Arrived
  <2>2. ASSUME NEW m \in Arrived(x), NEW g \in DataOn(e)' PROVE NotAfter(m, MsgOf(e, g))
    <3>1. CASE g \in DataOn(e)
      BY <2>1, <2>2, <3>1 DEF ArrivalOf
    <3>2. CASE g = f
      <4>1. m \in sent /\ m[1] = e
        BY <2>1, <2>2 DEF ArrivalOf
      <4> QED BY <1>3, <3>2, <4>1 DEF SendOf
    <3> QED BY <1>14, <3>1, <3>2
  <2> QED BY <1>9, <2>1, <2>2 DEF ArrivalOf
<1> QED BY <1>12, <1>13, <1>16, <1>17, <1>18, <1>19, <1>20

-----------------------------------------------------------------------------
(* The writer and the track *)

\* A step that moves frames of end d along, or loses them.
FlightKept(d) ==
    /\ StreamOf(d)' /\ DataOn(d)' \subseteq DataOn(d) /\ AcksOn(d)' \subseteq AcksOn(d)
    /\ QueueInv'
    /\ \A x \in Ends : x # d => dataQ'[x] = dataQ[x] /\ ackQ'[x] = ackQ[x] /\ air'[x] = air[x]

LEMMA FlightStreams ==
    ASSUME Inv, NEW d \in Ends, FlightKept(d), sent \subseteq sent'
    PROVE  \A x \in Ends : /\ StreamOf(x)' /\ DataOn(x)' \subseteq DataOn(x)
                           /\ AcksOn(x)' \subseteq AcksOn(x)
<1> SUFFICES ASSUME NEW x \in Ends
             PROVE  StreamOf(x)' /\ DataOn(x)' \subseteq DataOn(x) /\ AcksOn(x)' \subseteq AcksOn(x)
  OBVIOUS
<1>1. CASE x = d
  BY <1>1 DEF FlightKept
<1>2. CASE x # d
  BY <1>2, StreamFrame DEF FlightKept, Inv, EndInv
<1> QED BY <1>1, <1>2

LEMMA FlightStep ==
    ASSUME Inv, NEW d \in Ends, FlightKept(d),
           UNCHANGED <<kind, snd, inc, rasm, rd, conn, faults, sent, known, ever, torn, confirmed, read>>
    PROVE  Inv'
<1> USE DEF Inv, EndInv
<1>1. Shape'
  BY DEF FlightKept, Shape, WindowInv, ConnInv, HistoryInv
<1>2. TornInv'
  BY TornFrame
<1>3. \A x \in Ends : StreamOf(x)' /\ DataOn(x)' \subseteq DataOn(x) /\ AcksOn(x)' \subseteq AcksOn(x)
  BY FlightStreams
<1>4. ASSUME NEW x \in Ends PROVE EndInv(x)'
  <2>1. Other(x) \in Ends /\ faults \in Nat /\ (Sending(x)' <=> Sending(x))
    BY EndFacts, LimitFacts DEF Shape, Sending
  <2>2. DataOn(Other(x))' \subseteq DataOn(Other(x)) /\ AcksOn(Other(x))' \subseteq AcksOn(Other(x))
    BY <1>3, <2>1
  <2>3. SendOf(x)'
    BY <2>1, SendFrame
  <2>4. ArrivalOf(x)' /\ DedupOf(x)' /\ ReadOf(x)'
    BY <2>2, ArrivalFrame, DedupFrame, ReadFrame
  <2>5. AckOf(x)'
    BY <2>1, <2>2, AckFrame
  <2> QED BY <1>3, <2>3, <2>4, <2>5
<1> QED BY <1>1, <1>2, <1>4

\* The reader takes the frame at the head of the track.
LEMMA TakeKeepsFlight ==
    ASSUME Inv, NEW d \in Ends, air[d] # <<>>, air' = [air EXCEPT ![d] = Tail(@)],
           UNCHANGED <<dataQ, ackQ>>, sent \subseteq sent'
    PROVE  FlightKept(d)
<1> USE DEF Inv, EndInv
<1>0. /\ air \in [Ends -> Seq(Frame)] /\ air[d] \in Seq(Frame) /\ air'[d] = Tail(air[d])
      /\ \A x \in Ends : x # d => air'[x] = air[x]
  BY DEF Shape, QueueInv
<1>1. /\ air'[d] \in Seq(Frame) /\ Len(air'[d]) = Len(air[d]) - 1 /\ Len(air[d]) \in Nat \ {0}
      /\ DOMAIN air[d] = 1 .. Len(air[d]) /\ DOMAIN air'[d] = 1 .. (Len(air[d]) - 1)
      /\ \A i \in DOMAIN air'[d] : i + 1 \in DOMAIN air[d] /\ air'[d][i] = air[d][i + 1]
  BY <1>0, TailFacts
<1>2. QueueInv'
  <2>1. air' \in [Ends -> Seq(Frame)]
    BY <1>0, <1>1
  <2>2. Len(air'[d]) <= AirCap
    BY <1>1, LimitFacts DEF Shape, QueueInv
  <2> QED BY <1>0, <2>1, <2>2 DEF Shape, QueueInv
<1>3. DataOn(d)' \subseteq DataOn(d) /\ AcksOn(d)' \subseteq AcksOn(d)
  BY <1>1 DEF DataOn, AcksOn
<1>4. OrderOf(d)'
  <2>1. ASSUME NEW i \in DOMAIN air'[d], air'[d][i].type = "data",
               NEW j \in DOMAIN air'[d], i < j, air'[d][j].type = "data"
        PROVE  NotAfter(MsgOf(d, air'[d][i]), MsgOf(d, air'[d][j]))
    <3>1. i + 1 < j + 1 /\ i + 1 \in DOMAIN air[d] /\ j + 1 \in DOMAIN air[d]
      BY <1>1, <2>1
    <3> QED BY <1>1, <2>1, <3>1 DEF StreamOf, OrderOf
  <2>2. ASSUME NEW i \in DOMAIN air'[d], air'[d][i].type = "data", NEW j \in DOMAIN dataQ[d]
        PROVE  NotAfter(MsgOf(d, air'[d][i]), MsgOf(d, dataQ[d][j]))
    BY <1>1, <2>2 DEF StreamOf, OrderOf
  <2>3. \A i, j \in DOMAIN dataQ[d] : i < j => NotAfter(MsgOf(d, dataQ[d][i]), MsgOf(d, dataQ[d][j]))
    BY DEF StreamOf, OrderOf
  <2> QED BY <2>1, <2>2, <2>3 DEF OrderOf
<1>5. StreamOf(d)'
  BY <1>3, <1>4 DEF StreamOf
<1> QED BY <1>0, <1>2, <1>3, <1>5 DEF FlightKept

\* A frame without data leaves the queue of acknowledgements, or a hello is written.
LEMMA AppendPlainKeepsFlight ==
    ASSUME Inv, NEW d \in Ends, NEW f \in Frame, f.type # "data", Len(air[d]) < AirCap,
           air' = [air EXCEPT ![d] = Append(@, f)], UNCHANGED dataQ,
           \/ f.type # "ack" /\ ackQ' = ackQ
           \/ ackQ[d] # <<>> /\ f = Head(ackQ[d]) /\ ackQ' = [ackQ EXCEPT ![d] = Tail(@)],
           UNCHANGED sent
    PROVE  FlightKept(d)
<1> USE DEF Inv, EndInv
<1>0. /\ air \in [Ends -> Seq(Frame)] /\ air[d] \in Seq(Frame) /\ air'[d] = Append(air[d], f)
      /\ ackQ \in [Ends -> Seq(Frame)] /\ ackQ[d] \in Seq(Frame)
      /\ \A x \in Ends : x # d => air'[x] = air[x] /\ ackQ'[x] = ackQ[x]
      /\ AirCap \in Nat
  BY LimitFacts DEF Shape, QueueInv
<1>1. /\ air'[d] \in Seq(Frame) /\ Len(air'[d]) = Len(air[d]) + 1 /\ Len(air[d]) \in Nat
      /\ DOMAIN air[d] = 1 .. Len(air[d]) /\ DOMAIN air'[d] = 1 .. (Len(air[d]) + 1)
      /\ \A i \in DOMAIN air[d] : air'[d][i] = air[d][i]
      /\ air'[d][Len(air[d]) + 1] = f
  BY <1>0, AppendFacts
<1>2. \A i \in DOMAIN air'[d] : \/ i \in DOMAIN air[d] /\ air'[d][i] = air[d][i]
                                \/ air'[d][i] = f
  BY <1>1
<1>3. /\ ackQ' \in [Ends -> Seq(Frame)] /\ Len(ackQ'[d]) <= Len(ackQ[d])
      /\ \A j \in DOMAIN ackQ'[d] : \E i \in DOMAIN ackQ[d] : ackQ'[d][j] = ackQ[d][i]
      /\ f.type = "ack" => \E i \in DOMAIN ackQ[d] : f = ackQ[d][i]
  <2>1. CASE ackQ' = ackQ /\ f.type # "ack"
    <3>1. Len(ackQ[d]) \in Nat
      BY <1>0
    <3> QED BY <1>0, <2>1, <3>1
  <2>2. CASE ackQ[d] # <<>> /\ f = Head(ackQ[d]) /\ ackQ' = [ackQ EXCEPT ![d] = Tail(@)]
    <3>1. /\ ackQ'[d] = Tail(ackQ[d]) /\ Tail(ackQ[d]) \in Seq(Frame)
          /\ Len(Tail(ackQ[d])) = Len(ackQ[d]) - 1 /\ Len(ackQ[d]) \in Nat
          /\ Head(ackQ[d]) = ackQ[d][1] /\ 1 \in DOMAIN ackQ[d]
          /\ \A i \in DOMAIN Tail(ackQ[d]) : i + 1 \in DOMAIN ackQ[d] /\ Tail(ackQ[d])[i] = ackQ[d][i + 1]
      BY <1>0, <2>2, TailFacts
    <3>2. ackQ' \in [Ends -> Seq(Frame)]
      BY <1>0, <2>2, <3>1
    <3>3. Len(ackQ'[d]) <= Len(ackQ[d])
      BY <3>1
    <3> QED BY <2>2, <3>1, <3>2, <3>3
  <2> QED BY <2>1, <2>2
<1>4. QueueInv'
  <2>1. air' \in [Ends -> Seq(Frame)]
    BY <1>0, <1>1
  <2>2. Len(air'[d]) <= AirCap
    BY <1>0, <1>1
  <2>3. Len(ackQ'[d]) <= AckCap
    <3>1. Len(ackQ'[d]) \in Nat /\ Len(ackQ[d]) \in Nat /\ Len(ackQ[d]) <= AckCap /\ AckCap \in Nat
      BY <1>0, <1>3, LimitFacts DEF Shape, QueueInv
    <3> QED BY <1>3, <3>1
  <2> QED BY <1>0, <1>3, <2>1, <2>2, <2>3 DEF Shape, QueueInv
<1>5. DataOn(d)' \subseteq DataOn(d)
  BY <1>2 DEF DataOn
<1>6. AcksOn(d)' \subseteq AcksOn(d)
  <2>1. ASSUME NEW j \in DOMAIN ackQ'[d] PROVE ackQ'[d][j] \in AcksOn(d)
    BY <1>3, <2>1 DEF AcksOn
  <2>2. ASSUME NEW j \in DOMAIN air'[d], air'[d][j].type = "ack" PROVE air'[d][j] \in AcksOn(d)
    BY <1>2, <1>3, <2>2 DEF AcksOn
  <2> QED BY <2>1, <2>2 DEF AcksOn
<1>7. OrderOf(d)'
  <2>1. ASSUME NEW i \in DOMAIN air'[d], air'[d][i].type = "data"
        PROVE  i \in DOMAIN air[d] /\ air'[d][i] = air[d][i]
    BY <1>2, <2>1
  <2> QED BY <2>1 DEF StreamOf, OrderOf
<1>8. \A j \in DOMAIN ackQ'[d] : ackQ'[d][j].type = "ack"
  BY <1>3 DEF StreamOf
<1>9. StreamOf(d)'
  BY <1>5, <1>6, <1>7, <1>8 DEF StreamOf
<1> QED BY <1>0, <1>4, <1>5, <1>6, <1>9 DEF FlightKept

\* The network loses an acknowledgement.
LEMMA LoseAckKeepsFlight ==
    ASSUME Inv, NEW d \in Ends, ackQ[d] # <<>>, ackQ' = [ackQ EXCEPT ![d] = Tail(@)],
           UNCHANGED <<dataQ, air, sent>>
    PROVE  FlightKept(d)
<1> USE DEF Inv, EndInv
<1>0. /\ ackQ \in [Ends -> Seq(Frame)] /\ ackQ[d] \in Seq(Frame) /\ ackQ'[d] = Tail(ackQ[d])
      /\ \A x \in Ends : x # d => ackQ'[x] = ackQ[x]
      /\ AckCap \in Nat /\ Len(ackQ[d]) <= AckCap
  BY LimitFacts DEF Shape, QueueInv
<1>1. /\ ackQ'[d] \in Seq(Frame) /\ Len(ackQ'[d]) = Len(ackQ[d]) - 1 /\ Len(ackQ[d]) \in Nat
      /\ \A i \in DOMAIN ackQ'[d] : i + 1 \in DOMAIN ackQ[d] /\ ackQ'[d][i] = ackQ[d][i + 1]
  BY <1>0, TailFacts
<1>2. QueueInv'
  <2>1. ackQ' \in [Ends -> Seq(Frame)] /\ Len(ackQ'[d]) <= AckCap
    BY <1>0, <1>1
  <2> QED BY <1>0, <2>1 DEF Shape, QueueInv
<1>3. DataOn(d)' = DataOn(d) /\ AcksOn(d)' \subseteq AcksOn(d)
  BY <1>1 DEF DataOn, AcksOn
<1>4. OrderOf(d)' /\ \A j \in DOMAIN ackQ'[d] : ackQ'[d][j].type = "ack"
  BY <1>1 DEF StreamOf, OrderOf
<1>5. StreamOf(d)'
  BY <1>3, <1>4 DEF StreamOf
<1> QED BY <1>0, <1>2, <1>3, <1>5 DEF FlightKept

\* A fragment leaves the queue for the track, or is lost on the way.
LEMMA EmitDataKeepsFlight ==
    ASSUME Inv, NEW d \in Ends, dataQ[d] # <<>>, dataQ' = [dataQ EXCEPT ![d] = Tail(@)],
           \/ air' = air
           \/ Len(air[d]) < AirCap /\ air' = [air EXCEPT ![d] = Append(@, Head(dataQ[d]))],
           UNCHANGED <<ackQ, sent>>
    PROVE  FlightKept(d)
<1> USE DEF Inv, EndInv
<1> DEFINE f == Head(dataQ[d])
<1>0. /\ dataQ \in [Ends -> Seq(Frame)] /\ dataQ[d] \in Seq(Frame) /\ dataQ'[d] = Tail(dataQ[d])
      /\ air \in [Ends -> Seq(Frame)] /\ air[d] \in Seq(Frame)
      /\ \A x \in Ends : x # d => dataQ'[x] = dataQ[x] /\ air'[x] = air[x]
      /\ DataCap \in Nat /\ Len(dataQ[d]) <= DataCap /\ AirCap \in Nat /\ Len(air[d]) <= AirCap
  BY LimitFacts DEF Shape, QueueInv
<1>1. /\ dataQ'[d] \in Seq(Frame) /\ Len(dataQ'[d]) = Len(dataQ[d]) - 1 /\ Len(dataQ[d]) \in Nat \ {0}
      /\ DOMAIN dataQ[d] = 1 .. Len(dataQ[d]) /\ DOMAIN dataQ'[d] = 1 .. (Len(dataQ[d]) - 1)
      /\ f = dataQ[d][1] /\ f \in Frame /\ 1 \in DOMAIN dataQ[d]
      /\ \A i \in DOMAIN dataQ'[d] : i + 1 \in DOMAIN dataQ[d] /\ dataQ'[d][i] = dataQ[d][i + 1]
  BY <1>0, TailFacts
<1> HIDE DEF f
<1>2. f.type = "data" /\ f \in DataOn(d)
  BY <1>1 DEF StreamOf, DataOn
<1>3. /\ air' \in [Ends -> Seq(Frame)] /\ Len(air'[d]) <= AirCap
      /\ DOMAIN air[d] = 1 .. Len(air[d]) /\ Len(air[d]) \in Nat
      /\ \A i \in DOMAIN air'[d] : \/ i \in DOMAIN air[d] /\ air'[d][i] = air[d][i]
                                   \/ i = Len(air[d]) + 1 /\ air'[d][i] = f
  <2>1. CASE air' = air
    BY <1>0, <2>1
  <2>2. CASE Len(air[d]) < AirCap /\ air' = [air EXCEPT ![d] = Append(@, f)]
    <3>1. air'[d] = Append(air[d], f)
      BY <1>0, <2>2
    <3>2. /\ air'[d] \in Seq(Frame) /\ Len(air'[d]) = Len(air[d]) + 1 /\ Len(air[d]) \in Nat
          /\ DOMAIN air[d] = 1 .. Len(air[d]) /\ DOMAIN air'[d] = 1 .. (Len(air[d]) + 1)
          /\ \A i \in DOMAIN air[d] : air'[d][i] = air[d][i]
          /\ air'[d][Len(air[d]) + 1] = f
      BY <1>0, <1>1, <3>1, AppendFacts
    <3>3. air' \in [Ends -> Seq(Frame)]
      BY <1>0, <1>1, <2>2
    <3>4. Len(air'[d]) <= AirCap
      <4>1. Len(air[d]) < AirCap /\ AirCap \in Nat
        BY <1>0, <2>2
      <4>2. Len(air[d]) \in Nat /\ Len(air'[d]) = Len(air[d]) + 1
        BY <3>2
      <4> QED BY ONLY <4>1, <4>2, SMT
    <3> QED BY <3>2, <3>3, <3>4
  <2> QED BY <2>1, <2>2 DEF f
<1>4. QueueInv'
  <2>1. dataQ' \in [Ends -> Seq(Frame)] /\ Len(dataQ'[d]) <= DataCap
    BY <1>0, <1>1
  <2> QED BY <1>0, <1>3, <2>1 DEF Shape, QueueInv
<1>5. DataOn(d)' \subseteq DataOn(d)
  <2>1. ASSUME NEW j \in DOMAIN dataQ'[d] PROVE dataQ'[d][j] \in DataOn(d)
    BY <1>1, <2>1 DEF DataOn
  <2>2. ASSUME NEW j \in DOMAIN air'[d], air'[d][j].type = "data" PROVE air'[d][j] \in DataOn(d)
    BY <1>2, <1>3, <2>2 DEF DataOn
  <2> QED BY <2>1, <2>2 DEF DataOn
<1>6. AcksOn(d)' \subseteq AcksOn(d)
  BY <1>2, <1>3 DEF AcksOn
<1>7. OrderOf(d)'
  <2>1. ASSUME NEW i \in DOMAIN dataQ'[d], NEW j \in DOMAIN dataQ'[d], i < j
        PROVE  NotAfter(MsgOf(d, dataQ'[d][i]), MsgOf(d, dataQ'[d][j]))
    <3>1. i + 1 < j + 1 /\ i + 1 \in DOMAIN dataQ[d] /\ j + 1 \in DOMAIN dataQ[d]
      BY <1>1, <2>1
    <3> QED BY <1>1, <3>1 DEF StreamOf, OrderOf
  <2>2. ASSUME NEW i \in DOMAIN air'[d], air'[d][i].type = "data", NEW j \in DOMAIN dataQ'[d]
        PROVE  NotAfter(MsgOf(d, air'[d][i]), MsgOf(d, dataQ'[d][j]))
    <3>1. j + 1 \in DOMAIN dataQ[d] /\ 1 < j + 1 /\ dataQ'[d][j] = dataQ[d][j + 1]
      BY <1>1
    <3>2. CASE i \in DOMAIN air[d] /\ air'[d][i] = air[d][i]
      BY <2>2, <3>1, <3>2 DEF StreamOf, OrderOf
    <3>3. CASE air'[d][i] = f
      BY <1>1, <3>1, <3>3 DEF StreamOf, OrderOf
    <3> QED BY <1>3, <3>2, <3>3
  <2>3. ASSUME NEW i \in DOMAIN air'[d], air'[d][i].type = "data",
               NEW j \in DOMAIN air'[d], i < j, air'[d][j].type = "data"
        PROVE  NotAfter(MsgOf(d, air'[d][i]), MsgOf(d, air'[d][j]))
    <3>1. i \in DOMAIN air[d] /\ air'[d][i] = air[d][i]
      <4>1. CASE j \in DOMAIN air[d]
        <5>1. i # Len(air[d]) + 1
          BY <1>3, <2>3, <4>1
        <5> QED BY <1>3, <5>1
      <4>2. CASE j = Len(air[d]) + 1
        <5>1. i # Len(air[d]) + 1
          BY <1>3, <2>3, <4>2
        <5> QED BY <1>3, <5>1
      <4> QED BY <1>3, <4>1, <4>2
    <3>2. CASE j \in DOMAIN air[d] /\ air'[d][j] = air[d][j]
      BY <2>3, <3>1, <3>2 DEF StreamOf, OrderOf
    <3>3. CASE air'[d][j] = f
      BY <1>1, <2>3, <3>1, <3>3 DEF StreamOf, OrderOf
    <3> QED BY <1>3, <3>2, <3>3
  <2> QED BY <2>1, <2>2, <2>3 DEF OrderOf
<1>8. \A j \in DOMAIN dataQ'[d] : dataQ'[d][j].type = "data"
  BY <1>1 DEF StreamOf
<1>9. StreamOf(d)'
  BY <1>5, <1>6, <1>7, <1>8 DEF StreamOf
<1> QED BY <1>0, <1>4, <1>5, <1>6, <1>9 DEF FlightKept

LEMMA WriterKeepsInv ==
    ASSUME Inv, NEW e \in Ends, WriterStep(e)
    PROVE  Inv'
<1>1. NextFrame(e) /\ UNCHANGED <<kind, snd, inc, rasm, rd, conn, faults, hist>>
  BY DEF WriterStep, WriteBatch, WriteVisual
<1>2. UNCHANGED <<sent, known, ever, torn, confirmed, read>>
  BY <1>1 DEF hist
<1>3. FlightKept(e)
  <2>1. CASE ackQ[e] # <<>> /\ Emit(e, Head(ackQ[e])) /\ ackQ' = [ackQ EXCEPT ![e] = Tail(@)] /\ UNCHANGED dataQ
    <3>1. CASE UNCHANGED air
      BY <1>2, <2>1, <3>1, LoseAckKeepsFlight
    <3>2. CASE Len(air[e]) < AirCap /\ air' = [air EXCEPT ![e] = Append(@, Head(ackQ[e]))]
      <4>1. ackQ[e] \in Seq(Frame)
        BY DEF Inv, Shape, QueueInv
      <4>2. Head(ackQ[e]) \in Frame /\ Head(ackQ[e]) = ackQ[e][1] /\ 1 \in DOMAIN ackQ[e]
        BY <2>1, <4>1, TailFacts
      <4>3. Head(ackQ[e]).type = "ack"
        BY <4>2 DEF Inv, EndInv, StreamOf
      <4> QED BY <1>2, <2>1, <3>2, <4>2, <4>3, AppendPlainKeepsFlight
    <3> QED BY <2>1, <3>1, <3>2 DEF Emit
  <2>2. CASE dataQ[e] # <<>> /\ Emit(e, Head(dataQ[e])) /\ dataQ' = [dataQ EXCEPT ![e] = Tail(@)] /\ UNCHANGED ackQ
    <3>1. \/ air' = air
          \/ Len(air[e]) < AirCap /\ air' = [air EXCEPT ![e] = Append(@, Head(dataQ[e]))]
      BY <2>2 DEF Emit
    <3> QED BY <1>2, <2>2, <3>1, EmitDataKeepsFlight
  <2> QED BY <1>1, <2>1, <2>2 DEF NextFrame
<1> QED BY <1>1, <1>2, <1>3, FlightStep

LEMMA WriteHelloKeepsInv ==
    ASSUME Inv, NEW e \in Ends, WriteHello(e)
    PROVE  Inv'
<1>1. EncodeHello \in Frame /\ EncodeHello.type = "hello"
  BY LimitFacts DEF EncodeHello, NoFrame, Frame
<1>2. /\ UNCHANGED <<kind, snd, inc, dataQ, ackQ, rasm, rd, conn, faults>>
      /\ UNCHANGED <<sent, known, ever, torn, confirmed, read>>
      /\ air[e] = <<>> /\ air' = [air EXCEPT ![e] = <<EncodeHello>>]
  BY DEF WriteHello, hist
<1>3. Append(<<>>, EncodeHello) = <<EncodeHello>> /\ Len(<<>>) < AirCap
  BY LimitFacts
<1>4. air' = [air EXCEPT ![e] = Append(@, EncodeHello)] /\ Len(air[e]) < AirCap
  BY <1>2, <1>3
<1>5. FlightKept(e)
  BY <1>1, <1>2, <1>4, AppendPlainKeepsFlight
<1> QED BY <1>2, <1>5, FlightStep

\* Frames that the reader drops, or whose checksum fails.
LEMMA DropKeepsInv ==
    ASSUME Inv, NEW e \in Ends, HandleDamaged(e) \/ DropFrame(e)
    PROVE  Inv'
<1>1. TakeFrame(e) /\ UNCHANGED <<snd, rasm, rd, hist>>
  BY DEF HandleDamaged, DropFrame
<1>2. /\ air[Other(e)] # <<>> /\ air' = [air EXCEPT ![Other(e)] = Tail(@)]
      /\ UNCHANGED <<kind, snd, inc, dataQ, ackQ, rasm, rd, conn, faults>>
      /\ UNCHANGED <<sent, known, ever, torn, confirmed, read>>
  BY <1>1 DEF TakeFrame, hist
<1>3. Other(e) \in Ends
  BY EndFacts
<1>4. FlightKept(Other(e))
  BY <1>2, <1>3, TakeKeepsFlight
<1> QED BY <1>2, <1>3, <1>4, FlightStep

-----------------------------------------------------------------------------
(* The conn above *)

\* A step that changes conn, what was read and the reader's progress of one end.
LEMMA ConnStep ==
    ASSUME Inv, NEW e \in Ends, ConnInv', rd' \in [Ends -> Readers], read' \in [Ends -> Seq(Message)],
           ReadOf(e)', \A x \in Ends : x # e => conn'[x] = conn[x] /\ read'[x] = read[x] /\ rd'[x] = rd[x],
           rd'[e].pc # "idle" => rd[e].pc # "idle" /\ rd'[e].frame = rd[e].frame,
           faults' \in 0 .. MaxFaults, faults <= faults',
           UNCHANGED <<kind, snd, inc, dataQ, ackQ, air, rasm, sent, known, ever, torn, confirmed>>
    PROVE  Inv'
<1> USE DEF Inv, EndInv
<1>1. Shape'
  <2>1. QueueInv' /\ WindowInv' /\ HistoryInv'
    BY DEF Shape, QueueInv, WindowInv, HistoryInv
  <2> QED BY <2>1 DEF Shape
<1>2. TornInv'
  BY TornFrame
<1>3. ASSUME NEW x \in Ends PROVE EndInv(x)'
  <2>1. /\ Other(x) \in Ends /\ faults' \in Nat /\ (Sending(x)' <=> Sending(x))
    BY EndFacts, LimitFacts DEF Shape, Sending
  <2>2. /\ StreamOf(x)' /\ DataOn(Other(x))' = DataOn(Other(x)) /\ AcksOn(Other(x))' = AcksOn(Other(x))
    BY <2>1, StreamFrame
  <2>3. SendOf(x)'
    BY <2>1, SendFrame
  <2>4. ArrivalOf(x)' /\ DedupOf(x)'
    BY <2>2, ArrivalFrame, DedupFrame
  <2>5. \A y \in Ends : rd'[y].pc # "idle" => rd[y].pc # "idle" /\ rd'[y].frame = rd[y].frame
    OBVIOUS
  <2>6. AckOf(x)'
    BY <2>1, <2>2, <2>5, AckFrame
  <2>7. ReadOf(x)'
    <3>1. CASE x = e
      BY <3>1
    <3>2. CASE x # e
      BY <3>2, ReadFrame
    <3> QED BY <3>1, <3>2
  <2> QED BY <2>2, <2>3, <2>4, <2>6, <2>7
<1> QED BY <1>1, <1>2, <1>3

\* A conn closes or is replaced: what it held is dropped.
LEMMA ConnDropsKeepsInv ==
    ASSUME Inv, NEW e \in Ends, CloseConn(e) \/ ReplaceConn(e)
    PROVE  Inv'
<1> USE DEF Inv, EndInv
<1>0. conn \in [Ends -> Conns] /\ conn[e] \in Conns /\ InCap \in Nat /\ MaxFaults \in Nat /\ faults \in 0 .. MaxFaults
  BY LimitFacts DEF Shape, ConnInv
<1>1. PICK c \in Conns : conn' = [conn EXCEPT ![e] = c] /\ c.in = <<>>
  <2>1. CASE CloseConn(e)
    <3>0. <<>> \in Seq(Message)
      BY SMT
    <3>1. PICK q \in Seq(Message) : q = <<>>
      BY <3>0, Zenon
    <3>2. PICK b \in BOOLEAN : b = FALSE
      OBVIOUS
    <3> DEFINE c == [conn[e] EXCEPT !.open = b, !.in = q]
    <3>3. c \in Conns /\ c.in = q
      BY <1>0 DEF Conns
    <3>4. conn' = [conn EXCEPT ![e] = c]
      BY <1>0, <2>1, <3>1, <3>2 DEF CloseConn
    <3> HIDE DEF c
    <3> QED BY <3>1, <3>3, <3>4
  <2>2. CASE ReplaceConn(e)
    <3>1. NewConn(conn[e].gen + 1) \in Conns /\ NewConn(conn[e].gen + 1).in = <<>>
      BY <1>0 DEF Conns, NewConn
    <3> QED BY <2>2, <3>1 DEF ReplaceConn
  <2> QED BY <2>1, <2>2
<1>2. conn'[e] = c /\ (\A x \in Ends : x # e => conn'[x] = conn[x]) /\ conn' \in [Ends -> Conns]
  BY <1>0, <1>1
<1>3. ConnInv'
  <2>1. Len(conn'[e].in) <= InCap
    BY <1>0, <1>1, <1>2
  <2> QED BY <1>2, <2>1 DEF Shape, ConnInv
<1>4. /\ UNCHANGED <<kind, snd, inc, dataQ, ackQ, air, rasm, rd, sent, known, ever, torn, confirmed, read>>
      /\ faults' \in 0 .. MaxFaults /\ faults <= faults'
  BY <1>0 DEF CloseConn, ReplaceConn, Fault, hist
<1>5. ReadOf(e)'
  <2>1. DOMAIN conn'[e].in = {}
    BY <1>1, <1>2
  <2>2. \A m : Handed(e, m)' <=> Handed(e, m)
    BY <1>4 DEF Handed
  <2>3. \A a, b : Ordered(a, b)' <=> Ordered(a, b)
    BY <1>4 DEF Ordered
  <2>4. Pushed(e)' = Pushed(e)
    BY <1>4 DEF Pushed
  <2> QED BY <1>4, <2>1, <2>2, <2>3, <2>4 DEF ReadOf
<1>6. rd' \in [Ends -> Readers] /\ read' \in [Ends -> Seq(Message)]
  BY <1>4 DEF Shape, HistoryInv
<1> QED BY <1>2, <1>3, <1>4, <1>5, <1>6, ConnStep

\* Closing a transport.
LEMMA CloseKeepsInv ==
    ASSUME Inv, NEW e \in Ends, CloseSEI(e) \/ CloseVideo(e)
    PROVE  Inv'
<1> USE DEF Inv, EndInv
<1>1. /\ UNCHANGED <<kind, snd, inc, dataQ, ackQ, air, rasm, rd, conn, sent, known, ever, torn, confirmed, read>>
      /\ faults' \in 0 .. MaxFaults /\ faults <= faults'
  BY LimitFacts DEF CloseSEI, CloseVideo, Fault, hist, Shape
<1>2. ConnInv' /\ rd' \in [Ends -> Readers] /\ read' \in [Ends -> Seq(Message)]
  BY <1>1 DEF Shape, ConnInv, HistoryInv
<1>3. ReadOf(e)'
  BY <1>1, ReadFrame
<1> QED BY <1>1, <1>2, <1>3, ConnStep

\* The reader pushes a message into the conn.
LEMMA OnDataKeepsInv ==
    ASSUME Inv, NEW e \in Ends, OnData(e)
    PROVE  Inv'
<1> USE DEF Inv, EndInv
<1>0. /\ conn \in [Ends -> Conns] /\ conn[e] \in Conns /\ conn[e].in \in Seq(Message) /\ InCap \in Nat
      /\ rd \in [Ends -> Readers] /\ rd[e] \in Readers /\ rd[e].frame \in Frame
      /\ faults \in 0 .. MaxFaults /\ MaxFaults \in Nat
  BY LimitFacts DEF Shape, ConnInv, Conns, Readers
<1>1. /\ UNCHANGED <<kind, snd, inc, dataQ, ackQ, air, rasm, faults, sent, known, ever, torn, confirmed, read>>
      /\ rd' = [rd EXCEPT ![e].pc = "ack"] /\ rd[e].pc = "push"
  BY DEF OnData, hist
<1>2. [rd[e] EXCEPT !.pc = "ack"] \in Readers
  BY <1>0 DEF Readers
<1>3. /\ rd' \in [Ends -> Readers] /\ rd'[e] = [rd[e] EXCEPT !.pc = "ack"]
      /\ \A x \in Ends : x # e => rd'[x] = rd[x]
  BY <1>0, <1>1, <1>2
<1>4. rd'[e].pc = "ack" /\ rd'[e].frame = rd[e].frame
  BY <1>0, <1>3 DEF Readers
<1> DEFINE m == Pushed(e)
<1>5. m \in Message /\ m = Msg(Other(e), rd[e].frame.crc, rd[e].frame.seq)
  <2>1. MsgOf(Other(e), rd[e].frame) \in Message
    BY <1>0, EndFacts, MsgOfFacts
  <2> QED BY <2>1 DEF Pushed, MsgOf
<1> HIDE DEF m
<1>6. CASE conn' = conn
  <2>1. ConnInv'
    BY <1>6 DEF Shape, ConnInv
  <2>2. ReadOf(e)'
    BY <1>1, <1>4, <1>6, ReadFrame
  <2>3. read' \in [Ends -> Seq(Message)] /\ faults' \in 0 .. MaxFaults /\ faults <= faults'
    BY <1>0, <1>1 DEF Shape, HistoryInv
  <2> QED BY <1>1, <1>3, <1>4, <1>6, <2>1, <2>2, <2>3, ConnStep
<1>7. CASE Len(conn[e].in) < InCap /\ conn' = [conn EXCEPT ![e].in = Append(@, m)]
  <2> DEFINE q == Append(conn[e].in, m)
             n == Len(conn[e].in)
  <2>1. /\ q \in Seq(Message) /\ Len(q) = n + 1 /\ n \in Nat
        /\ DOMAIN conn[e].in = 1 .. n /\ DOMAIN q = 1 .. (n + 1)
        /\ \A i \in DOMAIN conn[e].in : q[i] = conn[e].in[i]
        /\ q[n + 1] = m
    BY <1>0, <1>5, AppendFacts
  <2>2. conn' = [conn EXCEPT ![e].in = q] /\ n < InCap
    BY <1>0, <1>7
  <2> HIDE DEF q, n
  <2>3. [conn[e] EXCEPT !.in = q] \in Conns
    BY <1>0, <2>1 DEF Conns
  <2>4. /\ conn' \in [Ends -> Conns] /\ conn'[e] = [conn[e] EXCEPT !.in = q]
        /\ \A x \in Ends : x # e => conn'[x] = conn[x]
    BY <1>0, <2>2, <2>3
  <2>5. conn'[e].in = q
    BY <1>0, <2>4 DEF Conns
  <2>6. ConnInv'
    <3>1. Len(conn'[e].in) <= InCap
      BY <1>0, <2>1, <2>2, <2>5
    <3> QED BY <2>4, <3>1 DEF Shape, ConnInv
  <2>7. ReadOf(e)'
    <3>1. \A a : Handed(e, a)' <=> Handed(e, a)
      BY <1>1 DEF Handed
    <3>2. \A a, b : Ordered(a, b)' <=> Ordered(a, b)
      BY <1>1 DEF Ordered
    <3>3. /\ Handed(e, m)
          /\ \A i \in DOMAIN read[e] : Ordered(read[e][i], m)
          /\ \A i \in DOMAIN conn[e].in : Ordered(conn[e].in[i], m)
      BY <1>1 DEF ReadOf, m
    <3>4. \A i \in DOMAIN q : \/ i \in DOMAIN conn[e].in /\ q[i] = conn[e].in[i]
                              \/ i = n + 1 /\ q[i] = m
      BY <2>1
    <3>5. \A i \in DOMAIN q : Handed(e, q[i])
      BY <3>3, <3>4 DEF ReadOf
    <3>6. ASSUME NEW i \in DOMAIN q, NEW j \in DOMAIN q, i < j
          PROVE  Ordered(q[i], q[j])
      <4>1. i \in DOMAIN conn[e].in /\ q[i] = conn[e].in[i]
        BY <2>1, <3>6
      <4> QED BY <3>3, <3>4, <3>6, <4>1 DEF ReadOf
    <3>7. \A i \in DOMAIN read[e], j \in DOMAIN q : Ordered(read[e][i], q[j])
      BY <3>3, <3>4 DEF ReadOf
    <3>8. /\ \A i \in DOMAIN read[e] : Handed(e, read[e][i])
          /\ \A i, j \in DOMAIN read[e] : i < j => Ordered(read[e][i], read[e][j])
      BY DEF ReadOf
    <3> QED BY <1>1, <1>4, <2>5, <3>1, <3>2, <3>5, <3>6, <3>7, <3>8 DEF ReadOf
  <2>8. read' \in [Ends -> Seq(Message)] /\ faults' \in 0 .. MaxFaults /\ faults <= faults'
    BY <1>0, <1>1 DEF Shape, HistoryInv
  <2> QED BY <1>1, <1>3, <1>4, <2>4, <2>6, <2>7, <2>8, ConnStep
<1> QED BY <1>5, <1>6, <1>7 DEF OnData

\* smux reads the next message.
LEMMA ReadKeepsInv ==
    ASSUME Inv, NEW e \in Ends, Read(e)
    PROVE  Inv'
<1> USE DEF Inv, EndInv
<1>0. /\ conn \in [Ends -> Conns] /\ conn[e] \in Conns /\ conn[e].in \in Seq(Message) /\ InCap \in Nat
      /\ read \in [Ends -> Seq(Message)] /\ read[e] \in Seq(Message)
      /\ faults \in 0 .. MaxFaults /\ MaxFaults \in Nat
  BY LimitFacts DEF Shape, ConnInv, Conns, HistoryInv
<1> DEFINE m == Head(conn[e].in)
           q == Tail(conn[e].in)
           r == Append(read[e], m)
           k == Len(read[e])
<1>1. /\ conn[e].in # <<>> /\ read' = [read EXCEPT ![e] = r] /\ conn' = [conn EXCEPT ![e].in = q]
      /\ UNCHANGED <<kind, snd, inc, dataQ, ackQ, air, rasm, rd, faults, sent, known, ever, torn, confirmed>>
  BY <1>0 DEF Read
<1>2. /\ q \in Seq(Message) /\ Len(q) = Len(conn[e].in) - 1 /\ Len(conn[e].in) \in Nat
      /\ m = conn[e].in[1] /\ m \in Message /\ 1 \in DOMAIN conn[e].in
      /\ DOMAIN q = 1 .. (Len(conn[e].in) - 1)
      /\ \A i \in DOMAIN q : i + 1 \in DOMAIN conn[e].in /\ q[i] = conn[e].in[i + 1]
  BY <1>0, <1>1, TailFacts
<1> HIDE DEF m, q
<1>3. /\ r \in Seq(Message) /\ k \in Nat /\ DOMAIN read[e] = 1 .. k /\ DOMAIN r = 1 .. (k + 1)
      /\ \A i \in DOMAIN read[e] : r[i] = read[e][i]
      /\ r[k + 1] = m
  BY <1>0, <1>2, AppendFacts
<1> HIDE DEF r, k
<1>4. [conn[e] EXCEPT !.in = q] \in Conns
  BY <1>0, <1>2 DEF Conns
<1>5. /\ conn' \in [Ends -> Conns] /\ conn'[e] = [conn[e] EXCEPT !.in = q]
      /\ \A x \in Ends : x # e => conn'[x] = conn[x]
  BY <1>0, <1>1, <1>4
<1>6. conn'[e].in = q
  BY <1>0, <1>5 DEF Conns
<1>7. ConnInv'
  <2>1. Len(conn'[e].in) <= InCap
    <3>1. Len(conn[e].in) <= InCap
      BY DEF Shape, ConnInv
    <3> QED BY <1>0, <1>2, <1>6, <3>1
  <2> QED BY <1>5, <2>1 DEF Shape, ConnInv
<1>8. read' \in [Ends -> Seq(Message)] /\ read'[e] = r /\ \A x \in Ends : x # e => read'[x] = read[x]
  BY <1>0, <1>1, <1>3
<1>9. ReadOf(e)'
  <2>1. \A a : Handed(e, a)' <=> Handed(e, a)
    BY <1>1 DEF Handed
  <2>2. \A a, b : Ordered(a, b)' <=> Ordered(a, b)
    BY <1>1 DEF Ordered
  <2>3. \A i \in DOMAIN r : \/ i \in DOMAIN read[e] /\ r[i] = read[e][i]
                            \/ i = k + 1 /\ r[i] = m
    BY <1>3
  <2>4. /\ \A i \in DOMAIN r : Handed(e, r[i])
        /\ \A i \in DOMAIN q : Handed(e, q[i])
    BY <1>2, <2>3 DEF ReadOf
  <2>5. ASSUME NEW i \in DOMAIN r, NEW j \in DOMAIN r, i < j
        PROVE  Ordered(r[i], r[j])
    <3>1. i \in DOMAIN read[e] /\ r[i] = read[e][i]
      BY <1>3, <2>5
    <3> QED BY <1>2, <2>3, <2>5, <3>1 DEF ReadOf
  <2>6. ASSUME NEW i \in DOMAIN q, NEW j \in DOMAIN q, i < j
        PROVE  Ordered(q[i], q[j])
    <3>1. i + 1 < j + 1 /\ i + 1 \in DOMAIN conn[e].in /\ j + 1 \in DOMAIN conn[e].in
      BY <1>2, <2>6
    <3> QED BY <1>2, <3>1 DEF ReadOf
  <2>7. ASSUME NEW i \in DOMAIN r, NEW j \in DOMAIN q
        PROVE  Ordered(r[i], q[j])
    <3>1. j + 1 \in DOMAIN conn[e].in /\ q[j] = conn[e].in[j + 1] /\ 1 < j + 1
      BY <1>2
    <3> QED BY <1>2, <2>3, <3>1 DEF ReadOf
  <2>8. ASSUME rd[e].pc = "push"
        PROVE  /\ Handed(e, Pushed(e))
               /\ \A i \in DOMAIN r : Ordered(r[i], Pushed(e))
               /\ \A i \in DOMAIN q : Ordered(q[i], Pushed(e))
    BY <1>2, <2>3, <2>8 DEF ReadOf
  <2>9. Pushed(e)' = Pushed(e)
    BY <1>1 DEF Pushed
  <2> QED BY <1>1, <1>6, <1>8, <2>1, <2>2, <2>4, <2>5, <2>6, <2>7, <2>8, <2>9 DEF ReadOf
<1>10. rd' \in [Ends -> Readers] /\ faults' \in 0 .. MaxFaults /\ faults <= faults'
  BY <1>0, <1>1 DEF Shape
<1> QED BY <1>1, <1>5, <1>7, <1>8, <1>9, <1>10, ConnStep

-----------------------------------------------------------------------------
(* Acknowledgements *)

\* What the reader has handled is acknowledged.
LEMMA SendAckKeepsInv ==
    ASSUME Inv, NEW e \in Ends, SendAck(e)
    PROVE  Inv'
<1> USE DEF Inv, EndInv
<1>0. /\ rd \in [Ends -> Readers] /\ rd[e] \in Readers /\ rd[e].frame \in Frame
      /\ ackQ \in [Ends -> Seq(Frame)] /\ ackQ[e] \in Seq(Frame) /\ AckCap \in Nat
      /\ faults \in Nat /\ NoFrame \in Frame /\ Len(ackQ[e]) <= AckCap
  <2>1. NoFrame \in Frame
    BY LimitFacts DEF NoFrame, Frame
  <2>2. rd \in [Ends -> Readers] /\ rd[e] \in Readers /\ faults \in Nat
    BY LimitFacts DEF Shape
  <2>3. rd[e].frame \in Frame
    BY <2>2 DEF Readers
  <2> QED BY <2>1, <2>2, <2>3, LimitFacts DEF Shape, QueueInv
<1>1. /\ UNCHANGED <<kind, snd, inc, dataQ, air, rasm, conn, faults, sent, known, ever, torn, confirmed, read>>
      /\ rd' = [rd EXCEPT ![e] = IdleReader] /\ rd[e].pc = "ack"
  BY DEF SendAck, hist
<1>2. IdleReader \in Readers /\ IdleReader.pc = "idle"
  BY <1>0 DEF IdleReader, Readers
<1>3. /\ rd' \in [Ends -> Readers] /\ rd'[e].pc = "idle" /\ \A x \in Ends : x # e => rd'[x] = rd[x]
  BY <1>0, <1>1, <1>2
<1> DEFINE a == EncodeAck(rd[e].frame)
<1>4. /\ a \in Frame /\ a.type = "ack" /\ a.frag = rd[e].frame.frag
      /\ \A x : MsgOf(x, a) = MsgOf(x, rd[e].frame)
  BY <1>0 DEF EncodeAck, Frame, MsgOf
<1>5. ackQ' = ackQ \/ (Len(ackQ[e]) < AckCap /\ ackQ' = [ackQ EXCEPT ![e] = Append(@, a)])
  BY DEF SendAck, Enqueue
<1> HIDE DEF a
<1>6. /\ ackQ' \in [Ends -> Seq(Frame)] /\ Len(ackQ'[e]) <= AckCap
      /\ \A x \in Ends : x # e => ackQ'[x] = ackQ[x]
      /\ \A j \in DOMAIN ackQ'[e] : (\E i \in DOMAIN ackQ[e] : ackQ'[e][j] = ackQ[e][i]) \/ ackQ'[e][j] = a
  <2>1. CASE ackQ' = ackQ
    BY <1>0, <2>1
  <2>2. CASE Len(ackQ[e]) < AckCap /\ ackQ' = [ackQ EXCEPT ![e] = Append(@, a)]
    <3>1. ackQ'[e] = Append(ackQ[e], a) /\ (\A x \in Ends : x # e => ackQ'[x] = ackQ[x])
      BY <1>0, <2>2
    <3>2. /\ ackQ'[e] \in Seq(Frame) /\ Len(ackQ'[e]) = Len(ackQ[e]) + 1 /\ Len(ackQ[e]) \in Nat
          /\ DOMAIN ackQ[e] = 1 .. Len(ackQ[e]) /\ DOMAIN ackQ'[e] = 1 .. (Len(ackQ[e]) + 1)
          /\ \A i \in DOMAIN ackQ[e] : ackQ'[e][i] = ackQ[e][i]
          /\ ackQ'[e][Len(ackQ[e]) + 1] = a
      BY <1>0, <1>4, <3>1, AppendFacts
    <3>3. ackQ' \in [Ends -> Seq(Frame)]
      BY <1>0, <1>4, <2>2
    <3>4. Len(ackQ'[e]) <= AckCap
      <4>1. Len(ackQ[e]) < AckCap /\ AckCap \in Nat
        BY <1>0, <2>2
      <4>2. Len(ackQ[e]) \in Nat /\ Len(ackQ'[e]) = Len(ackQ[e]) + 1
        BY <3>2
      <4> QED BY ONLY <4>1, <4>2, SMT
    <3>5. ASSUME NEW j \in DOMAIN ackQ'[e], j \notin DOMAIN ackQ[e] PROVE ackQ'[e][j] = a
      BY <3>2, <3>5
    <3> QED BY <3>1, <3>2, <3>3, <3>4, <3>5
  <2> QED BY <1>5, <2>1, <2>2
<1>7. Shape'
  <2>1. QueueInv'
    BY <1>1, <1>6 DEF Shape, QueueInv
  <2>2. WindowInv' /\ ConnInv' /\ HistoryInv'
    BY <1>1 DEF Shape, WindowInv, ConnInv, HistoryInv
  <2> QED BY <1>1, <1>3, <2>1, <2>2 DEF Shape
<1>8. TornInv'
  BY <1>1, TornFrame
<1>9. DataOn(e)' = DataOn(e) /\ AcksOn(e)' \subseteq AcksOn(e) \cup {a}
  BY <1>1, <1>6 DEF DataOn, AcksOn
<1>10. MsgOf(Other(e), a) \in sent /\ a.frag \in Fragments
  BY <1>1, <1>4 DEF AckOf
<1>11. StreamOf(e)'
  <2>1. OrderOf(e)'
    BY <1>1 DEF StreamOf, OrderOf
  <2>2. \A j \in DOMAIN ackQ'[e] : ackQ'[e][j].type = "ack"
    BY <1>4, <1>6 DEF StreamOf
  <2>3. \A f \in AcksOn(e)' : MsgOf(Other(e), f) \in sent' /\ f.frag \in Fragments
    BY <1>1, <1>9, <1>10 DEF StreamOf
  <2> QED BY <1>1, <1>9, <2>1, <2>2, <2>3 DEF StreamOf
<1>12. ASSUME NEW x \in Ends, x # e
       PROVE  StreamOf(x)' /\ DataOn(x)' = DataOn(x) /\ AcksOn(x)' = AcksOn(x)
  BY <1>1, <1>6, <1>12, StreamFrame
<1>13. ASSUME NEW x \in Ends
       PROVE  SendOf(x)' /\ DedupOf(x)' /\ ReadOf(x)' /\ ArrivalOf(x)'
  <2>1. (Sending(x)' <=> Sending(x)) /\ DataOn(Other(x))' = DataOn(Other(x))
    BY <1>1, <1>9, <1>12, EndFacts DEF Sending
  <2>2. SendOf(x)'
    BY <1>0, <1>1, <2>1, SendFrame
  <2>3. ReadOf(x)'
    BY <1>1, <1>3, ReadFrame
  <2>4. DedupOf(x)' /\ ArrivalOf(x)'
    BY <1>1, <2>1, DedupFrame, ArrivalFrame
  <2> QED BY <2>2, <2>3, <2>4
<1>14. AckOf(e)'
  <2>1. AcksOn(Other(e))' = AcksOn(Other(e)) /\ rd'[Other(e)] = rd[Other(e)] /\ (Sending(e)' <=> Sending(e))
    BY <1>1, <1>3, <1>12, EndFacts DEF Sending
  <2> QED BY <1>1, <1>3, <2>1, AckFrame
<1>15. ASSUME NEW x \in Ends, x # e PROVE AckOf(x)'
  <2>0. Other(x) = e /\ Other(e) = x
    BY <1>15, EndFacts
  <2>1. (Sending(x)' <=> Sending(x)) /\ Current(x)' = Current(x) /\ rd'[x] = rd[x]
    BY <1>1, <1>3, <1>15 DEF Sending, Current
  <2>2. \A i : Stored(x, i) => Stored(x, i)'
    BY <1>1, <2>1 DEF Stored
  <2>3. rd'[x].pc # "idle" => MsgOf(Other(x), rd'[x].frame) \in sent' /\ rd'[x].frame.frag \in Fragments
    BY <1>1, <2>1 DEF AckOf
  <2>4. ASSUME Sending(x), NEW f \in AcksOn(e)', MsgOf(x, f) = Current(x)
        PROVE  Stored(x, f.frag)'
    <3>1. CASE f \in AcksOn(e)
      BY <2>0, <2>2, <2>4, <3>1 DEF AckOf
    <3>2. CASE f = a
      <4>1. MsgOf(x, rd[e].frame) = Current(x) /\ f.frag = rd[e].frame.frag
        BY <1>4, <2>4, <3>2
      <4>2. Stored(x, rd[e].frame.frag)
        BY <1>1, <2>0, <2>4, <4>1 DEF AckOf
      <4> QED BY <2>2, <4>1, <4>2
    <3> QED BY <1>9, <2>4, <3>1, <3>2
  <2>5. Sending(x) => \A i \in snd'[x].acked : Stored(x, i)'
    BY <1>1, <2>2 DEF AckOf
  <2> QED BY <1>3, <2>0, <2>1, <2>3, <2>4, <2>5 DEF AckOf
<1> QED BY <1>7, <1>8, <1>11, <1>12, <1>13, <1>14, <1>15

\* The head of the track.
LEMMA IncomingFacts ==
    ASSUME Inv, NEW e \in Ends, TakeFrame(e)
    PROVE  /\ Incoming(e) \in Frame
           /\ sent' = sent => FlightKept(Other(e))
           /\ Incoming(e).type = "data" => Incoming(e) \in DataOn(Other(e))
           /\ Incoming(e).type = "ack" => Incoming(e) \in AcksOn(Other(e))
           /\ \A f \in DataOn(Other(e))' : Incoming(e).type = "data"
                 => NotAfter(MsgOf(Other(e), Incoming(e)), MsgOf(Other(e), f))
           /\ UNCHANGED <<kind, inc, dataQ, ackQ, conn, faults>>
<1> USE DEF Inv, EndInv
<1> DEFINE d == Other(e)
<1>0. d \in Ends
  BY EndFacts
<1>1. /\ air[d] # <<>> /\ air' = [air EXCEPT ![d] = Tail(@)]
      /\ UNCHANGED <<kind, inc, dataQ, ackQ, conn, faults>>
  BY DEF TakeFrame
<1>2. air \in [Ends -> Seq(Frame)] /\ air[d] \in Seq(Frame) /\ air'[d] = Tail(air[d])
  BY <1>0, <1>1 DEF Shape, QueueInv
<1> HIDE DEF d
<1>3. /\ Head(air[d]) = air[d][1] /\ air[d][1] \in Frame /\ 1 \in DOMAIN air[d]
      /\ DOMAIN air[d] = 1 .. Len(air[d]) /\ DOMAIN air'[d] = 1 .. (Len(air[d]) - 1) /\ Len(air[d]) \in Nat
      /\ \A i \in DOMAIN air'[d] : i + 1 \in DOMAIN air[d] /\ air'[d][i] = air[d][i + 1]
  <2>1. air[d] # <<>> /\ air[d] \in Seq(Frame)
    BY <1>1, <1>2
  <2> QED BY ONLY <1>2, <2>1, TailFacts
<1>4. Incoming(e) = air[d][1]
  BY <1>3 DEF Incoming, d
<1>5. sent' = sent => FlightKept(d)
  BY <1>0, <1>1, TakeKeepsFlight
<1>6. ASSUME air[d][1].type = "data", NEW f \in DataOn(d)'
      PROVE  NotAfter(MsgOf(d, air[d][1]), MsgOf(d, f))
  <2>1. CASE \E j \in DOMAIN dataQ[d] : f = dataQ[d][j]
    BY <1>0, <1>3, <1>6, <2>1 DEF StreamOf, OrderOf
  <2>2. CASE \E j \in DOMAIN air'[d] : f = air'[d][j] /\ f.type = "data"
    <3>1. PICK j \in DOMAIN air'[d] : f = air'[d][j] /\ f.type = "data"
      BY <2>2
    <3>2. 1 < j + 1 /\ j + 1 \in DOMAIN air[d] /\ f = air[d][j + 1]
      BY <1>3, <3>1
    <3> QED BY <1>0, <1>3, <1>6, <3>1, <3>2 DEF StreamOf, OrderOf
  <2> QED BY <1>1, <1>6, <2>1, <2>2 DEF DataOn
<1>7. /\ air[d][1].type = "data" => air[d][1] \in DataOn(d)
      /\ air[d][1].type = "ack" => air[d][1] \in AcksOn(d)
  BY <1>3 DEF DataOn, AcksOn
<1> QED BY <1>1, <1>3, <1>4, <1>5, <1>6, <1>7 DEF d

\* An acknowledgement, or a hello, arrives.
LEMMA PlainFrameKeepsInv ==
    ASSUME Inv, NEW e \in Ends, TakeFrame(e), UNCHANGED <<rasm, rd, hist>>,
           \/ UNCHANGED snd
           \/ Incoming(e).type = "ack" /\ snd' = Mark(e, Incoming(e))
    PROVE  Inv'
<1> USE DEF Inv, EndInv
<1> DEFINE d == Other(e)
           f == Incoming(e)
<1>0. /\ d \in Ends /\ Other(d) = e /\ d # e
      /\ UNCHANGED <<sent, known, ever, torn, confirmed, read>>
  BY EndFacts DEF hist
<1>1. FlightKept(d) /\ f \in Frame /\ (f.type = "ack" => f \in AcksOn(d)) /\ UNCHANGED <<kind, inc, conn, faults>>
  BY <1>0, IncomingFacts
<1>2. CASE UNCHANGED snd
  BY <1>0, <1>1, <1>2, FlightStep
<1>3. CASE /\ snd' = [snd EXCEPT ![e].acked = @ \cup {f.frag}]
           /\ Sending(e) /\ snd[e].seq = f.seq /\ inc[e] = f.crc /\ f.type = "ack"
  <2> HIDE DEF d, f
  <2>0. snd \in [Ends -> Senders] /\ snd[e] \in Senders /\ faults \in Nat
    BY LimitFacts DEF Shape
  <2>1. f \in AcksOn(d) /\ f.frag \in Fragments /\ MsgOf(e, f) = Current(e)
    <3>1. f \in AcksOn(d)
      BY <1>1, <1>3
    <3>2. f.frag \in Fragments
      BY <1>0, <3>1 DEF StreamOf
    <3> QED BY <1>3, <3>1, <3>2 DEF MsgOf, Current
  <2> DEFINE k == snd[e].acked \cup {f.frag}
  <2>2. k \in SUBSET Fragments
    BY <2>0, <2>1 DEF Senders
  <2>3. snd' = [snd EXCEPT ![e].acked = k]
    BY <1>3, <2>0
  <2> HIDE DEF k
  <2>4. [snd[e] EXCEPT !.acked = k] \in Senders
    BY <2>0, <2>2 DEF Senders
  <2>5. /\ snd' \in [Ends -> Senders] /\ snd'[e] = [snd[e] EXCEPT !.acked = k]
        /\ \A x \in Ends : x # e => snd'[x] = snd[x]
    BY <2>0, <2>3, <2>4
  <2>6. snd'[e].pc = snd[e].pc /\ snd'[e].seq = snd[e].seq /\ snd'[e].acked = k
    BY <2>0, <2>5 DEF Senders
  <2>7. Shape'
    BY <1>0, <1>1, <2>5 DEF FlightKept, Shape, WindowInv, ConnInv, HistoryInv
  <2>8. TornInv'
    BY <1>0, TornFrame
  <2>9. \A x \in Ends : StreamOf(x)' /\ DataOn(x)' \subseteq DataOn(x) /\ AcksOn(x)' \subseteq AcksOn(x)
    BY <1>0, <1>1, FlightStreams
  <2>10. ASSUME NEW x \in Ends
         PROVE  SendOf(x)' /\ ArrivalOf(x)' /\ DedupOf(x)' /\ ReadOf(x)'
    <3>1. /\ snd'[x].seq = snd[x].seq /\ (Sending(x)' <=> Sending(x)) /\ snd'[x].pc = snd[x].pc
          /\ DataOn(Other(x))' \subseteq DataOn(Other(x))
      BY <2>5, <2>6, <2>9, EndFacts DEF Sending
    <3>2. SendOf(x)'
      BY <1>0, <1>1, <2>0, <3>1, SendFrame
    <3>3. ArrivalOf(x)' /\ DedupOf(x)' /\ ReadOf(x)'
      BY <1>0, <1>1, <3>1, ArrivalFrame, DedupFrame, ReadFrame
    <3> QED BY <3>2, <3>3
  <2>11. ASSUME NEW x \in Ends, x # e PROVE AckOf(x)'
    <3>1. snd'[x] = snd[x] /\ (Sending(x)' <=> Sending(x)) /\ AcksOn(Other(x))' \subseteq AcksOn(Other(x))
      BY <2>5, <2>9, <2>11, EndFacts DEF Sending
    <3> QED BY <1>0, <1>1, <3>1, AckFrame
  <2>12. AckOf(e)'
    <3>1. Current(e)' = Current(e) /\ Other(e) = d
      BY <1>1, <2>6 DEF Current, d
    <3>2. \A i : Stored(e, i) <=> Stored(e, i)'
      BY <1>0, <3>1 DEF Stored
    <3>3. Stored(e, f.frag)
      BY <1>3, <2>1, <3>1 DEF AckOf
    <3>4. \A i \in k : Stored(e, i)'
      BY <1>3, <3>2, <3>3 DEF AckOf, k
    <3>5. \A g \in AcksOn(d)' : MsgOf(e, g) = Current(e) => Stored(e, g.frag)'
      BY <1>0, <1>3, <2>9, <3>1, <3>2 DEF AckOf
    <3>6. /\ rd[e].pc # "idle" => MsgOf(d, rd[e].frame) \in sent /\ rd[e].frame.frag \in Fragments
          /\ rd[d].pc # "idle" /\ MsgOf(e, rd[d].frame) = Current(e) => Stored(e, rd[d].frame.frag)
      BY <1>3, <3>1 DEF AckOf
    <3>7. /\ rd[d].pc # "idle" /\ MsgOf(e, rd[d].frame) = Current(e) => Stored(e, rd[d].frame.frag)'
      BY <1>0, <3>2, <3>6
    <3> QED BY <1>0, <2>6, <3>1, <3>4, <3>5, <3>6, <3>7 DEF AckOf
  <2> QED BY <2>7, <2>8, <2>9, <2>10, <2>11, <2>12
<1> QED BY <1>2, <1>3 DEF Mark, Sending

-----------------------------------------------------------------------------
(* The reassembler *)

LEMMA WithoutFacts ==
    ASSUME NEW q \in Seq(Entry), NEW s
    PROVE  /\ Without(q, s) \in Seq(Entry) /\ Len(Without(q, s)) <= Len(q)
           /\ \A k \in DOMAIN Without(q, s) : \E l \in DOMAIN q : Without(q, s)[k] = q[l]
           /\ (\A i, j \in DOMAIN q : q[i].seq = q[j].seq => i = j) =>
                 /\ \A k \in DOMAIN Without(q, s) : Without(q, s)[k].seq # s
                 /\ \A k, l \in DOMAIN Without(q, s) : Without(q, s)[k].seq = Without(q, s)[l].seq => k = l
<1>1. CASE \E i \in DOMAIN q : q[i].seq = s
  <2> DEFINE k == CHOOSE i \in DOMAIN q : q[i].seq = s
             a == SubSeq(q, 1, k - 1)
             b == SubSeq(q, k + 1, Len(q))
             c == a \o b
  <2>1. k \in DOMAIN q
    BY <1>1
  <2>2. Without(q, s) = c
    BY <1>1 DEF Without, RemoveAt
  <2> HIDE DEF k
  <2>3. /\ k \in 1 .. Len(q) /\ Len(q) \in Nat /\ DOMAIN q = 1 .. Len(q)
        /\ \A i \in 1 .. Len(q) : q[i] \in Entry
    BY <2>1
  <2>4. /\ a \in Seq(Entry) /\ Len(a) = k - 1 /\ \A i \in 1 .. (k - 1) : a[i] = q[i]
    <3>1. k - 1 \in Int /\ 1 \in Int /\ \A i \in 1 .. (k - 1) : q[i] \in Entry
      BY <2>3
    <3>2. /\ a \in Seq(Entry) /\ Len(a) = IF 1 <= k - 1 THEN (k - 1) - 1 + 1 ELSE 0
          /\ \A i \in 1 .. ((k - 1) - 1 + 1) : a[i] = q[1 + i - 1]
      BY ONLY <3>1, SubSeqProperties
    <3> HIDE DEF a
    <3> QED BY <2>3, <3>2
  <2>5. /\ b \in Seq(Entry) /\ Len(b) = Len(q) - k /\ \A i \in 1 .. (Len(q) - k) : b[i] = q[k + i]
    <3>1. k + 1 \in Int /\ Len(q) \in Int /\ \A i \in (k + 1) .. Len(q) : q[i] \in Entry
      BY <2>3
    <3>2. /\ b \in Seq(Entry) /\ Len(b) = IF k + 1 <= Len(q) THEN Len(q) - (k + 1) + 1 ELSE 0
          /\ \A i \in 1 .. (Len(q) - (k + 1) + 1) : b[i] = q[(k + 1) + i - 1]
      BY ONLY <3>1, SubSeqProperties
    <3> HIDE DEF b
    <3>3. Len(b) = Len(q) - k
      <4>1. Len(b) = IF k + 1 <= Len(q) THEN Len(q) - (k + 1) + 1 ELSE 0
        BY ONLY <3>2, Zenon
      <4>2. k \in 1 .. Len(q) /\ Len(q) \in Nat
        BY ONLY <2>3, Zenon
      <4>3. (IF k + 1 <= Len(q) THEN Len(q) - (k + 1) + 1 ELSE 0) = Len(q) - k
        BY ONLY <4>2, SMT
      <4> QED BY <4>1, <4>3, SMT
    <3>4. ASSUME NEW i \in 1 .. (Len(q) - k) PROVE b[i] = q[k + i]
      <4>1. i \in 1 .. (Len(q) - (k + 1) + 1) /\ (k + 1) + i - 1 = k + i
        BY ONLY <2>3, <3>4, SMT
      <4>2. b[i] = q[(k + 1) + i - 1]
        BY ONLY <3>2, <4>1, Zenon
      <4> QED BY ONLY <4>1, <4>2, Zenon
    <3> QED BY <3>2, <3>3, <3>4
  <2> HIDE DEF a, b
  <2>6. /\ c \in Seq(Entry) /\ Len(c) = Len(a) + Len(b)
        /\ \A i \in 1 .. (Len(a) + Len(b)) : c[i] = IF i <= Len(a) THEN a[i] ELSE b[i - Len(a)]
    BY ONLY <2>4, <2>5, ConcatProperties
  <2> HIDE DEF c
  <2>7. Len(c) = Len(q) - 1 /\ DOMAIN c = 1 .. (Len(q) - 1) /\ Len(c) <= Len(q)
    BY <2>3, <2>4, <2>5, <2>6
  <2> DEFINE g(i) == IF i <= k - 1 THEN i ELSE i + 1
  <2>8. ASSUME NEW i \in 1 .. (Len(q) - 1) PROVE g(i) \in DOMAIN q /\ g(i) # k /\ c[i] = q[g(i)]
    <3>1. CASE i <= k - 1
      <4>1. i \in 1 .. (k - 1) /\ i \in DOMAIN q /\ i # k /\ g(i) = i
        BY <2>3, <3>1
      <4>2. c[i] = a[i]
        BY <2>3, <2>4, <2>5, <2>6, <3>1
      <4> QED BY <2>4, <4>1, <4>2
    <3>2. CASE ~(i <= k - 1)
      <4>1. /\ i - (k - 1) \in 1 .. (Len(q) - k) /\ k + (i - (k - 1)) = i + 1
            /\ i + 1 \in DOMAIN q /\ i + 1 # k /\ g(i) = i + 1
        BY <2>3, <3>2
      <4>2. c[i] = b[i - (k - 1)]
        <5>1. i \in 1 .. (Len(a) + Len(b)) /\ ~(i <= Len(a)) /\ i - Len(a) = i - (k - 1)
          <6>1. Len(a) = k - 1 /\ Len(b) = Len(q) - k
            BY <2>4, <2>5
          <6> QED BY ONLY <2>3, <2>8, <3>2, <6>1, SMT
        <5> QED BY ONLY <2>6, <5>1, Zenon
      <4> QED BY <2>5, <4>1, <4>2
    <3> QED BY <3>1, <3>2
  <2>9. \A i, j \in 1 .. (Len(q) - 1) : g(i) = g(j) => i = j
    BY <2>3
  <2>10. q[k].seq = s
    BY <1>1 DEF k
  <2> HIDE DEF g
  <2>11. ASSUME \A i, j \in DOMAIN q : q[i].seq = q[j].seq => i = j
         PROVE  /\ \A i \in DOMAIN c : c[i].seq # s
                /\ \A i, j \in DOMAIN c : c[i].seq = c[j].seq => i = j
    <3>1. \A i \in DOMAIN c : i \in 1 .. (Len(q) - 1)
      BY <2>7
    <3> HIDE DEF c
    <3>2. ASSUME NEW i \in DOMAIN c PROVE c[i].seq # s
      <4>1. g(i) \in DOMAIN q /\ g(i) # k /\ c[i] = q[g(i)]
        BY ONLY <2>8, <3>1, <3>2, Zenon
      <4> QED BY ONLY <2>1, <2>10, <2>11, <4>1, Zenon
    <3>3. ASSUME NEW i \in DOMAIN c, NEW j \in DOMAIN c, c[i].seq = c[j].seq PROVE i = j
      <4>1. g(i) \in DOMAIN q /\ c[i] = q[g(i)] /\ g(j) \in DOMAIN q /\ c[j] = q[g(j)]
        BY ONLY <2>8, <3>1, <3>3, Zenon
      <4>2. g(i) = g(j)
        BY ONLY <2>11, <3>3, <4>1, Zenon
      <4> QED BY ONLY <2>9, <3>1, <3>3, <4>2, Zenon
    <3> QED BY <3>2, <3>3
  <2>12. \A i \in DOMAIN c : \E l \in DOMAIN q : c[i] = q[l]
    BY <2>7, <2>8
  <2> QED BY <2>2, <2>6, <2>7, <2>11, <2>12
<1>2. CASE ~\E k \in DOMAIN q : q[k].seq = s
  <2>1. Without(q, s) = q
    BY <1>2 DEF Without
  <2> QED BY <1>2, <2>1
<1> QED BY <1>1, <1>2

\* A window is well formed and within its limits.
GoodWindow(r) ==
    /\ r \in Reassemblers /\ Len(r.inbound) <= MaxRecent /\ GoodEntries(r.inbound)
    /\ IsFiniteSet(r.delivered) /\ Cardinality(r.delivered) <= MaxRecent

SameKey(x, f) == x.seq = f.seq /\ x.crc = f.crc

LEMMA UpsertFacts ==
    ASSUME NEW r, GoodWindow(r), NEW f \in Frame
    PROVE  /\ Upsert(r, f) \in Seq(Entry) /\ Len(Upsert(r, f)) <= MaxRecent
           /\ \E k \in DOMAIN Upsert(r, f) : SameKey(Upsert(r, f)[k], f)
           /\ \A k \in DOMAIN Upsert(r, f) :
                 \/ \E l \in DOMAIN r.inbound : Upsert(r, f)[k] = r.inbound[l]
                 \/ SameKey(Upsert(r, f)[k], f)
           /\ (\E k \in DOMAIN r.inbound : SameKey(r.inbound[k], f)) => Upsert(r, f) = r.inbound
           /\ \A i, j \in DOMAIN Upsert(r, f) : Upsert(r, f)[i].seq = Upsert(r, f)[j].seq => i = j
<1>0. r.inbound \in Seq(Entry) /\ Len(r.inbound) <= MaxRecent /\ MaxRecent \in Nat \ {0}
      /\ f.seq \in Nat /\ f.crc \in Nat
  BY LimitFacts DEF GoodWindow, Reassemblers, Frame
<1>1. CASE \E k \in DOMAIN r.inbound : SameKey(r.inbound[k], f)
  <2>1. Upsert(r, f) = r.inbound
    BY <1>1 DEF Upsert, SameKey
  <2>2. \A i, j \in DOMAIN r.inbound : r.inbound[i].seq = r.inbound[j].seq => i = j
    BY DEF GoodWindow, GoodEntries
  <2> QED BY <1>0, <1>1, <2>1, <2>2
<1>2. CASE ~\E k \in DOMAIN r.inbound : SameKey(r.inbound[k], f)
  <2> DEFINE others == Without(r.inbound, f.seq)
             entry == [seq |-> f.seq, crc |-> f.crc, got |-> {}]
             kept == IF Len(others) >= MaxRecent THEN Tail(others) ELSE others
  <2>1. entry \in Entry /\ SameKey(entry, f)
    BY <1>0 DEF Entry, SameKey
  <2>2. /\ others \in Seq(Entry) /\ Len(others) <= Len(r.inbound)
        /\ \A k \in DOMAIN others : \E l \in DOMAIN r.inbound : others[k] = r.inbound[l]
        /\ \A k \in DOMAIN others : others[k].seq # f.seq
        /\ \A k, l \in DOMAIN others : others[k].seq = others[l].seq => k = l
    <3>1. \A i, j \in DOMAIN r.inbound : r.inbound[i].seq = r.inbound[j].seq => i = j
      BY DEF GoodWindow, GoodEntries
    <3> QED BY <1>0, <3>1, WithoutFacts
  <2>3. Upsert(r, f) = Append(kept, entry)
    BY <1>2 DEF Upsert, SameKey
  <2> HIDE DEF others, entry
  <2>4. /\ kept \in Seq(Entry) /\ Len(kept) + 1 <= MaxRecent
        /\ \A k \in DOMAIN kept : \E l \in DOMAIN others : kept[k] = others[l]
        /\ \A k, l \in DOMAIN kept : kept[k].seq = kept[l].seq => k = l
    <3>0. Len(others) \in Nat /\ Len(others) <= MaxRecent
      <4>1. Len(others) \in Nat /\ Len(r.inbound) \in Nat
        BY <1>0, <2>2
      <4> QED BY <1>0, <2>2, <4>1
    <3>1. CASE Len(others) >= MaxRecent
      <4>1. others # <<>>
        BY <1>0, <3>1
      <4>2. /\ Tail(others) \in Seq(Entry) /\ Len(Tail(others)) = Len(others) - 1
            /\ \A i \in DOMAIN Tail(others) : i + 1 \in DOMAIN others /\ Tail(others)[i] = others[i + 1]
        BY <2>2, <4>1, TailFacts
      <4>3. Len(Tail(others)) + 1 <= MaxRecent
        BY <1>0, <3>0, <4>2
      <4>4. \A k, l \in DOMAIN Tail(others) : Tail(others)[k].seq = Tail(others)[l].seq => k = l
        <5>1. DOMAIN Tail(others) \subseteq Int
          BY <2>2, <4>1, TailFacts
        <5>2. \A k, l \in Int : k + 1 = l + 1 => k = l
          OBVIOUS
        <5> QED BY <2>2, <4>2, <5>1, <5>2
      <4> QED BY <3>1, <4>2, <4>3, <4>4
    <3>2. CASE ~(Len(others) >= MaxRecent)
      <4>1. Len(others) + 1 <= MaxRecent
        BY <1>0, <3>0, <3>2
      <4> QED BY <2>2, <3>2, <4>1
    <3> QED BY <3>1, <3>2
  <2> HIDE DEF kept
  <2>5. /\ Append(kept, entry) \in Seq(Entry) /\ Len(Append(kept, entry)) = Len(kept) + 1 /\ Len(kept) \in Nat
        /\ DOMAIN kept = 1 .. Len(kept) /\ DOMAIN Append(kept, entry) = 1 .. (Len(kept) + 1)
        /\ \A i \in DOMAIN kept : Append(kept, entry)[i] = kept[i]
        /\ Append(kept, entry)[Len(kept) + 1] = entry
    BY <2>1, <2>4, AppendFacts
  <2>6. Len(Append(kept, entry)) <= MaxRecent
    BY <2>4, <2>5
  <2>7. ASSUME NEW k \in DOMAIN Append(kept, entry)
        PROVE  \/ \E l \in DOMAIN r.inbound : Append(kept, entry)[k] = r.inbound[l]
               \/ SameKey(Append(kept, entry)[k], f)
    <3>1. CASE k \in DOMAIN kept
      BY <2>2, <2>4, <2>5, <3>1
    <3>2. CASE k = Len(kept) + 1
      BY <2>1, <2>5, <3>2
    <3> QED BY <2>5, <3>1, <3>2
  <2>8. Len(kept) + 1 \in DOMAIN Append(kept, entry)
    BY <2>5
  <2>9. \E k \in DOMAIN Append(kept, entry) : SameKey(Append(kept, entry)[k], f)
    BY <2>1, <2>5, <2>8
  <2>10. entry.seq = f.seq
    BY DEF entry
  <2>11. \A k \in DOMAIN kept : kept[k].seq # entry.seq
    BY <2>2, <2>4, <2>10
  <2>12. \A i \in DOMAIN Append(kept, entry) : i \in DOMAIN kept \/ i = Len(kept) + 1
    BY <2>5
  <2>13. \A i, j \in DOMAIN Append(kept, entry) :
            Append(kept, entry)[i].seq = Append(kept, entry)[j].seq => i = j
    BY <2>4, <2>5, <2>11, <2>12
  <2> QED BY <1>2, <2>3, <2>5, <2>6, <2>7, <2>9, <2>13
<1> QED BY <1>1, <1>2

LEMMA StoreChunkFacts ==
    ASSUME NEW q \in Seq(Entry), NEW f \in Frame, f.frag \in Fragments
    PROVE  /\ StoreChunk(q, f) \in Seq(Entry) /\ Len(StoreChunk(q, f)) = Len(q)
           /\ DOMAIN StoreChunk(q, f) = DOMAIN q
           /\ \A k \in DOMAIN q :
                 /\ SameKey(StoreChunk(q, f)[k], q[k]) /\ q[k].got \subseteq StoreChunk(q, f)[k].got
                 /\ q[k].seq = f.seq => f.frag \in StoreChunk(q, f)[k].got
                 /\ q[k].seq # f.seq => StoreChunk(q, f)[k] = q[k]
<1> DEFINE t(k) == IF q[k].seq = f.seq THEN [q[k] EXCEPT !.got = @ \cup {f.frag}] ELSE q[k]
<1>1. StoreChunk(q, f) = [k \in DOMAIN q |-> t(k)]
  BY DEF StoreChunk
<1>2. ASSUME NEW k \in DOMAIN q
      PROVE  /\ t(k) \in Entry /\ SameKey(t(k), q[k]) /\ q[k].got \subseteq t(k).got
             /\ q[k].seq = f.seq => f.frag \in t(k).got
             /\ q[k].seq # f.seq => t(k) = q[k]
  <2>1. q[k] \in Entry
    OBVIOUS
  <2>2. q[k].got \cup {f.frag} \in SUBSET Fragments
    BY <2>1 DEF Entry
  <2> QED BY <2>1, <2>2 DEF Entry, SameKey
<1> HIDE DEF t
<1>3. DOMAIN q = 1 .. Len(q) /\ Len(q) \in Nat
  OBVIOUS
<1>4. StoreChunk(q, f) \in [1 .. Len(q) -> Entry]
  BY <1>1, <1>2, <1>3
<1>5. StoreChunk(q, f) \in Seq(Entry) /\ Len(StoreChunk(q, f)) = Len(q)
  BY <1>3, <1>4
<1> QED BY <1>1, <1>2, <1>5

\* What Push does to the reassembler.
LEMMA PushFacts ==
    ASSUME NEW r, GoodWindow(r), NEW f \in Frame, f.frag \in Fragments
    PROVE  /\ GoodWindow(Push(r, f).r)
           /\ Push(r, f).result \in {"duplicate", "delivered", "partial"}
           /\ Push(r, f).result = "duplicate" <=> AlreadyDelivered(r, f)
           /\ Push(r, f).result = "duplicate" => Push(r, f).r = r
           /\ Push(r, f).result = "delivered" => <<f.seq, f.crc>> \in Push(r, f).r.delivered
           /\ Push(r, f).result = "partial" =>
                 Push(r, f).r.delivered = r.delivered /\ Push(r, f).r.previous = r.previous
           /\ Push(r, f).result = "delivered" =>
                 \A p \in Push(r, f).r.delivered \cup Push(r, f).r.previous :
                    p = <<f.seq, f.crc>> \/ p \in r.delivered \cup r.previous
           /\ \A k \in DOMAIN Push(r, f).r.inbound :
                 \/ \E l \in DOMAIN r.inbound : SameKey(Push(r, f).r.inbound[k], r.inbound[l])
                 \/ SameKey(Push(r, f).r.inbound[k], f)
           /\ Push(r, f).result = "partial" =>
                 \E k \in DOMAIN Push(r, f).r.inbound :
                    SameKey(Push(r, f).r.inbound[k], f) /\ f.frag \in Push(r, f).r.inbound[k].got
           /\ Push(r, f).result = "partial" /\ (\E k \in DOMAIN r.inbound : SameKey(r.inbound[k], f)) =>
                 /\ DOMAIN Push(r, f).r.inbound = DOMAIN r.inbound
                 /\ \A k \in DOMAIN r.inbound :
                       /\ SameKey(Push(r, f).r.inbound[k], r.inbound[k])
                       /\ r.inbound[k].got \subseteq Push(r, f).r.inbound[k].got
<1> DEFINE u == Upsert(r, f)
           t == StoreChunk(u, f)
<1>0. /\ r \in Reassemblers /\ r.inbound \in Seq(Entry) /\ MaxRecent \in Nat \ {0}
      /\ r.delivered \in SUBSET (Nat \X Nat) /\ r.previous \in SUBSET (Nat \X Nat)
      /\ f.seq \in Nat /\ f.crc \in Nat
  BY LimitFacts DEF GoodWindow, Reassemblers, Frame
<1>1. /\ u \in Seq(Entry) /\ Len(u) <= MaxRecent
      /\ \E k \in DOMAIN u : SameKey(u[k], f)
      /\ \A k \in DOMAIN u : (\E l \in DOMAIN r.inbound : u[k] = r.inbound[l]) \/ SameKey(u[k], f)
      /\ (\E k \in DOMAIN r.inbound : SameKey(r.inbound[k], f)) => u = r.inbound
      /\ \A i, j \in DOMAIN u : u[i].seq = u[j].seq => i = j
  BY UpsertFacts
<1>2. /\ t \in Seq(Entry) /\ Len(t) = Len(u) /\ DOMAIN t = DOMAIN u
      /\ \A k \in DOMAIN u : /\ SameKey(t[k], u[k]) /\ u[k].got \subseteq t[k].got
                             /\ u[k].seq = f.seq => f.frag \in t[k].got
                             /\ u[k].seq # f.seq => t[k] = u[k]
  BY <1>1, StoreChunkFacts
<1>3. Push(r, f) = IF AlreadyDelivered(r, f) THEN [result |-> "duplicate", r |-> r]
                   ELSE IF Complete(t, f) THEN [result |-> "delivered", r |-> Deliver(r, t, f)]
                   ELSE [result |-> "partial", r |-> [r EXCEPT !.inbound = t]]
  BY DEF Push
<1> HIDE DEF u, t
<1>4. \A k \in DOMAIN t : (\E l \in DOMAIN r.inbound : SameKey(t[k], r.inbound[l])) \/ SameKey(t[k], f)
  <2>1. \A k \in DOMAIN t : k \in DOMAIN u /\ t[k].seq = u[k].seq /\ t[k].crc = u[k].crc
    BY <1>2 DEF SameKey
  <2>2. \A k \in DOMAIN u : (\E l \in DOMAIN r.inbound : u[k] = r.inbound[l]) \/ SameKey(u[k], f)
    BY <1>1
  <2> QED BY ONLY <2>1, <2>2 DEF SameKey
<1>a. \A i, j \in DOMAIN t : t[i].seq = t[j].seq => i = j
  <2>1. \A i \in DOMAIN t : i \in DOMAIN u /\ t[i].seq = u[i].seq
    BY <1>2 DEF SameKey
  <2> QED BY ONLY <1>1, <2>1, Zenon
<1>b. \A k \in DOMAIN t : t[k].seq # f.seq => t[k].got # Fragments
  <2>1. ASSUME NEW k \in DOMAIN t, t[k].seq # f.seq PROVE t[k].got # Fragments
    <3>1. u[k].seq # f.seq /\ t[k] = u[k] /\ k \in DOMAIN u
      BY <1>2, <2>1 DEF SameKey
    <3>2. \E l \in DOMAIN r.inbound : u[k] = r.inbound[l]
      BY <1>1, <3>1 DEF SameKey
    <3> QED BY <3>1, <3>2 DEF GoodWindow, GoodEntries
  <2> QED BY <2>1
<1>5. CASE AlreadyDelivered(r, f)
  <2>1. Push(r, f).result = "duplicate" /\ Push(r, f).r = r
    BY <1>3, <1>5
  <2>2. \A k \in DOMAIN r.inbound : SameKey(r.inbound[k], r.inbound[k])
    BY DEF SameKey
  <2> QED BY <1>5, <2>1, <2>2
<1>6. CASE ~AlreadyDelivered(r, f) /\ ~Complete(t, f)
  <2> DEFINE p == [r EXCEPT !.inbound = t]
  <2>1. Push(r, f).result = "partial" /\ Push(r, f).r = p
    BY <1>3, <1>6
  <2>2. /\ p \in Reassemblers /\ p.inbound = t /\ p.delivered = r.delivered /\ p.previous = r.previous
    BY <1>0, <1>2 DEF Reassemblers
  <2> HIDE DEF p
  <2>3. GoodWindow(p)
    <3>1. GoodEntries(t)
      BY <1>a, <1>b, <1>6 DEF GoodEntries, Complete
    <3> QED BY <1>1, <1>2, <2>2, <3>1 DEF GoodWindow
  <2>4. \E k \in DOMAIN t : SameKey(t[k], f) /\ f.frag \in t[k].got
    BY <1>1, <1>2 DEF SameKey
  <2>5. ASSUME \E k \in DOMAIN r.inbound : SameKey(r.inbound[k], f)
        PROVE  /\ DOMAIN t = DOMAIN r.inbound
               /\ \A k \in DOMAIN r.inbound : SameKey(t[k], r.inbound[k]) /\ r.inbound[k].got \subseteq t[k].got
    BY <1>1, <1>2, <2>5
  <2> QED BY <1>4, <1>6, <2>1, <2>2, <2>3, <2>4, <2>5
<1>7. CASE ~AlreadyDelivered(r, f) /\ Complete(t, f)
  <2> DEFINE w == Without(t, f.seq)
             full == Cardinality(r.delivered) >= MaxRecent
             kept == {x \in r.delivered : x[1] # f.seq}
             dlv == (IF full THEN {} ELSE kept) \cup {<<f.seq, f.crc>>}
             prv == IF full THEN r.delivered ELSE r.previous
             p == [inbound |-> w, delivered |-> dlv, previous |-> prv]
  <2>1. Push(r, f).result = "delivered" /\ Push(r, f).r = p
    BY <1>3, <1>7 DEF Deliver
  <2>2. /\ w \in Seq(Entry) /\ Len(w) <= Len(t)
        /\ \A k \in DOMAIN w : \E l \in DOMAIN t : w[k] = t[l]
        /\ \A k \in DOMAIN w : w[k].seq # f.seq
        /\ \A k, l \in DOMAIN w : w[k].seq = w[l].seq => k = l
    <3>1. t \in Seq(Entry)
      BY <1>2
    <3> QED BY ONLY <1>a, <3>1, WithoutFacts
  <2>3. /\ dlv \in SUBSET (Nat \X Nat) /\ prv \in SUBSET (Nat \X Nat) /\ <<f.seq, f.crc>> \in dlv
        /\ \A x \in dlv \cup prv : x = <<f.seq, f.crc>> \/ x \in r.delivered \cup r.previous
    BY <1>0
  <2>4. IsFiniteSet(dlv) /\ Cardinality(dlv) <= MaxRecent
    <3> DEFINE old == IF full THEN {} ELSE kept
    <3>0. IsFiniteSet(r.delivered) /\ Cardinality(r.delivered) \in Nat
      BY FS_CardinalityType DEF GoodWindow
    <3>1. IsFiniteSet(old) /\ Cardinality(old) \in Nat /\ Cardinality(old) + 1 <= MaxRecent
      <4>1. CASE full
        <5>1. old = {} /\ IsFiniteSet({}) /\ Cardinality({}) = 0
          BY <4>1, FS_EmptySet
        <5>2. 0 \in Nat /\ 0 + 1 <= MaxRecent
          BY <1>0
        <5> QED BY <5>1, <5>2
      <4>2. CASE ~full
        <5>1. old = kept /\ kept \subseteq r.delivered
          BY <4>2
        <5> HIDE DEF old, kept
        <5>2. /\ IsFiniteSet(kept) /\ Cardinality(kept) <= Cardinality(r.delivered)
          BY <3>0, <5>1, FS_Subset
        <5>3. Cardinality(kept) \in Nat
          BY <5>2, FS_CardinalityType
        <5>4. Cardinality(r.delivered) + 1 <= MaxRecent
          BY <1>0, <3>0, <4>2
        <5>5. Cardinality(kept) + 1 <= MaxRecent
          BY <1>0, <3>0, <5>2, <5>3, <5>4
        <5> QED BY <5>1, <5>2, <5>3, <5>5
      <4> QED BY <4>1, <4>2
    <3>2. dlv = old \cup {<<f.seq, f.crc>>}
      OBVIOUS
    <3> HIDE DEF old, dlv
    <3>3. PICK x : x = <<f.seq, f.crc>>
      OBVIOUS
    <3>4. /\ IsFiniteSet(old \cup {x})
          /\ Cardinality(old \cup {x}) = IF x \in old THEN Cardinality(old) ELSE Cardinality(old) + 1
      BY <3>1, FS_AddElement
    <3>5. Cardinality(old \cup {x}) <= MaxRecent
      BY <1>0, <3>1, <3>4
    <3> QED BY <3>2, <3>3, <3>4, <3>5
  <2> HIDE DEF w, dlv, prv
  <2>5. p \in Reassemblers /\ p.inbound = w /\ p.delivered = dlv /\ p.previous = prv
    BY <2>2, <2>3 DEF Reassemblers
  <2> HIDE DEF p
  <2>6. GoodWindow(p)
    <3>1. Len(w) <= MaxRecent
      <4>1. Len(w) \in Nat /\ Len(t) \in Nat /\ Len(t) <= MaxRecent
        BY <1>1, <1>2, <2>2
      <4> QED BY <1>0, <2>2, <4>1
    <3>2. GoodEntries(w)
      BY <1>b, <2>2 DEF GoodEntries
    <3> QED BY <2>4, <2>5, <3>1, <3>2 DEF GoodWindow
  <2>7. \A k \in DOMAIN w : (\E l \in DOMAIN r.inbound : SameKey(w[k], r.inbound[l])) \/ SameKey(w[k], f)
    BY <1>4, <2>2
  <2> QED BY <1>7, <2>1, <2>3, <2>5, <2>6, <2>7
<1> QED BY <1>5, <1>6, <1>7

-----------------------------------------------------------------------------
(* A fragment arrives *)

\* The fragment at the head of the track belongs to a message that was sent, and
\* everything that arrived before is not after it.  So a message that Push calls
\* complete was not handed over before, and one it calls a duplicate was.
LEMMA FragmentFacts ==
    ASSUME Inv, NEW e \in Ends, TakeFrame(e), Incoming(e).type = "data"
    PROVE  LET f == Incoming(e)
               m == MsgOf(Other(e), f)
               p == Push(rasm[e], f)
           IN  /\ f \in Frame /\ f.frag \in Fragments
               /\ m \in sent /\ m \in Message /\ m[1] = Other(e) /\ m[2] = f.crc /\ m[3] = f.seq
               /\ \A n \in Arrived(e) : n \in Message /\ n[1] = Other(e) /\ NotAfter(n, m)
               /\ GoodWindow(rasm[e])
               /\ p.result = "delivered" => m \notin known[e] /\ \A n \in known[e] : Precedes(n, m)
               /\ p.result = "duplicate" => m \in ever
<1> USE DEF Inv, EndInv
<1> DEFINE d == Other(e)
           f == Incoming(e)
           m == MsgOf(d, f)
           p == Push(rasm[e], f)
<1>0. d \in Ends
  BY EndFacts
<1>1. f \in Frame /\ f \in DataOn(d)
  BY IncomingFacts
<1> HIDE DEF f
<1>2. m \in sent /\ f.frag \in Fragments
  BY <1>0, <1>1 DEF StreamOf
<1>3. m \in Message /\ m[1] = d /\ m[2] = f.crc /\ m[3] = f.seq
  BY <1>0, <1>1, MsgOfFacts
<1> HIDE DEF m
<1>4. sent \subseteq Message /\ GoodWindow(rasm[e])
  BY DEF Shape, HistoryInv, WindowInv, GoodWindow
<1>5. \A n \in Arrived(e) : n \in Message /\ n[1] = d /\ NotAfter(n, m)
  BY <1>1, <1>4 DEF ArrivalOf, m
<1>6. known[e] \subseteq Arrived(e)
  BY DEF Arrived
<1>7. p.result = "duplicate" <=> AlreadyDelivered(rasm[e], f)
  BY <1>1, <1>2, <1>4, PushFacts
<1> HIDE DEF p
<1>8. ASSUME p.result = "delivered"
      PROVE  m \notin known[e] /\ \A n \in known[e] : Precedes(n, m)
  <2>1. ~AlreadyDelivered(rasm[e], f)
    BY <1>7, <1>8
  <2>2. <<m[3], m[2]>> \notin rasm[e].delivered
    BY <1>3, <2>1 DEF AlreadyDelivered
  <2>3. \A n \in known[e] : ~Precedes(m, n)
    BY <1>3, <1>5, <1>6, NotAfterOrder
  <2>4. m \notin known[e]
    BY <2>2, <2>3 DEF DedupOf
  <2> QED BY <1>3, <1>5, <1>6, <2>4, NotAfterOrder
<1>9. ASSUME p.result = "duplicate" PROVE m \in ever
  <2>1. <<f.seq, f.crc>> \in rasm[e].delivered \cup rasm[e].previous
    BY <1>7, <1>9 DEF AlreadyDelivered
  <2>2. Msg(d, f.crc, f.seq) \in ever
    BY <2>1 DEF DedupOf
  <2> QED BY <2>2 DEF m, MsgOf
<1> QED BY <1>1, <1>2, <1>3, <1>4, <1>5, <1>8, <1>9 DEF d, f, m, p

LEMMA DataFrameKeepsInv ==
    ASSUME Inv, NEW e \in Ends, TakeFrame(e), Incoming(e).type = "data",
           DeliverFragment(e, Incoming(e)), UNCHANGED snd
    PROVE  Inv'
<1> USE DEF Inv, EndInv
<1> DEFINE d == Other(e)
           f == Incoming(e)
           m == MsgOf(d, f)
           p == Push(rasm[e], f)
           handed == p.result = "delivered"
           pc == IF handed /\ conn[e].open THEN "push" ELSE "ack"
<1>0. /\ d \in Ends /\ Other(d) = e /\ d # e /\ Other(e) = d
      /\ \A x \in Ends : x = e \/ x = d
  BY EndFacts
<1>1. /\ rasm' = [rasm EXCEPT ![e] = p.r]
      /\ rd' = [rd EXCEPT ![e] = [pc |-> pc, frame |-> f, gen |-> conn[e].gen]]
      /\ known' = IF handed THEN [known EXCEPT ![e] = @ \cup {m}] ELSE known
      /\ ever' = IF handed THEN ever \cup {m} ELSE ever
      /\ UNCHANGED <<sent, torn, confirmed, read>>
  BY DEF DeliverFragment, MsgOf
<1>2. /\ FlightKept(d) /\ UNCHANGED <<kind, inc, conn, faults>>
      /\ \A g \in DataOn(d)' : NotAfter(m, MsgOf(d, g))
  BY <1>1, IncomingFacts
<1>3. /\ f \in Frame /\ f.frag \in Fragments
      /\ m \in sent /\ m \in Message /\ m[1] = d /\ m[2] = f.crc /\ m[3] = f.seq
      /\ \A n \in Arrived(e) : n \in Message /\ n[1] = d /\ NotAfter(n, m)
      /\ GoodWindow(rasm[e])
      /\ handed => m \notin known[e] /\ \A n \in known[e] : Precedes(n, m)
      /\ p.result = "duplicate" => m \in ever
  BY FragmentFacts
<1> HIDE DEF f
<1>4. /\ GoodWindow(p.r) /\ p.result \in {"duplicate", "delivered", "partial"}
      /\ p.result = "duplicate" => p.r = rasm[e]
      /\ handed => <<f.seq, f.crc>> \in p.r.delivered
      /\ p.result = "partial" => p.r.delivered = rasm[e].delivered /\ p.r.previous = rasm[e].previous
      /\ handed => \A x \in p.r.delivered \cup p.r.previous :
                      x = <<f.seq, f.crc>> \/ x \in rasm[e].delivered \cup rasm[e].previous
      /\ \A k \in DOMAIN p.r.inbound :
            \/ \E l \in DOMAIN rasm[e].inbound : SameKey(p.r.inbound[k], rasm[e].inbound[l])
            \/ SameKey(p.r.inbound[k], f)
      /\ p.result = "partial" =>
            \E k \in DOMAIN p.r.inbound : SameKey(p.r.inbound[k], f) /\ f.frag \in p.r.inbound[k].got
      /\ p.result = "partial" /\ (\E k \in DOMAIN rasm[e].inbound : SameKey(rasm[e].inbound[k], f)) =>
            /\ DOMAIN p.r.inbound = DOMAIN rasm[e].inbound
            /\ \A k \in DOMAIN rasm[e].inbound :
                  /\ SameKey(p.r.inbound[k], rasm[e].inbound[k])
                  /\ rasm[e].inbound[k].got \subseteq p.r.inbound[k].got
  BY <1>3, PushFacts
<1> HIDE DEF m, p, handed, pc
<1>5. pc \in {"push", "ack"} /\ (pc = "push" => handed) /\ (handed <=> p.result = "delivered")
  BY DEF pc, handed
<1> HIDE DEF d
<1>6. /\ rasm \in [Ends -> Reassemblers] /\ rd \in [Ends -> Readers] /\ conn[e] \in Conns
      /\ known \in [Ends -> SUBSET sent] /\ sent \subseteq Message /\ ever \subseteq Message
  BY DEF Shape, WindowInv, ConnInv, HistoryInv
<1>7. /\ rasm' \in [Ends -> Reassemblers] /\ rasm'[e] = p.r /\ rasm'[d] = rasm[d]
  <2>1. p.r \in Reassemblers
    BY <1>4 DEF GoodWindow
  <2> QED BY <1>0, <1>1, <1>6, <2>1
<1>8. /\ rd' \in [Ends -> Readers] /\ rd'[d] = rd[d]
      /\ rd'[e].pc = pc /\ rd'[e].frame = f
  <2> DEFINE n == [pc |-> pc, frame |-> f, gen |-> conn[e].gen]
  <2>1. n \in Readers /\ n.pc = pc /\ n.frame = f
    BY <1>3, <1>5, <1>6 DEF Readers, Conns
  <2>2. rd' = [rd EXCEPT ![e] = n]
    BY <1>1
  <2> HIDE DEF n
  <2>3. rd' \in [Ends -> Readers] /\ rd'[d] = rd[d] /\ rd'[e] = n
    BY <1>0, <1>6, <2>1, <2>2
  <2> QED BY <2>1, <2>3
<1>9. /\ known' \in [Ends -> SUBSET sent'] /\ known'[d] = known[d]
      /\ known'[e] = IF handed THEN known[e] \cup {m} ELSE known[e]
  BY <1>0, <1>1, <1>3, <1>6
<1>10. ever \subseteq ever' /\ ever' \subseteq Message /\ (handed => m \in ever')
  BY <1>1, <1>3, <1>6
<1>11. Shape'
  <2>1. WindowInv'
    BY <1>0, <1>4, <1>7 DEF WindowInv, GoodWindow, Shape
  <2>2. HistoryInv'
    BY <1>1, <1>9, <1>10 DEF HistoryInv, Shape
  <2>3. ConnInv' /\ QueueInv'
    BY <1>2 DEF ConnInv, FlightKept, Shape
  <2> QED BY <1>2, <1>8, <2>1, <2>2, <2>3 DEF Shape
<1>12. TornInv'
  BY <1>1, TornFrame
<1>13. \A x \in Ends : StreamOf(x)' /\ DataOn(x)' \subseteq DataOn(x) /\ AcksOn(x)' \subseteq AcksOn(x)
  BY <1>0, <1>1, <1>2, FlightStreams
<1>14. ASSUME NEW x \in Ends PROVE SendOf(x)'
  <2>1. faults \in Nat /\ (Sending(x)' <=> Sending(x))
    BY LimitFacts DEF Shape, Sending
  <2> QED BY <1>1, <1>2, <2>1, SendFrame
<1>15. ArrivalOf(d)' /\ DedupOf(d)' /\ ReadOf(d)'
  <2>1. DataOn(e)' \subseteq DataOn(e)
    BY <1>13
  <2> QED BY <1>0, <1>1, <1>2, <1>7, <1>8, <1>9, <1>10, <2>1, ArrivalFrame, DedupFrame, ReadFrame
<1>16. ArrivalOf(e)'
  <2>1. ASSUME NEW n \in Arrived(e)' PROVE n \in Arrived(e) \/ n = m
    <3>1. CASE n \in known'[e]
      BY <1>9, <3>1 DEF Arrived
    <3>2. CASE \E k \in DOMAIN p.r.inbound : n = MsgOf(d, p.r.inbound[k])
      <4>1. PICK k \in DOMAIN p.r.inbound : n = MsgOf(d, p.r.inbound[k])
        BY <3>2
      <4>2. CASE SameKey(p.r.inbound[k], f)
        BY <4>1, <4>2 DEF SameKey, MsgOf, m
      <4>3. CASE \E l \in DOMAIN rasm[e].inbound : SameKey(p.r.inbound[k], rasm[e].inbound[l])
        <5>1. PICK l \in DOMAIN rasm[e].inbound : SameKey(p.r.inbound[k], rasm[e].inbound[l])
          BY <4>3
        <5>2. n = MsgOf(d, rasm[e].inbound[l])
          BY <4>1, <5>1 DEF SameKey, MsgOf
        <5> QED BY <1>0, <5>2 DEF Arrived
      <4> QED BY <1>4, <4>2, <4>3
    <3> QED BY <1>0, <1>7, <2>1, <3>1, <3>2 DEF Arrived
  <2>2. ASSUME NEW n \in Arrived(e)'
        PROVE  n \in sent' /\ n[1] = d /\ \A g \in DataOn(d)' : NotAfter(n, MsgOf(d, g))
    <3>1. CASE n = m
      BY <1>1, <1>2, <1>3, <3>1
    <3>2. CASE n \in Arrived(e)
      BY <1>0, <1>1, <1>13, <3>2 DEF ArrivalOf
    <3> QED BY <2>1, <2>2, <3>1, <3>2
  <2> QED BY <1>0, <2>2 DEF ArrivalOf
<1>17. DedupOf(e)'
  <2>1. CASE handed
    <3>1. <<m[3], m[2]>> \in rasm'[e].delivered /\ m \in known'[e]
      BY <1>3, <1>4, <1>7, <1>9, <2>1
    <3>2. \A n \in known'[e] : n = m \/ Precedes(n, m)
      BY <1>3, <1>9, <2>1
    <3>3. ASSUME NEW x \in rasm'[e].delivered \cup rasm'[e].previous
          PROVE  Msg(d, x[2], x[1]) \in ever'
      <4>1. CASE x = <<f.seq, f.crc>>
        <5>1. x[1] = f.seq /\ x[2] = f.crc
          BY <4>1
        <5> QED BY <1>10, <2>1, <5>1 DEF m, MsgOf
      <4>2. CASE x \in rasm[e].delivered \cup rasm[e].previous
        BY <1>0, <1>10, <4>2 DEF DedupOf
      <4> QED BY <1>4, <1>7, <2>1, <3>3, <4>1, <4>2
    <3> QED BY <1>0, <3>1, <3>2, <3>3 DEF DedupOf
  <2>2. CASE ~handed
    <3>1. /\ known'[e] = known[e] /\ rasm'[e].delivered = rasm[e].delivered
          /\ rasm'[e].previous = rasm[e].previous
      BY <1>4, <1>5, <1>7, <1>9, <2>2
    <3> QED BY <1>10, <3>1 DEF DedupOf
  <2> QED BY <2>1, <2>2
<1>18. AckOf(e)'
  <2>1. Current(e)' = Current(e) /\ (Sending(e)' <=> Sending(e))
    BY <1>2 DEF Current, Sending
  <2>2. \A i : Stored(e, i) => Stored(e, i)'
    BY <1>0, <1>1, <1>7, <1>10, <2>1 DEF Stored
  <2>3. MsgOf(d, rd'[e].frame) \in sent' /\ rd'[e].frame.frag \in Fragments
    BY <1>1, <1>3, <1>8 DEF m
  <2>4. AcksOn(d)' \subseteq AcksOn(d)
    BY <1>0, <1>13
  <2>5. ASSUME Sending(e)
        PROVE  /\ \A i \in snd'[e].acked : Stored(e, i)'
               /\ \A g \in AcksOn(d)' : MsgOf(e, g) = Current(e) => Stored(e, g.frag)'
               /\ rd[d].pc # "idle" /\ MsgOf(e, rd[d].frame) = Current(e)
                     => Stored(e, rd[d].frame.frag)'
    <3>1. /\ \A i \in snd[e].acked : Stored(e, i)
          /\ \A g \in AcksOn(d) : MsgOf(e, g) = Current(e) => Stored(e, g.frag)
          /\ rd[d].pc # "idle" /\ MsgOf(e, rd[d].frame) = Current(e) => Stored(e, rd[d].frame.frag)
      BY <1>0, <2>5 DEF AckOf
    <3>2. \A i \in snd'[e].acked : Stored(e, i)'
      BY <2>2, <3>1
    <3>3. \A g \in AcksOn(d)' : MsgOf(e, g) = Current(e) => Stored(e, g.frag)'
      BY <2>2, <2>4, <3>1
    <3>4. \A i : i = rd[d].frame.frag /\ Stored(e, i) => Stored(e, rd[d].frame.frag)'
      BY <1>8, <2>2 DEF Stored
    <3> QED BY <3>1, <3>2, <3>3, <3>4
  <2>6. rd'[d].pc # "idle" /\ MsgOf(e, rd'[d].frame) = Current(e)' /\ Sending(e)
              => Stored(e, rd[d].frame.frag)'
    BY <1>8, <2>1, <2>5
  <2> QED BY <1>0, <2>1, <2>3, <2>5, <2>6 DEF AckOf
<1>19. AckOf(d)'
  <2>1. Current(d)' = Current(d) /\ (Sending(d)' <=> Sending(d))
    BY <1>2 DEF Current, Sending
  <2>2. AcksOn(e)' \subseteq AcksOn(e)
    BY <1>0, <1>13
  <2>3. rd'[d].pc # "idle" => MsgOf(e, rd'[d].frame) \in sent' /\ rd'[d].frame.frag \in Fragments
    BY <1>0, <1>1, <1>8 DEF AckOf
  <2>4. /\ Current(d) \in Message /\ Current(d)[1] = d /\ NotAfter(m, Current(d))
    BY <1>0, <1>3, CurrentFacts DEF SendOf
  <2>5. ASSUME NEW i, Stored(d, i) PROVE Stored(d, i)'
    <3>1. CASE Current(d) \in ever \cup torn
      BY <1>1, <1>10, <2>1, <3>1 DEF Stored
    <3>2. CASE \E k \in DOMAIN rasm[e].inbound :
                  MsgOf(d, rasm[e].inbound[k]) = Current(d) /\ i \in rasm[e].inbound[k].got
      <4>1. PICK k \in DOMAIN rasm[e].inbound :
                  MsgOf(d, rasm[e].inbound[k]) = Current(d) /\ i \in rasm[e].inbound[k].got
        BY <3>2
      <4>2. Current(d) \in Arrived(e)
        <5>1. MsgOf(d, rasm[e].inbound[k]) \in Arrived(e)
          BY <1>0 DEF Arrived
        <5> QED BY <4>1, <5>1
      <4>3. m = Current(d)
        BY <1>3, <2>4, <4>2, NotAfterOrder
      <4>4. CASE handed
        BY <1>10, <2>1, <4>3, <4>4 DEF Stored
      <4>5. CASE p.result = "duplicate"
        BY <1>3, <1>10, <2>1, <4>3, <4>5 DEF Stored
      <4>6. CASE p.result = "partial"
        <5>1. rasm[e].inbound[k] \in Entry
          BY <1>6 DEF Reassemblers
        <5>2. SameKey(rasm[e].inbound[k], f)
          <6>1. MsgOf(d, rasm[e].inbound[k]) = <<d, rasm[e].inbound[k].crc, rasm[e].inbound[k].seq>>
            BY DEF MsgOf, Msg
          <6>2. m = <<d, f.crc, f.seq>>
            BY DEF m, MsgOf, Msg
          <6> QED BY <4>1, <4>3, <6>1, <6>2 DEF SameKey
        <5>3. /\ k \in DOMAIN p.r.inbound /\ SameKey(p.r.inbound[k], rasm[e].inbound[k])
              /\ i \in p.r.inbound[k].got
          BY <1>4, <4>1, <4>6, <5>2
        <5>4. MsgOf(d, p.r.inbound[k]) = Current(d)
          BY <4>1, <5>3 DEF SameKey, MsgOf
        <5> QED BY <1>0, <1>7, <2>1, <5>3, <5>4 DEF Stored
      <4> QED BY <1>4, <1>5, <4>4, <4>5, <4>6
    <3> QED BY <1>0, <2>5, <3>1, <3>2 DEF Stored
  <2>6. ASSUME NEW i, i = f.frag, m = Current(d) PROVE Stored(d, i)'
    <3>1. CASE handed
      BY <1>10, <2>1, <2>6, <3>1 DEF Stored
    <3>2. CASE p.result = "duplicate"
      BY <1>3, <1>10, <2>1, <2>6, <3>2 DEF Stored
    <3>3. CASE p.result = "partial"
      <4>1. PICK k \in DOMAIN p.r.inbound : SameKey(p.r.inbound[k], f) /\ f.frag \in p.r.inbound[k].got
        BY <1>4, <3>3
      <4>2. MsgOf(d, p.r.inbound[k]) = Current(d)
        BY <2>6, <4>1 DEF SameKey, MsgOf, m
      <4> QED BY <1>0, <1>7, <2>1, <2>6, <4>1, <4>2 DEF Stored
    <3> QED BY <1>4, <1>5, <3>1, <3>2, <3>3
  <2>7. ASSUME Sending(d)
        PROVE  /\ \A i \in snd'[d].acked : Stored(d, i)'
               /\ \A g \in AcksOn(e)' : MsgOf(d, g) = Current(d) => Stored(d, g.frag)'
    <3>1. /\ \A i \in snd[d].acked : Stored(d, i)
          /\ \A g \in AcksOn(e) : MsgOf(d, g) = Current(d) => Stored(d, g.frag)
      BY <1>0, <2>7 DEF AckOf
    <3> QED BY <2>2, <2>5, <3>1
  <2>8. MsgOf(d, rd'[e].frame) = Current(d)' => Stored(d, rd[e].frame.frag)'
    <3>1. rd'[e].frame.frag = f.frag /\ MsgOf(d, rd'[e].frame) = m
      BY <1>8 DEF m
    <3> QED BY <2>1, <2>6, <3>1 DEF Stored
  <2> QED BY <1>0, <2>1, <2>3, <2>7, <2>8 DEF AckOf
<1>20. ReadOf(e)'
  <2>1. \A n : Handed(e, n) => Handed(e, n)'
    BY <1>1, <1>9 DEF Handed
  <2>2. \A a, b : Ordered(a, b) <=> Ordered(a, b)'
    BY <1>1 DEF Ordered
  <2>3. rd'[e].pc = "push" => handed /\ Pushed(e)' = m
    BY <1>0, <1>5, <1>8 DEF Pushed, m
  <2>4. ASSUME handed
        PROVE  (\A n : n = m => Handed(e, n)') /\ (\A n : Handed(e, n) => Ordered(n, m))
    <3>1. \A n : n = m => Handed(e, n)'
      BY <1>0, <1>1, <1>3, <1>9, <2>4 DEF Handed
    <3>2. ASSUME NEW n, Handed(e, n), m \notin torn PROVE Precedes(n, m)
      <4>1. CASE n \in known[e]
        BY <1>3, <2>4, <4>1
      <4>2. CASE n \in torn
        BY <1>0, <1>3, <3>2, <4>2 DEF TornInv, Handed
      <4> QED BY <3>2, <4>1, <4>2 DEF Handed
    <3>3. ASSUME NEW n, Handed(e, n) PROVE Ordered(n, m)
      <4>1. CASE m \in torn
        BY <4>1 DEF Ordered
      <4>2. CASE m \notin torn
        <5>1. Precedes(n, m) /\ n \in Message
          BY <1>6, <3>2, <3>3, <4>2 DEF Handed
        <5>2. n[2] \in Nat /\ n[3] \in Nat /\ m[2] \in Nat /\ m[3] \in Nat
          BY <1>3, <5>1, MessageFacts
        <5> QED BY <5>1, <5>2 DEF Precedes, Ordered
      <4> QED BY <4>1, <4>2
    <3> QED BY <3>1, <3>3
  <2>5. ASSUME rd'[e].pc = "push"
        PROVE  /\ Handed(e, Pushed(e))'
               /\ \A i \in DOMAIN read[e] : Ordered(read[e][i], Pushed(e)')
               /\ \A i \in DOMAIN conn[e].in : Ordered(conn[e].in[i], Pushed(e)')
    <3>1. handed /\ Pushed(e)' = m
      BY <2>3, <2>5
    <3>2. \A n : n = Pushed(e)' => Handed(e, n)'
      BY <2>4, <3>1
    <3>3. Handed(e, Pushed(e))'
      BY <3>2 DEF Handed
    <3>4. /\ \A i \in DOMAIN read[e] : Handed(e, read[e][i])
          /\ \A i \in DOMAIN conn[e].in : Handed(e, conn[e].in[i])
      BY DEF ReadOf
    <3> QED BY <2>4, <3>1, <3>3, <3>4
  <2>6. read'[e] = read[e] /\ conn'[e].in = conn[e].in
    BY <1>1, <1>2
  <2>7. /\ \A i \in DOMAIN read[e] : Handed(e, read[e][i])
        /\ \A i \in DOMAIN conn[e].in : Handed(e, conn[e].in[i])
        /\ \A i, j \in DOMAIN read[e] : i < j => Ordered(read[e][i], read[e][j])
        /\ \A i, j \in DOMAIN conn[e].in : i < j => Ordered(conn[e].in[i], conn[e].in[j])
        /\ \A i \in DOMAIN read[e], j \in DOMAIN conn[e].in : Ordered(read[e][i], conn[e].in[j])
    BY DEF ReadOf
  <2> QED BY <2>1, <2>2, <2>5, <2>6, <2>7 DEF ReadOf
<1> QED BY <1>0, <1>11, <1>12, <1>13, <1>14, <1>15, <1>16, <1>17, <1>18, <1>19, <1>20

-----------------------------------------------------------------------------
(* The receiver forgets its state *)

\* A restart empties the queues; what is on the track stays there.
LEMMA EmptyQueuesKeepFlight ==
    ASSUME Inv, NEW e \in Ends, UNCHANGED <<air, sent>>,
           dataQ' = [dataQ EXCEPT ![e] = <<>>], ackQ' = [ackQ EXCEPT ![e] = <<>>]
    PROVE  FlightKept(e)
<1> USE DEF Inv, EndInv
<1>1. /\ dataQ \in [Ends -> Seq(Frame)] /\ ackQ \in [Ends -> Seq(Frame)] /\ air \in [Ends -> Seq(Frame)]
      /\ \A x \in Ends : Len(dataQ[x]) <= DataCap /\ Len(ackQ[x]) <= AckCap /\ Len(air[x]) <= AirCap
  BY DEF Shape, QueueInv
<1>2. /\ dataQ'[e] = <<>> /\ ackQ'[e] = <<>> /\ air'[e] = air[e]
      /\ \A x \in Ends : x # e => dataQ'[x] = dataQ[x] /\ ackQ'[x] = ackQ[x] /\ air'[x] = air[x]
  BY <1>1
<1>3. QueueInv'
  <2>1. dataQ' \in [Ends -> Seq(Frame)] /\ ackQ' \in [Ends -> Seq(Frame)]
    BY <1>1
  <2>2. \A x \in Ends : Len(dataQ'[x]) <= DataCap /\ Len(ackQ'[x]) <= AckCap
    <3>1. 0 <= DataCap /\ 0 <= AckCap /\ Len(<<>>) = 0
      BY LimitFacts
    <3> QED BY <1>1, <1>2, <3>1
  <2> QED BY <1>1, <2>1, <2>2 DEF QueueInv
<1>4. DOMAIN dataQ'[e] = {} /\ DOMAIN ackQ'[e] = {}
  BY <1>2
<1>5. /\ DataOn(e)' = {air[e][j] : j \in {i \in DOMAIN air[e] : air[e][i].type = "data"}}
      /\ AcksOn(e)' = {air[e][j] : j \in {i \in DOMAIN air[e] : air[e][i].type = "ack"}}
  BY <1>2, <1>4 DEF DataOn, AcksOn
<1>6. DataOn(e)' \subseteq DataOn(e) /\ AcksOn(e)' \subseteq AcksOn(e)
  BY <1>5 DEF DataOn, AcksOn
<1>7. OrderOf(e)'
  BY <1>2, <1>4 DEF StreamOf, OrderOf
<1>8. StreamOf(e)'
  BY <1>4, <1>6, <1>7 DEF StreamOf
<1> QED BY <1>2, <1>3, <1>6, <1>8 DEF FlightKept

\* What ResetPeer and Restart have in common, with what is left of the end.
LEMMA ForgetStep ==
    ASSUME Inv, NEW e \in Ends, Fault, Forgets(e), FlightKept(e),
           UNCHANGED <<kind, sent, ever, confirmed, read>>,
           inc' \in [Ends -> Nat], snd' \in [Ends -> Senders], rd' \in [Ends -> Readers], ConnInv',
           \A x \in Ends : x # e => /\ inc'[x] = inc[x] /\ snd'[x] = snd[x]
                                    /\ rd'[x] = rd[x] /\ conn'[x] = conn[x],
           SendOf(e)',
           rd'[e].pc # "idle" => rd' = rd, Sending(e)' => UNCHANGED <<snd, inc>>,
           conn'[e].in = <<>> \/ conn'[e].in = conn[e].in
    PROVE  Inv'
<1> USE DEF Inv, EndInv
<1> DEFINE d == Other(e)
<1>0. /\ d \in Ends /\ Other(d) = e /\ d # e /\ Other(e) = d
      /\ \A x \in Ends : x = e \/ x = d
  BY EndFacts
<1> HIDE DEF d
<1>1. /\ faults \in Nat /\ faults' \in Nat /\ faults <= faults' /\ faults' \in 0 .. MaxFaults
  BY LimitFacts DEF Shape, Fault
<1>2. /\ rasm \in [Ends -> Reassemblers] /\ known \in [Ends -> SUBSET sent] /\ sent \subseteq Message
      /\ torn \subseteq sent
  BY DEF Shape, WindowInv, HistoryInv
<1>3. /\ NewReassembler \in Reassemblers /\ NewReassembler.inbound = <<>>
      /\ NewReassembler.delivered = {} /\ NewReassembler.previous = {}
  <2>1. <<>> \in Seq(Entry)
    BY SMT
  <2>2. PICK q \in Seq(Entry) : q = <<>>
    BY <2>1, Zenon
  <2>3. NewReassembler = [inbound |-> q, delivered |-> {}, previous |-> {}]
    BY <2>2 DEF NewReassembler
  <2> QED BY <2>2, <2>3 DEF Reassemblers
<1>4. rasm' \in [Ends -> Reassemblers] /\ rasm'[e] = NewReassembler /\ rasm'[d] = rasm[d]
  BY <1>0, <1>2, <1>3 DEF Forgets
<1>5. known' \in [Ends -> SUBSET sent'] /\ known'[e] = {} /\ known'[d] = known[d]
  BY <1>0, <1>2 DEF Forgets
<1>6. /\ torn' = torn \cup {m \in sent : m[1] # e} /\ torn \subseteq torn' /\ torn' \subseteq sent'
  BY <1>2 DEF Forgets
<1>7. Shape'
  <2>1. WindowInv'
    <3>1. IsFiniteSet({}) /\ Cardinality({}) = 0 /\ 0 <= MaxRecent /\ Len(<<>>) = 0
      BY LimitFacts, FS_EmptySet
    <3>0. GoodEntries(<<>>)
      BY DEF GoodEntries
    <3>2. /\ Len(rasm'[e].inbound) <= MaxRecent /\ GoodEntries(rasm'[e].inbound)
          /\ IsFiniteSet(rasm'[e].delivered) /\ Cardinality(rasm'[e].delivered) <= MaxRecent
      BY <1>3, <1>4, <3>0, <3>1
    <3>3. /\ Len(rasm'[d].inbound) <= MaxRecent /\ GoodEntries(rasm'[d].inbound)
          /\ IsFiniteSet(rasm'[d].delivered) /\ Cardinality(rasm'[d].delivered) <= MaxRecent
      BY <1>0, <1>4 DEF WindowInv, Shape
    <3> QED BY <1>0, <1>4, <3>2, <3>3 DEF WindowInv
  <2>2. HistoryInv'
    BY <1>5, <1>6 DEF HistoryInv, Shape
  <2>3. QueueInv'
    BY DEF FlightKept
  <2> QED BY <1>1, <2>1, <2>2, <2>3 DEF Shape
<1>8. TornInv'
  <2> SUFFICES ASSUME NEW a \in torn', NEW b \in sent \ torn', a[1] = b[1] PROVE Precedes(a, b)
    BY DEF TornInv
  <2>1. b[1] = e /\ b \in sent \ torn
    BY <1>6
  <2>2. a \in torn
    BY <1>6, <2>1
  <2> QED BY <2>1, <2>2 DEF TornInv
<1>9. \A x \in Ends : StreamOf(x)' /\ DataOn(x)' \subseteq DataOn(x) /\ AcksOn(x)' \subseteq AcksOn(x)
  BY FlightStreams
<1>10. SendOf(d)'
  <2>1. inc'[d] = inc[d] /\ snd'[d] = snd[d] /\ (Sending(d)' <=> Sending(d))
    BY <1>0 DEF Sending
  <2> QED BY <1>0, <1>1, <2>1, SendFrame
<1>11. ArrivalOf(e)' /\ DedupOf(e)'
  <2>1. Arrived(e)' = {}
    BY <1>3, <1>4, <1>5 DEF Arrived
  <2> QED BY <1>3, <1>4, <1>5, <2>1 DEF ArrivalOf, DedupOf
<1>12. ArrivalOf(d)' /\ DedupOf(d)'
  <2>1. DataOn(e)' \subseteq DataOn(e)
    BY <1>9
  <2> QED BY <1>0, <1>4, <1>5, <2>1, ArrivalFrame, DedupFrame
<1>13. AckOf(e)'
  <2>1. AcksOn(d)' \subseteq AcksOn(d)
    BY <1>0, <1>9
  <2>2. /\ Sending(e)' => Sending(e) /\ snd'[e].acked = snd[e].acked /\ UNCHANGED <<snd, inc>>
        /\ rd'[e].pc # "idle" => rd[e].pc # "idle" /\ rd'[e].frame = rd[e].frame
        /\ rd'[d] = rd[d]
    BY <1>0 DEF Sending
  <2>3. rd'[e].pc # "idle" => MsgOf(d, rd'[e].frame) \in sent' /\ rd'[e].frame.frag \in Fragments
    BY <1>0, <2>2 DEF AckOf
  <2>4. CASE Sending(e)'
    BY <1>0, <1>4, <1>6, <2>1, <2>2, <2>4, AckFrame
  <2>5. CASE ~Sending(e)'
    BY <1>0, <2>3, <2>5 DEF AckOf
  <2> QED BY <2>4, <2>5
<1>14. AckOf(d)'
  <2>1. /\ inc'[d] = inc[d] /\ snd'[d] = snd[d] /\ (Sending(d)' <=> Sending(d)) /\ Current(d)' = Current(d)
        /\ rd'[d] = rd[d]
    BY <1>0 DEF Sending, Current
  <2>2. ASSUME Sending(d) PROVE \A i : Stored(d, i)'
    <3>1. Current(d) \in sent /\ Current(d)[1] = d
      BY <1>0, <2>2, CurrentFacts DEF SendOf
    <3>2. Current(d)' \in torn'
      BY <1>0, <1>6, <2>1, <3>1
    <3> QED BY <3>2 DEF Stored
  <2>3. ASSUME Sending(d) PROVE Stored(d, rd[e].frame.frag)'
    BY <2>2, <2>3 DEF Stored
  <2>4. rd'[d].pc # "idle" => MsgOf(e, rd'[d].frame) \in sent' /\ rd'[d].frame.frag \in Fragments
    BY <1>0, <2>1 DEF AckOf
  <2> QED BY <1>0, <2>1, <2>2, <2>3, <2>4 DEF AckOf
<1>15. ReadOf(d)'
  BY <1>0, <1>5, <1>6, ReadFrame
<1>16. ReadOf(e)'
  <2>1. known[e] \subseteq torn'
    <3>1. ASSUME NEW n \in known[e] PROVE n \in sent /\ n[1] # e
      <4>1. n \in Arrived(e)
        BY DEF Arrived
      <4> QED BY <1>0, <4>1 DEF ArrivalOf
    <3> QED BY <1>6, <3>1
  <2>2. rd'[e].pc = "push" => rd[e].pc = "push" /\ rd'[e].frame = rd[e].frame
    OBVIOUS
  <2>3. CASE conn'[e].in = conn[e].in
    BY <1>6, <2>1, <2>2, <2>3, ReadFrame
  <2>4. CASE conn'[e].in = <<>>
    <3>1. \A n : Handed(e, n) => Handed(e, n)'
      BY <1>6, <2>1 DEF Handed
    <3>2. \A a, b : Ordered(a, b) => Ordered(a, b)'
      BY <1>6 DEF Ordered
    <3>3. rd'[e].pc = "push" => Pushed(e)' = Pushed(e) /\ rd[e].pc = "push"
      BY <2>2 DEF Pushed
    <3>4. DOMAIN conn'[e].in = {}
      BY <2>4
    <3> QED BY <3>1, <3>2, <3>3, <3>4 DEF ReadOf
  <2> QED BY <2>3, <2>4
<1> QED BY <1>0, <1>7, <1>8, <1>9, <1>10, <1>11, <1>12, <1>13, <1>14, <1>15, <1>16

LEMMA ResetPeerKeepsInv ==
    ASSUME Inv, NEW e \in Ends, ResetPeer(e)
    PROVE  Inv'
<1> USE DEF Inv, EndInv
<1>1. /\ Fault /\ Forgets(e)
      /\ UNCHANGED <<kind, snd, inc, dataQ, ackQ, air, rd, conn, sent, ever, confirmed, read>>
  BY DEF ResetPeer
<1>2. QueueInv' /\ ConnInv'
  BY <1>1 DEF Shape, QueueInv, ConnInv
<1>3. FlightKept(e)
  BY <1>1, <1>2, StreamFrame DEF FlightKept
<1>4. SendOf(e)'
  <2>1. faults \in Nat /\ faults' \in Nat /\ faults <= faults' /\ (Sending(e)' <=> Sending(e))
    BY <1>1, LimitFacts DEF Shape, Fault, Sending
  <2> QED BY <1>1, <2>1, SendFrame
<1>5. inc' \in [Ends -> Nat] /\ snd' \in [Ends -> Senders] /\ rd' \in [Ends -> Readers]
  BY <1>1 DEF Shape
<1> QED BY <1>1, <1>2, <1>3, <1>4, <1>5, ForgetStep

LEMMA RestartKeepsInv ==
    ASSUME Inv, NEW e \in Ends, Restart(e)
    PROVE  Inv'
<1> USE DEF Inv, EndInv
<1>1. /\ Fault /\ Forgets(e)
      /\ inc' = [inc EXCEPT ![e] = @ + 1] /\ snd' = [snd EXCEPT ![e] = NewSender]
      /\ dataQ' = [dataQ EXCEPT ![e] = <<>>] /\ ackQ' = [ackQ EXCEPT ![e] = <<>>]
      /\ rd' = [rd EXCEPT ![e] = IdleReader] /\ conn' = [conn EXCEPT ![e] = NewConn(conn[e].gen + 1)]
      /\ UNCHANGED <<kind, air, sent, ever, confirmed, read>>
  BY DEF Restart
<1>2. FlightKept(e)
  BY <1>1, EmptyQueuesKeepFlight
<1>3. /\ NewSender \in Senders /\ NewSender.pc = "idle" /\ NewSender.seq = 0
  BY LimitFacts DEF NewSender, Senders
<1>4. IdleReader \in Readers /\ IdleReader.pc = "idle"
  <2>1. NoFrame \in Frame
    BY LimitFacts DEF NoFrame, Frame
  <2> QED BY <2>1 DEF IdleReader, Readers
<1>5. /\ conn \in [Ends -> Conns] /\ conn[e].gen + 1 \in Nat
      /\ \A x \in Ends : Len(conn[x].in) <= InCap
  BY DEF Shape, ConnInv, Conns
<1>6. NewConn(conn[e].gen + 1) \in Conns /\ NewConn(conn[e].gen + 1).in = <<>>
  BY <1>5 DEF Conns, NewConn
<1>7. /\ conn' \in [Ends -> Conns] /\ conn'[e].in = <<>> /\ \A x \in Ends : x # e => conn'[x] = conn[x]
  BY <1>1, <1>5, <1>6
<1>8. ConnInv'
  <2>1. Len(<<>>) <= InCap
    BY LimitFacts
  <2> QED BY <1>5, <1>7, <2>1 DEF ConnInv
<1>9. /\ inc \in [Ends -> Nat] /\ inc[e] \in Nat /\ faults \in Nat /\ MaxMsgs[e] \in Nat
  BY LimitFacts DEF Shape
<1>10. /\ inc' \in [Ends -> Nat] /\ inc'[e] = inc[e] + 1 /\ \A x \in Ends : x # e => inc'[x] = inc[x]
  BY <1>1, <1>9
<1>11. /\ snd' \in [Ends -> Senders] /\ snd'[e] = NewSender /\ \A x \in Ends : x # e => snd'[x] = snd[x]
       /\ rd' \in [Ends -> Readers] /\ rd'[e] = IdleReader /\ \A x \in Ends : x # e => rd'[x] = rd[x]
  BY <1>1, <1>3, <1>4 DEF Shape
<1>12. ~Sending(e)' /\ rd'[e].pc = "idle"
  BY <1>3, <1>4, <1>11 DEF Sending
<1>13. SendOf(e)'
  <2>1. inc'[e] <= faults'
    BY <1>1, <1>9, <1>10 DEF SendOf, Fault
  <2>2. snd'[e].seq <= MaxMsgs[e] /\ snd'[e].pc # "ready"
    BY <1>3, <1>9, <1>11
  <2>3. ASSUME NEW m \in sent, m[1] = e PROVE NotAfter(m, Current(e)') /\ 1 <= m[3] /\ m[3] <= MaxMsgs[e]
    <3>1. NotAfter(m, Current(e)) /\ 1 <= m[3] /\ m[3] <= MaxMsgs[e]
      BY <2>3 DEF SendOf
    <3>2. Current(e)[2] = inc[e] /\ m[2] \in Nat
      BY <2>3, CurrentFacts, MessageFacts DEF Shape, HistoryInv
    <3>3. Current(e)'[2] = inc[e] + 1
      BY <1>10 DEF Current, Msg
    <3> QED BY <1>9, <3>1, <3>2, <3>3 DEF NotAfter
  <2> QED BY <1>1, <1>12, <2>1, <2>2, <2>3 DEF SendOf
<1> QED BY <1>1, <1>2, <1>7, <1>8, <1>10, <1>11, <1>12, <1>13, ForgetStep

-----------------------------------------------------------------------------
(* The invariant is inductive *)

LEMMA StepInv ==
    ASSUME Inv, Next
    PROVE  Inv'
<1>1. PICK e \in Ends :
        \/ Write(e) \/ SenderStep(e) \/ WriterStep(e) \/ WriteHello(e)
        \/ ReaderStep(e) \/ Read(e)
        \/ CloseConn(e) \/ ReplaceConn(e)
        \/ ResetPeer(e) \/ CloseSEI(e) \/ CloseVideo(e) \/ Restart(e)
  BY DEF Next
<1>2. CASE Write(e) \/ WaitSendReadyFails(e)
  BY <1>2, WriteKeepsInv
<1>3. CASE Register(e)
  BY <1>3, RegisterKeepsInv
<1>4. CASE QueueFragment(e)
  BY <1>4, QueueFragmentKeepsInv
<1>5. CASE SendDone(e) \/ SendClosed(e) \/ GiveUp(e)
  BY <1>5, SendEndsKeepsInv
<1>6. CASE Retransmit(e)
  BY <1>6, RetransmitKeepsInv
<1>7. CASE WriteBatch(e) \/ WriteVisual(e)
  BY <1>7, WriterKeepsInv DEF WriterStep
<1>8. CASE WriteHello(e)
  BY <1>8, WriteHelloKeepsInv
<1>9. CASE HandleSample(e) \/ HandleVisual(e)
  <2>1. TakeFrame(e) /\ Dispatch(e, Incoming(e))
    BY <1>9 DEF HandleSample, HandleVisual
  <2>2. CASE Incoming(e).type = "data" /\ DeliverFragment(e, Incoming(e)) /\ UNCHANGED snd
    BY <2>1, <2>2, DataFrameKeepsInv
  <2>3. CASE Incoming(e).type = "ack" /\ snd' = Mark(e, Incoming(e)) /\ UNCHANGED <<rasm, rd, hist>>
    BY <2>1, <2>3, PlainFrameKeepsInv
  <2>4. CASE UNCHANGED <<snd, rasm, rd, hist>>
    BY <2>1, <2>4, PlainFrameKeepsInv
  <2> QED BY <2>1, <2>2, <2>3, <2>4 DEF Dispatch
<1>10. CASE HandleDamaged(e) \/ DropFrame(e)
  BY <1>10, DropKeepsInv
<1>11. CASE OnData(e)
  BY <1>11, OnDataKeepsInv
<1>12. CASE SendAck(e)
  BY <1>12, SendAckKeepsInv
<1>13. CASE Read(e)
  BY <1>13, ReadKeepsInv
<1>14. CASE CloseConn(e) \/ ReplaceConn(e)
  BY <1>14, ConnDropsKeepsInv
<1>15. CASE CloseSEI(e) \/ CloseVideo(e)
  BY <1>15, CloseKeepsInv
<1>16. CASE ResetPeer(e)
  BY <1>16, ResetPeerKeepsInv
<1>17. CASE Restart(e)
  BY <1>17, RestartKeepsInv
<1> QED BY <1>1, <1>2, <1>3, <1>4, <1>5, <1>6, <1>7, <1>8, <1>9, <1>10, <1>11, <1>12, <1>13,
           <1>14, <1>15, <1>16, <1>17 DEF SenderStep, WriterStep, ReaderStep

\* The inductive invariant holds in every reachable state of the link, for both
\* kinds of transport: frames keep their order, the reassembler remembers the
\* latest message it handed over, and an acknowledgement of the current message
\* is backed by a stored fragment (Push, Upsert, Mark, DeliverFragment).
THEOREM LinkInvariance == Spec => []Inv
<1>1. Inv /\ [Next]_vars => Inv'
  <2> SUFFICES ASSUME Inv, [Next]_vars PROVE Inv'
    OBVIOUS
  <2>1. CASE Next
    BY <2>1, StepInv
  <2>2. CASE UNCHANGED vars
    <3>1. UNCHANGED <<kind, snd, inc, dataQ, ackQ, air, rasm, rd, conn, faults, sent, known, ever, torn,
                      confirmed, read>>
      BY <2>2 DEF vars, hist
    <3>2. FlightKept("client")
      BY <3>1, StreamFrame DEF FlightKept, Inv, EndInv, Shape, QueueInv, Ends
    <3>3. "client" \in Ends
      BY DEF Ends
    <3> QED BY <3>1, <3>2, <3>3, FlightStep
  <2> QED BY <2>1, <2>2
<1> QED BY <1>1, InitInv, PTL DEF Spec

-----------------------------------------------------------------------------
(* The stream that smux reads *)

\* What smux reads from an end keeps the order in which the other end's
\* incarnation sent it, without repetition, and queues and windows stay within
\* their caps, for every size and number (Conn.Push, Conn.Read, Reassembler).
THEOREM StreamStaysSound == Spec => []StreamIsSound
<1>1. Inv => StreamIsSound
  <2> SUFFICES ASSUME Inv PROVE TypeOK /\ ReadsInOrder
    BY DEF StreamIsSound
  <2>1. ASSUME NEW e \in Ends
        PROVE  /\ dataQ[e] \in Seq(Frame) /\ Len(dataQ[e]) <= DataCap
               /\ ackQ[e] \in Seq(Frame) /\ Len(ackQ[e]) <= AckCap
               /\ air[e] \in Seq(Frame) /\ Len(air[e]) <= AirCap
               /\ Len(rasm[e].inbound) <= MaxRecent
               /\ Cardinality(rasm[e].delivered) <= MaxRecent
               /\ rd[e].frame \in Frame
               /\ Len(conn[e].in) <= InCap
    <3>1. rd[e] \in Readers
      BY DEF Inv, Shape
    <3>2. rd[e].frame \in Frame
      BY <3>1 DEF Readers
    <3> QED BY <3>2 DEF Inv, Shape, QueueInv, WindowInv, ConnInv
  <2>2. TypeOK
    BY <2>1 DEF TypeOK, Inv, Shape, Senders
  <2>3. ReadsInOrder
    BY DEF ReadsInOrder, Inv, EndInv, ReadOf, Ordered
  <2> QED BY <2>2, <2>3
<1> QED BY <1>1, LinkInvariance, PTL

-----------------------------------------------------------------------------
(* The link implements the message channel *)

\* What an end sends is a message of its channel.
LEMMA ChannelFacts ==
    ASSUME Inv, NEW e \in Ends
    PROVE  /\ \A m \in sent : m \in ChannelMessages(e) <=> m[1] = e
           /\ snd[e].pc = "ready" => /\ Msg(e, inc[e], snd[e].seq + 1) \in ChannelMessages(e)
                                     /\ Msg(e, inc[e], snd[e].seq + 1) \notin sent
<1> USE DEF Inv, EndInv
<1>0. /\ faults \in 0 .. MaxFaults /\ MaxFaults \in Nat /\ \A x \in Ends : MaxMsgs[x] \in Nat
      /\ sent \subseteq Message
  BY LimitFacts DEF Shape, HistoryInv
<1>1. ASSUME NEW m \in sent, m[1] = e PROVE m \in ChannelMessages(e)
  <2>1. m \in Message /\ m[2] \in Nat /\ m[3] \in Nat /\ m = <<m[1], m[2], m[3]>>
    BY <1>0, MessageFacts DEF Msg
  <2>2. NotAfter(m, Current(e)) /\ 1 <= m[3] /\ m[3] <= MaxMsgs[e] /\ inc[e] <= faults
    BY <1>1 DEF SendOf
  <2>3. Current(e)[2] = inc[e] /\ inc[e] \in Nat
    BY CurrentFacts
  <2>4. m[2] <= inc[e]
    BY <2>1, <2>2, <2>3 DEF NotAfter
  <2>5. m[2] \in 0 .. MaxFaults
    BY <1>0, <2>1, <2>2, <2>3, <2>4
  <2>6. m[3] \in 1 .. MaxMsgs[e]
    BY <1>0, <2>1, <2>2
  <2> QED BY <1>1, <2>1, <2>5, <2>6 DEF ChannelMessages
<1>2. ASSUME NEW m \in ChannelMessages(e) PROVE m[1] = e
  BY DEF ChannelMessages
<1>3. ASSUME snd[e].pc = "ready"
      PROVE  /\ Msg(e, inc[e], snd[e].seq + 1) \in ChannelMessages(e)
             /\ Msg(e, inc[e], snd[e].seq + 1) \notin sent
  <2>1. /\ inc[e] \in Nat /\ snd[e].seq \in Nat /\ inc[e] <= faults /\ snd[e].seq < MaxMsgs[e]
        /\ Current(e)[2] = inc[e] /\ Current(e)[3] = snd[e].seq
    BY <1>3, CurrentFacts DEF SendOf
  <2> DEFINE m == Msg(e, inc[e], snd[e].seq + 1)
  <2>2. m[1] = e /\ m[2] = inc[e] /\ m[3] = snd[e].seq + 1 /\ m = <<e, inc[e], snd[e].seq + 1>>
    BY DEF Msg
  <2> HIDE DEF m
  <2>3. inc[e] \in 0 .. MaxFaults /\ snd[e].seq + 1 \in 1 .. MaxMsgs[e]
    BY <1>0, <2>1
  <2>4. m \in ChannelMessages(e)
    BY <2>2, <2>3 DEF ChannelMessages
  <2>5. ~NotAfter(m, Current(e))
    BY <2>1, <2>2 DEF NotAfter
  <2> QED BY <2>2, <2>4, <2>5 DEF m, SendOf
<1> QED BY <1>1, <1>2, <1>3

\* When every fragment is acknowledged the message was handed over or torn: a
\* complete message does not stay in the reassembler.
LEMMA AckedIsHandedOver ==
    ASSUME Inv, NEW e \in Ends, Sending(e), snd[e].acked = Fragments
    PROVE  Current(e) \in ever \cup torn
<1> USE DEF Inv, EndInv
<1> SUFFICES ASSUME Current(e) \notin ever \cup torn PROVE FALSE
  OBVIOUS
<1> DEFINE q == rasm[Other(e)].inbound
<1>1. Other(e) \in Ends
  BY EndFacts
<1>2. \A i \in Fragments : \E k \in DOMAIN q : MsgOf(e, q[k]) = Current(e) /\ i \in q[k].got
  BY DEF AckOf, Stored
<1>3. q \in Seq(Entry) /\ GoodEntries(q)
  BY <1>1 DEF Shape, WindowInv, Reassemblers
<1> HIDE DEF q
<1>4. 1 \in Fragments
  BY LimitFacts DEF Fragments
<1>5. PICK k \in DOMAIN q : MsgOf(e, q[k]) = Current(e)
  BY <1>2, <1>4
<1>6. \A l \in DOMAIN q : MsgOf(e, q[l]) = Current(e) => l = k
  <2>1. \A l \in DOMAIN q : MsgOf(e, q[l])[3] = q[l].seq
    BY DEF MsgOf, Msg
  <2> QED BY <1>3, <1>5, <2>1 DEF GoodEntries
<1>7. Fragments \subseteq q[k].got
  BY <1>2, <1>6
<1>8. q[k].got \subseteq Fragments
  <2>1. q[k] \in Entry
    BY <1>3
  <2> QED BY <2>1 DEF Entry
<1>9. q[k].got = Fragments
  BY ONLY <1>7, <1>8, Zenon
<1> QED BY <1>3, <1>9, Zenon DEF GoodEntries

LEMMA StepRefines ==
    ASSUME Inv, Next
    PROVE  [Channel!Next]_(Channel!vars)
<1> USE DEF Inv, EndInv
<1>1. PICK e \in Ends :
        \/ Write(e) \/ SenderStep(e) \/ WriterStep(e) \/ WriteHello(e)
        \/ ReaderStep(e) \/ Read(e)
        \/ CloseConn(e) \/ ReplaceConn(e)
        \/ ResetPeer(e) \/ CloseSEI(e) \/ CloseVideo(e) \/ Restart(e)
  BY DEF Next
<1>2. \A m \in sent : m \in ChannelMessages(e) <=> m[1] = e
  BY ChannelFacts
<1>3. CASE Register(e)
  <2> DEFINE m == Msg(e, inc[e], snd[e].seq + 1)
  <2>1. m \in ChannelMessages(e) \ sent
    BY <1>3, ChannelFacts DEF Register
  <2>2. sent' = sent \cup {m} /\ UNCHANGED <<known, ever, torn, confirmed>>
    BY <1>3 DEF Register
  <2> HIDE DEF m
  <2>3. Channel!Send(e)
    BY <2>1, <2>2 DEF Channel!Send
  <2> QED BY <2>3 DEF Channel!Next
<1>4. CASE SendDone(e)
  <2>1. Sending(e) /\ snd[e].acked = Fragments
    BY <1>4 DEF SendDone, Sending, Done
  <2>2. Current(e) \in ever \cup torn
    BY <2>1, AckedIsHandedOver
  <2>3. Current(e) \in sent \ confirmed /\ Current(e)[1] = e
    BY <2>1, CurrentFacts DEF SendOf
  <2>4. confirmed' = confirmed \cup {Current(e)} /\ UNCHANGED <<sent, known, ever, torn>>
    BY <1>4 DEF SendDone
  <2>5. Channel!Confirm(e)
    BY <1>2, <2>2, <2>3, <2>4 DEF Channel!Confirm
  <2> QED BY <2>5 DEF Channel!Next
<1>5. CASE HandleSample(e) \/ HandleVisual(e)
  <2>1. TakeFrame(e) /\ Dispatch(e, Incoming(e))
    BY <1>5 DEF HandleSample, HandleVisual
  <2>2. CASE UNCHANGED hist
    BY <2>2 DEF hist, Channel!vars
  <2>3. CASE Incoming(e).type = "data" /\ DeliverFragment(e, Incoming(e))
    <3> DEFINE m == MsgOf(Other(e), Incoming(e))
               handed == Push(rasm[e], Incoming(e)).result = "delivered"
    <3>1. /\ known' = IF handed THEN [known EXCEPT ![e] = @ \cup {m}] ELSE known
          /\ ever' = IF handed THEN ever \cup {m} ELSE ever
          /\ UNCHANGED <<sent, torn, confirmed>>
      BY <2>3 DEF DeliverFragment, MsgOf
    <3>2. m \in sent /\ m[1] = Other(e) /\ (handed => m \notin known[e])
      BY <2>1, <2>3, FragmentFacts
    <3> HIDE DEF m, handed
    <3>3. CASE ~handed
      BY <3>1, <3>3 DEF Channel!vars
    <3>4. CASE handed
      <4>1. m \in sent \ (ChannelMessages(e) \cup known[e])
        BY <1>2, <3>2, <3>4, EndFacts
      <4>2. Channel!HandOver(e)
        BY <3>1, <3>4, <4>1 DEF Channel!HandOver
      <4> QED BY <4>2 DEF Channel!Next
    <3> QED BY <3>3, <3>4
  <2> QED BY <2>1, <2>2, <2>3 DEF Dispatch
<1>6. CASE ResetPeer(e) \/ Restart(e)
  <2>1. Forgets(e) /\ UNCHANGED <<sent, ever, confirmed>>
    BY <1>6 DEF ResetPeer, Restart
  <2>2. {m \in sent : m[1] # e} = sent \ ChannelMessages(e)
    BY <1>2
  <2>3. Channel!Forget(e)
    BY <2>1, <2>2 DEF Forgets, Channel!Forget
  <2> QED BY <2>3 DEF Channel!Next
<1>7. CASE \/ Write(e) \/ WaitSendReadyFails(e) \/ QueueFragment(e) \/ Retransmit(e)
           \/ SendClosed(e) \/ GiveUp(e)
  BY <1>7 DEF Write, WaitSendReadyFails, QueueFragment, Retransmit, SendClosed, GiveUp, Fails, hist,
              Channel!vars
<1>8. CASE WriterStep(e) \/ WriteHello(e)
  BY <1>8 DEF WriterStep, WriteBatch, WriteVisual, WriteHello, hist, Channel!vars
<1>9. CASE HandleDamaged(e) \/ DropFrame(e) \/ OnData(e) \/ SendAck(e) \/ Read(e)
  BY <1>9 DEF HandleDamaged, DropFrame, OnData, SendAck, Read, hist, Channel!vars
<1>10. CASE CloseConn(e) \/ ReplaceConn(e) \/ CloseSEI(e) \/ CloseVideo(e)
  BY <1>10 DEF CloseConn, ReplaceConn, CloseSEI, CloseVideo, hist, Channel!vars
<1> QED BY <1>1, <1>3, <1>4, <1>5, <1>6, <1>7, <1>8, <1>9, <1>10 DEF SenderStep, ReaderStep

\* The transport implements the message channel: a message is handed to the
\* conn at most once by a receiver that keeps its state, and Send reports
\* success only for a message that was handed over or that a reset tore.
THEOREM LinkRefinesChannel == Spec => ImplementsChannel
<1>1. Init => Channel!Init
  BY DEF Init, Channel!Init
<1>2. Inv /\ [Next]_vars => [Channel!Next]_(Channel!vars)
  <2> SUFFICES ASSUME Inv, [Next]_vars PROVE [Channel!Next]_(Channel!vars)
    OBVIOUS
  <2>1. CASE Next
    BY <2>1, StepRefines
  <2>2. CASE UNCHANGED vars
    BY <2>2 DEF vars, hist, Channel!vars
  <2> QED BY <2>1, <2>2
<1> QED BY <1>1, <1>2, LinkInvariance, PTL DEF Spec, ImplementsChannel, Channel!Spec
=============================================================================
