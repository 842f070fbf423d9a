-------------------------- MODULE ControlLiveness ---------------------------
(***************************************************************************)
(* control.Run at both ends of the control stream: each end probes its     *)
(* peer every Interval, answers the peer's probes, counts the probes that  *)
(* stayed unanswered for Timeout, and gives up after Failures of them.     *)
(*                                                                         *)
(* An end is three goroutines around a bounded channel `out`: the prober   *)
(* and the reader put messages in, the writer takes them out.  Each of     *)
(* them may be blocked with one message in hand.  Below is a smux stream,  *)
(* reliable and in order, with a send window of StreamWindow messages,     *)
(* that the conference may stall in either direction for any time.         *)
(*                                                                         *)
(* Time is counted in ticks.  A tick passes only when no goroutine can     *)
(* move: goroutines are fast compared to seconds.  Sequence numbers are    *)
(* modulo SeqMod, more than are ever outstanding.                          *)
(***************************************************************************)
EXTENDS Integers, Sequences, FiniteSets

CONSTANTS
    Interval,        \* Config.Interval, in ticks
    Timeout,         \* Config.Timeout, in ticks
    Failures,        \* Config.Failures
    OutCap,          \* capacity of state.out, 16
    StreamWindow,    \* messages a stalled smux stream takes before writes block
    SeqMod,          \* bound: sequence numbers wrap here instead of at 2^64
    MayClose         \* whether the ends may be shut down and writes may fail

\* When writes block, the end's own probes and its answers to the peer's probes
\* pile up in the channel.  It holds those of the time it takes to give up:
\* otherwise the prober blocks before it can count.
ASSUME LivenessAssumption ==
    /\ Interval \in Nat \ {0} /\ Timeout \in Nat \ {0} /\ Failures \in Nat \ {0}
    /\ (OutCap + 1) * Interval >= 2 * (Timeout + Failures * Interval)
    /\ SeqMod * Interval > Timeout + (Failures + 2) * Interval

Ends == {"client", "server"}

Peer(e) == CHOOSE p \in Ends : p # e

Seqs == 0..(SeqMod - 1)

None == [type |-> "none", seq |-> 0]
Ping(q) == [type |-> "ping", seq |-> q]
Pong(q) == [type |-> "pong", seq |-> q]
Close == [type |-> "close", seq |-> 0]

Messages == {Close} \cup {Ping(q) : q \in Seqs} \cup {Pong(q) : q \in Seqs}

VARIABLES
    status,     \* "running", or how Run ended
    pending,    \* state.pending: age of each outstanding probe, -1 if none
    nextSeq,    \* state.nextSeq
    failures,   \* state.failures
    timer,      \* ticks until the ticker fires
    ticked,     \* a tick is waiting in ticker.C
    probing,    \* message the probe loop is about to enqueue
    answering,  \* message the read loop is about to enqueue
    writing,    \* message the write loop is about to write
    out,        \* state.out
    stream,     \* the smux stream towards an end
    stalled,    \* the conference carries nothing towards an end
    quiet       \* history: ticks since Run began or the last matching pong

probeVars == <<pending, nextSeq, failures>>
loopVars == <<probing, answering, writing, out>>
linkVars == <<stream, stalled>>
timeVars == <<timer, ticked>>
vars == <<status, probeVars, loopVars, linkVars, timeVars, quiet>>

Absent == -1

\* A running end hears a matching pong at least this often, or gives up.
Longest == Timeout + (Failures + 1) * Interval

Init ==
    /\ status = [e \in Ends |-> "running"]
    /\ pending = [e \in Ends |-> [q \in Seqs |-> Absent]]
    /\ nextSeq = [e \in Ends |-> 0]
    /\ failures = [e \in Ends |-> 0]
    /\ timer \in [Ends -> 1..Interval]
    /\ ticked = [e \in Ends |-> FALSE]
    /\ probing = [e \in Ends |-> None]
    /\ answering = [e \in Ends |-> None]
    /\ writing = [e \in Ends |-> None]
    /\ out = [e \in Ends |-> <<>>]
    /\ stream = [e \in Ends |-> <<>>]
    /\ stalled = [e \in Ends |-> FALSE]
    /\ quiet = [e \in Ends |-> 0]

-----------------------------------------------------------------------------
(* Run returns: the context is cancelled and the loops end. *)

Reset(f, e, v) == [f EXCEPT ![e] = v]

End(e, how) ==
    /\ status' = Reset(status, e, how)
    /\ pending' = Reset(pending, e, [q \in Seqs |-> Absent])
    /\ nextSeq' = Reset(nextSeq, e, 0)
    /\ failures' = Reset(failures, e, 0)
    /\ ticked' = Reset(ticked, e, FALSE)
    /\ probing' = Reset(probing, e, None)
    /\ answering' = Reset(answering, e, None)
    /\ writing' = Reset(writing, e, None)
    /\ out' = Reset(out, e, <<>>)

-----------------------------------------------------------------------------
(* The probe loop *)

Expired(e) == {q \in Seqs : pending[e][q] >= Timeout}

\* The expired probes are forgotten and counted.
Unexpired(e) == [q \in Seqs |-> IF q \in Expired(e) THEN Absent ELSE pending[e][q]]

Missed(e) == failures[e] + Cardinality(Expired(e))

CanProbe(e) == status[e] = "running" /\ ticked[e] /\ probing[e] = None

Unhealthy(e) == Missed(e) >= Failures

GiveUp(e) ==
    /\ CanProbe(e)
    /\ Unhealthy(e)
    /\ End(e, "unhealthy")
    /\ UNCHANGED <<linkVars, timer, quiet>>

SendProbe(e) ==
    /\ CanProbe(e)
    /\ ~Unhealthy(e)
    /\ LET q == (nextSeq[e] + 1) % SeqMod
       IN  /\ nextSeq' = [nextSeq EXCEPT ![e] = q]
           /\ pending' = [pending EXCEPT ![e] = [Unexpired(e) EXCEPT ![q] = 0]]
           /\ probing' = [probing EXCEPT ![e] = Ping(q)]
    /\ failures' = [failures EXCEPT ![e] = Missed(e)]
    /\ ticked' = [ticked EXCEPT ![e] = FALSE]
    /\ UNCHANGED <<status, answering, writing, out, linkVars, timer, quiet>>

-----------------------------------------------------------------------------
(* The channel between the loops *)

\* Mutant: a channel with room for one message.
HasRoomForOne(e) == Len(out[e]) < 1

HasRoom(e) == Len(out[e]) < OutCap

CanEnqueue(e, hand) == hand[e] # None /\ HasRoom(e)

EnqueuePing(e) ==
    /\ CanEnqueue(e, probing)
    /\ out' = [out EXCEPT ![e] = Append(@, probing[e])]
    /\ probing' = [probing EXCEPT ![e] = None]
    /\ UNCHANGED <<status, probeVars, answering, writing, linkVars, timeVars, quiet>>

EnqueuePong(e) ==
    /\ CanEnqueue(e, answering)
    /\ out' = [out EXCEPT ![e] = Append(@, answering[e])]
    /\ answering' = [answering EXCEPT ![e] = None]
    /\ UNCHANGED <<status, probeVars, probing, writing, linkVars, timeVars, quiet>>

CanTake(e) == writing[e] = None /\ out[e] # <<>>

TakeMessage(e) ==
    /\ CanTake(e)
    /\ writing' = [writing EXCEPT ![e] = Head(out[e])]
    /\ out' = [out EXCEPT ![e] = Tail(@)]
    /\ UNCHANGED <<status, probeVars, probing, answering, linkVars, timeVars, quiet>>

CanWrite(e) == writing[e] # None /\ Len(stream[Peer(e)]) < StreamWindow

WriteFrame(e) ==
    /\ CanWrite(e)
    /\ stream' = [stream EXCEPT ![Peer(e)] = Append(@, writing[e])]
    /\ writing' = [writing EXCEPT ![e] = None]
    /\ UNCHANGED <<status, probeVars, probing, answering, out, stalled, timeVars, quiet>>

\* A blocked write fails when the transport stays busy or smux gives up.
WriteError(e) ==
    /\ MayClose
    /\ writing[e] # None /\ ~CanWrite(e)
    /\ End(e, "error")
    /\ UNCHANGED <<linkVars, timer, quiet>>

-----------------------------------------------------------------------------
(* The read loop *)

CanRead(e) ==
    /\ status[e] = "running"
    /\ answering[e] = None
    /\ ~stalled[e]
    /\ stream[e] # <<>>

Arriving(e) == Head(stream[e])

Received(e) == stream' = [stream EXCEPT ![e] = Tail(@)]

ReadPing(e) ==
    /\ CanRead(e)
    /\ Arriving(e).type = "ping"
    /\ Received(e)
    /\ answering' = [answering EXCEPT ![e] = Pong(Arriving(e).seq)]
    /\ UNCHANGED <<status, probeVars, probing, writing, out, stalled, timeVars, quiet>>

\* Mutant: an answered probe stays pending.
handlePongKeeps(e, q) ==
    /\ failures' = [failures EXCEPT ![e] = IF pending[e][q] = Absent THEN @ ELSE 0]
    /\ quiet' = [quiet EXCEPT ![e] = IF pending[e][q] = Absent THEN @ ELSE 0]
    /\ UNCHANGED pending

\* A pong counts only while its probe is pending; a late one is ignored.
handlePong(e, q) ==
    IF pending[e][q] = Absent
    THEN UNCHANGED <<pending, failures, quiet>>
    ELSE /\ pending' = [pending EXCEPT ![e] = [@ EXCEPT ![q] = Absent]]
         /\ failures' = [failures EXCEPT ![e] = 0]
         /\ quiet' = [quiet EXCEPT ![e] = 0]

ReadPong(e) ==
    /\ CanRead(e)
    /\ Arriving(e).type = "pong"
    /\ Received(e)
    /\ handlePong(e, Arriving(e).seq)
    /\ UNCHANGED <<status, nextSeq, loopVars, stalled, timeVars>>

ReadClose(e) ==
    /\ CanRead(e)
    /\ Arriving(e).type = "close"
    /\ Received(e)
    /\ End(e, "closed")
    /\ UNCHANGED <<stalled, timer, quiet>>

\* The peer's Run has closed the stream and everything it sent was read.
CanFail(e) ==
    /\ status[e] = "running"
    /\ answering[e] = None
    /\ ~stalled[e]
    /\ stream[e] = <<>>
    /\ status[Peer(e)] # "running"

ReadError(e) ==
    /\ CanFail(e)
    /\ End(e, "error")
    /\ UNCHANGED <<linkVars, timer, quiet>>

-----------------------------------------------------------------------------
(* The owner and the environment *)

\* shutdown: NotifyControlClose writes the close frame if the window allows it,
\* and the context is cancelled.
Shutdown(e) ==
    /\ MayClose
    /\ status[e] = "running"
    /\ End(e, "canceled")
    /\ stream' = IF Len(stream[Peer(e)]) < StreamWindow
                 THEN [stream EXCEPT ![Peer(e)] = Append(@, Close)]
                 ELSE stream
    /\ UNCHANGED <<stalled, timer, quiet>>

CanMove(e) ==
    \/ CanProbe(e)
    \/ CanEnqueue(e, probing)
    \/ CanEnqueue(e, answering)
    \/ CanTake(e)
    \/ CanWrite(e)
    \/ CanRead(e)
    \/ CanFail(e)

Older(age) == IF age \in 0..(Timeout - 1) THEN age + 1 ELSE age

\* A tick passes, and the conference carries or stalls each direction for the
\* next one.  A ticker that nobody drains keeps one tick.
Tick ==
    /\ \A e \in Ends : ~CanMove(e)
    /\ \E e \in Ends : status[e] = "running"
    /\ pending' = [e \in Ends |-> [q \in Seqs |-> Older(pending[e][q])]]
    /\ timer' = [e \in Ends |-> IF timer[e] = 1 THEN Interval ELSE timer[e] - 1]
    /\ ticked' = [e \in Ends |-> status[e] = "running" /\ (ticked[e] \/ timer[e] = 1)]
    /\ stalled' \in [Ends -> BOOLEAN]
    /\ quiet' = [e \in Ends |-> IF status[e] = "running" /\ quiet[e] <= Longest
                                THEN quiet[e] + 1 ELSE quiet[e]]
    /\ UNCHANGED <<status, nextSeq, failures, loopVars, stream>>

Step(e) ==
    \/ GiveUp(e) \/ SendProbe(e) \/ EnqueuePing(e) \/ EnqueuePong(e)
    \/ TakeMessage(e) \/ WriteFrame(e)
    \/ ReadPing(e) \/ ReadPong(e) \/ ReadClose(e) \/ ReadError(e)

Next == Tick \/ \E e \in Ends : Step(e) \/ Shutdown(e) \/ WriteError(e)

Spec == Init /\ [][Next]_vars

-----------------------------------------------------------------------------
(* Properties *)

TypeOK ==
    /\ status \in [Ends -> {"running", "unhealthy", "closed", "error", "canceled"}]
    /\ pending \in [Ends -> [Seqs -> Absent..Timeout]]
    /\ nextSeq \in [Ends -> Seqs]
    /\ failures \in [Ends -> 0..(Failures - 1)]
    /\ timer \in [Ends -> 1..Interval]
    /\ ticked \in [Ends -> BOOLEAN]
    /\ probing \in [Ends -> {None} \cup Messages]
    /\ answering \in [Ends -> {None} \cup Messages]
    /\ writing \in [Ends -> {None} \cup Messages]
    /\ \A e \in Ends : Len(out[e]) <= OutCap /\ Len(stream[e]) <= StreamWindow
    /\ stalled \in [Ends -> BOOLEAN]
    /\ quiet \in [Ends -> 0..(Longest + 1)]

\* Nobody gives up early: an end that declares its peer unhealthy has had no
\* matching pong for at least this long, whatever the delays were.
DeathNeedsSilence ==
    \A e \in Ends : status[e] = "unhealthy" => quiet[e] >= Failures * Interval

\* The bookkeeping of probes stays in bounds and nobody gives up early.
DeathIsJustified == TypeOK /\ DeathNeedsSilence

\* Nobody hangs on: a running end has heard a matching pong less than Longest
\* ticks ago, even when its writes block, its channel fills up, or each read loop
\* waits on a channel whose writer waits for the other read loop: such a circle
\* never keeps the prober from counting.
SilenceIsNoticed ==
    \A e \in Ends : status[e] = "running" => quiet[e] < Longest
=============================================================================
