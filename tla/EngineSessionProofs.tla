------------------------ MODULE EngineSessionProofs -------------------------
(***************************************************************************)
(* OneConnection, RepairIsUnderWay and CloseIsFinal for every limit, every *)
(* number of connections, faults and calls, and each of the three engines. *)
(*                                                                         *)
(* The invariant has a part for the supervisor (Reconnector) and one for   *)
(* each engine.  An engine's part says which of the resources it holds it  *)
(* still knows at each step of its reconnect: what a step loses sight of   *)
(* would stay in the room for ever.  It also follows the news of a failure *)
(* from the callback that has it to the queue, through an attempt that     *)
(* meanwhile refuses it, and back to the select.                           *)
(***************************************************************************)
EXTENDS EngineSession, TLAPS

Watches == {"idle", "request", "retry", "attempt", "backoff", "drain", "limit", "ending", "stopped"}

\* The counter passes the limit once, and Watch then gives up.
CountInv ==
    /\ count \in Nat
    /\ count <= maxAttempts
       \/ (count = maxAttempts + 1 /\ watch \in {"limit", "ending", "stopped"})
       \/ (count = maxAttempts + 1 /\ kind = "jitsi" /\ watch \in {"backoff", "retry"})

\* The supervisor and the bookkeeping of connections.
CommonInv ==
    /\ scene \in Scenes
    /\ queue \in BOOLEAN /\ cancelled \in BOOLEAN /\ done \in BOOLEAN
    /\ ended \in BOOLEAN /\ missed \in BOOLEAN /\ raced \in BOOLEAN
    /\ watch \in Watches
    /\ (step # "none") <=> (watch = "attempt")
    /\ open \subseteq Resources \X (1..made)
    /\ made \in 1..scene.conns
    /\ failed \subseteq 1..made
    /\ calls \in 0..scene.calls
    /\ CountInv

\* News of a failure that somebody still has, or that an attempt has swallowed.
Heard == queue \/ missed \/ notices # {}

\* The select, or the way back to it after a success.
Resting == watch \in {"idle", "drain"}

(***************************************************************************)
(* LiveKit: the rooms in existence are the session's and the one reconnect *)
(* is about to set.                                                        *)
(***************************************************************************)
LiveKitRecord ==
    [closed : BOOLEAN, reconnecting : BOOLEAN, room : Nat, next : Nat,
     shutdown : {"no", "signalled", "waiting", "over"}, worker : {"idle", "waiting", "gone"}]

RoomInv ==
    /\ open \subseteq {<<"room", s.room>>, <<"room", s.next>>}
    /\ step # "set" => s.next = 0
    /\ step \in {"connect", "set"} => s.room = 0

\* closed comes before every shutdown.
ShutdownInv ==
    s.shutdown # "no" \/ closer # "no" \/ watch = "ending" \/ (\E n \in notices : n[2] = "ending")
        => s.closed

LiveKitNews ==
    ~s.closed /\ ~ended /\ ~cancelled =>
        /\ Resting => s.room # 0
        /\ Resting \/ step = "publish" => (s.room \in failed => Heard)
        /\ step = "set" => (s.next \in failed => Heard)

LiveKitInv ==
    /\ s \in LiveKitRecord
    /\ step \in {"none", "begin", "connect", "set", "publish"}
    /\ step \in {"connect", "set", "publish"} => s.reconnecting
    /\ RoomInv /\ ShutdownInv /\ LiveKitNews

(***************************************************************************)
(* Goolom: closed may be cleared by the Connect of a reconnect, terminated *)
(* never is.                                                               *)
(***************************************************************************)
GoolomRecord ==
    [closed : BOOLEAN, reconnecting : BOOLEAN, terminated : BOOLEAN, pc : Nat, ws : Nat,
     running : BOOLEAN, readers : SUBSET Nat, asking : BOOLEAN, goClosed : BOOLEAN]

\* What is open is published in the session, at every step of reconnect.
PublishedInv ==
    /\ s.pc \in 1..made
    /\ open \subseteq {<<"pc", s.pc>>, <<"ws", s.ws>>}
    /\ step \in {"refresh", "clear", "setup"} => open = {}
    /\ step \in {"session", "dial"} => open \subseteq {<<"pc", s.pc>>}

\* After Close has begun no attempt gets past its check, unless it had before.
TerminatedInv ==
    /\ closer # "no" <=> s.terminated
    /\ s.closed => ended \/ s.terminated
    /\ s.terminated /\ ~raced => step \in {"none", "begin"}
    /\ closer = "returned" /\ ~raced => open = {}
    /\ Resting /\ s.terminated => s.closed

GoolomNews ==
    ~s.terminated /\ ~ended /\ ~cancelled =>
        /\ Resting \/ step \in {"session", "dial", "wait", "check"} =>
              (s.pc \in failed => Heard \/ s.asking)
        /\ Resting \/ step \in {"dial", "wait", "check"} =>
              (~s.running => Heard \/ s.asking)

GoolomInv ==
    /\ s \in GoolomRecord
    /\ step \in {"none", "begin", "leave", "refresh", "clear", "setup", "session", "dial", "wait", "check"}
    /\ step \notin {"none", "begin"} => s.reconnecting
    /\ closer \in {"no", "closing", "stopped", "returned"}
    /\ PublishedInv /\ TerminatedInv /\ GoolomNews

(***************************************************************************)
(* Jitsi: the MUC sessions in existence are the one in jSess and the one   *)
(* reconnect holds, until Close takes part.                                *)
(***************************************************************************)
JitsiRecord ==
    [closed : BOOLEAN, reconnecting : BOOLEAN, jSess : Nat, pc : Nat, bridgeReady : BOOLEAN,
     waiters : SUBSET (Nat \X {"wait", "setup"}), loops : 0..2, loop : [muc : Nat, current : BOOLEAN],
     mine : Nat, nested : BOOLEAN, loaded : Nat, goClosed : BOOLEAN]

JitsiSteps == {"none", "begin", "join", "fulljoin", "install", "parkinstall", "fullinstall", "store",
               "parkstore", "fullstore", "recheck", "parkrecheck", "fullrecheck", "reinitiate",
               "finish", "offer"}
Joining == {"join", "fulljoin", "offer", "install", "parkinstall", "fullinstall",
            "store", "parkstore", "fullstore"}
Installed == {"recheck", "parkrecheck", "fullrecheck", "reinitiate", "finish"}

MucInv ==
    /\ \A g \in Nat : <<"pc", g>> \in open => g = s.pc
    /\ \A x \in open : x[1] \in {"pc", "muc"}
    /\ \A w \in s.waiters : w[1] \in 1..made
    /\ s.mine \in 0..made /\ s.jSess \in 0..made
    /\ step \in {"none", "begin", "join", "fulljoin"} => s.mine = 0
    /\ step \in JitsiSteps \ {"none", "begin", "join", "fulljoin"} => s.mine # 0
    /\ ~s.closed =>
          /\ \A g \in Nat : <<"muc", g>> \in open => g \in {s.jSess, s.mine}
          /\ step \in Joining => s.jSess = 0
          /\ step \in Installed => s.jSess = s.mine

JitsiCloseInv ==
    /\ closer # "no" <=> s.closed
    /\ done \/ s.goClosed => s.closed
    /\ s.closed /\ ~raced =>
          /\ step \in {"none", "begin"}
          /\ \A w \in s.waiters : w[2] = "wait"
          /\ closer = "closing" => \A g \in Nat : <<"muc", g>> \in open => g = s.jSess
          /\ closer = "loaded" => \A g \in Nat : <<"muc", g>> \in open => g = s.loaded
          /\ closer \in {"closed", "returned"} => open = {}

\* A bridge that is up has a reader, or one on its way.
JitsiNews ==
    ~s.closed /\ ~ended /\ ~cancelled /\ Resting =>
        /\ s.jSess # 0
        /\ s.bridgeReady =>
              \/ Heard \/ s.loops > 0 \/ s.waiters # {}
              \/ s.loop.muc = s.jSess /\ s.loop.current
        /\ s.jSess \in failed /\ ~s.bridgeReady => Heard \/ \E w \in s.waiters : w[2] = "wait"

JitsiInv ==
    /\ s \in JitsiRecord
    /\ step \in JitsiSteps
    /\ step \notin {"none", "begin"} => s.reconnecting
    /\ closer \in {"no", "closing", "loaded", "closed", "returned"}
    /\ MucInv /\ JitsiCloseInv /\ JitsiNews

Inv ==
    /\ CommonInv
    /\ kind = "livekit" => LiveKitInv
    /\ kind = "goolom" => GoolomInv
    /\ kind = "jitsi" => JitsiInv


-----------------------------------------------------------------------------
USE DEF kind, Watches

\* What the assumption on the constants says of the scene.
LEMMA SceneFacts ==
  ASSUME CommonInv
  PROVE  /\ maxAttempts \in Nat \ {0}
         /\ scene.conns \in Nat /\ scene.calls \in Nat
         /\ scene.kind \in {"livekit", "goolom", "jitsi"}
         /\ made \in Nat /\ made # 0
  BY ReconnectorAssumption DEF CommonInv

LEMMA LiveKitLeave ==
  ASSUME CommonInv, LiveKitInv, kind = "livekit", LiveKit!LeaveRoom
  PROVE  CommonInv' /\ LiveKitInv'
<1>1. /\ step = "begin" /\ step' = "connect"
      /\ s' = [s EXCEPT !.reconnecting = TRUE, !.room = 0]
      /\ open' = open \ {<<"room", s.room>>}
      /\ UNCHANGED <<scene, queue, watch, count, cancelled, done, closer, ended, calls, made, failed,
                     notices, missed, raced>>
  BY DEF LiveKit!LeaveRoom, LiveKit!supervisor, LiveKit!caller, LiveKit!history
<1>2. s' \in LiveKitRecord
  BY <1>1 DEF LiveKitInv, LiveKitRecord
<1>3. CommonInv'
  BY <1>1 DEF CommonInv, CountInv
<1>4. RoomInv' /\ ShutdownInv' /\ LiveKitNews'
  BY <1>1, <1>2 DEF CommonInv, LiveKitInv, LiveKitRecord, RoomInv, ShutdownInv, LiveKitNews, Resting
<1> QED BY <1>1, <1>2, <1>3, <1>4 DEF LiveKitInv, LiveKitRecord


LEMMA LiveKitConnect ==
  ASSUME CommonInv, LiveKitInv, kind = "livekit", LiveKit!ConnectRoom
  PROVE  CommonInv' /\ LiveKitInv'
<1>1. /\ step = "connect" /\ step' = "set" /\ made < scene.conns /\ made' = made + 1
      /\ s' = [s EXCEPT !.next = made + 1]
      /\ open' = open \cup {<<"room", made + 1>>}
      /\ UNCHANGED <<scene, queue, watch, count, cancelled, done, closer, ended, calls, failed,
                     notices, missed, raced>>
  BY DEF LiveKit!ConnectRoom, LiveKit!supervisor, LiveKit!caller, LiveKit!history
<1>2. s' \in LiveKitRecord
  BY <1>1, SceneFacts DEF LiveKitInv, LiveKitRecord
<1>3. made' \in 1..scene.conns /\ 1..made \subseteq 1..made' /\ made + 1 \in 1..made' /\ made + 1 \notin failed
  BY <1>1, SceneFacts DEF CommonInv
<1>4. CommonInv'
  BY <1>1, <1>3 DEF CommonInv, CountInv, Resources
<1>5. RoomInv' /\ ShutdownInv' /\ LiveKitNews'
  BY <1>1, <1>2, <1>3 DEF CommonInv, LiveKitInv, LiveKitRecord, RoomInv, ShutdownInv, LiveKitNews, Resting
<1> QED BY <1>1, <1>2, <1>4, <1>5 DEF LiveKitInv, LiveKitRecord

LEMMA LiveKitSet ==
  ASSUME CommonInv, LiveKitInv, kind = "livekit", LiveKit!SetRoom
  PROVE  CommonInv' /\ LiveKitInv'
<1>1. /\ step = "set" /\ step' = "publish"
      /\ s' = [s EXCEPT !.room = s.next, !.next = 0]
      /\ UNCHANGED <<scene, queue, watch, count, cancelled, done, closer, ended, calls, open, made, failed,
                     notices, missed, raced>>
  BY DEF LiveKit!SetRoom, LiveKit!supervisor, LiveKit!caller, LiveKit!history, LiveKit!links
<1>2. s' \in LiveKitRecord
  BY <1>1 DEF LiveKitInv, LiveKitRecord
<1>3. CommonInv'
  BY <1>1 DEF CommonInv, CountInv
<1>4. RoomInv' /\ ShutdownInv' /\ LiveKitNews'
  BY <1>1, <1>2, SceneFacts
     DEF CommonInv, LiveKitInv, LiveKitRecord, RoomInv, ShutdownInv, LiveKitNews, Resting, Heard, Resources
<1> QED BY <1>1, <1>2, <1>3, <1>4 DEF LiveKitInv, LiveKitRecord

\* reconnect returns, with an error or with nil.
LEMMA LiveKitReturns ==
  ASSUME CommonInv, LiveKitInv, kind = "livekit", LiveKit!ReconnectFails \/ LiveKit!Publish
  PROVE  CommonInv' /\ LiveKitInv'
<1>1. /\ step' = "none" /\ count' = count /\ step \in {"connect", "publish"}
      /\ watch' = "backoff" \/ (watch' = "drain" /\ step = "publish" /\ s.room # 0)
      /\ s' = [s EXCEPT !.reconnecting = FALSE]
      /\ UNCHANGED <<scene, queue, cancelled, done, closer, ended, calls, open, made, failed,
                     notices, missed, raced>>
  BY DEF LiveKit!ReconnectFails, LiveKit!Publish, LiveKit!Fail, LiveKit!Succeed, LiveKit!caller,
         LiveKit!history, LiveKit!links, LiveKit!kind
<1>2. s' \in LiveKitRecord
  BY <1>1 DEF LiveKitInv, LiveKitRecord
<1>3. CommonInv'
  BY <1>1 DEF CommonInv, CountInv
<1>4. RoomInv' /\ ShutdownInv' /\ LiveKitNews'
  BY <1>1, <1>2 DEF CommonInv, LiveKitInv, LiveKitRecord, RoomInv, ShutdownInv, LiveKitNews, Resting, Heard
<1> QED BY <1>1, <1>2, <1>3, <1>4 DEF LiveKitInv, LiveKitRecord

\* The SDK's reports on a room.
LEMMA LiveKitReports ==
  ASSUME CommonInv, LiveKitInv, kind = "livekit", NEW r \in Conns,
         LiveKit!RoomLost(r) \/ LiveKit!OnDisconnected(r) \/ LiveKit!QueueReconnect(r)
  PROVE  CommonInv' /\ LiveKitInv'
<1>0. s.closed \in BOOLEAN /\ s.reconnecting \in BOOLEAN
  BY DEF LiveKitInv, LiveKitRecord
<1>1. CASE LiveKit!RoomLost(r)
  <2>1. /\ <<"room", r>> \in open /\ failed' = failed \cup {r} /\ notices' = notices \cup {<<r, "lost">>}
        /\ UNCHANGED <<scene, s, queue, watch, count, step, cancelled, done, closer, ended, calls, open,
                       made, missed, raced>>
    BY <1>1 DEF LiveKit!RoomLost, LiveKit!supervisor, LiveKit!caller, LiveKit!history
  <2>2. r \in 1..made
    BY <2>1 DEF CommonInv
  <2>3. CommonInv'
    BY <2>1, <2>2 DEF CommonInv, CountInv
  <2>4. Heard'
    BY <2>1 DEF Heard
  <2> QED BY <2>1, <2>3, <2>4 DEF LiveKitInv, LiveKitRecord, RoomInv, ShutdownInv, LiveKitNews, Resting
<1>2. CASE LiveKit!OnDisconnected(r)
  <2>1. /\ notices' = (notices \ {<<r, "lost">>})
                        \cup IF s.closed \/ s.reconnecting THEN {} ELSE {<<r, "ask">>}
        /\ missed' = (missed \/ (s.reconnecting /\ ~s.closed))
        /\ UNCHANGED <<scene, s, queue, watch, count, step, cancelled, done, closer, ended, calls, open,
                       made, failed, raced>>
    BY <1>2 DEF LiveKit!OnDisconnected, LiveKit!supervisor, LiveKit!caller
  <2>2. CommonInv'
    BY <2>1 DEF CommonInv, CountInv
  <2>3. ~s.closed => Heard'
    BY <1>0, <2>1 DEF Heard
  <2> QED BY <2>1, <2>2, <2>3 DEF LiveKitInv, LiveKitRecord, RoomInv, ShutdownInv, LiveKitNews, Resting
<1>3. CASE LiveKit!QueueReconnect(r)
  <2> DEFINE refused == s.closed \/ s.reconnecting \/ cancelled
  <2>1. /\ queue' = (queue \/ ~refused)
        /\ missed' = (missed \/ (s.reconnecting /\ ~s.closed /\ ~cancelled))
        /\ notices' = (notices \ {<<r, "ask">>}) \cup IF refused THEN {<<r, "ending">>} ELSE {}
        /\ s' = [s EXCEPT !.closed = s.closed \/ refused]
        /\ UNCHANGED <<scene, watch, count, step, cancelled, done, closer, ended, calls, open,
                       made, failed, raced>>
    BY <1>3 DEF LiveKit!QueueReconnect, LiveKit!Request, LiveKit!Rejected, LiveKit!caller
  <2>2. s' \in LiveKitRecord /\ s'.closed = refused
    BY <1>0, <2>1 DEF LiveKitInv, LiveKitRecord, CommonInv
  <2>3. CommonInv'
    BY <2>1 DEF CommonInv, CountInv
  <2>4. ~s'.closed => Heard'
    BY <2>1, <2>2 DEF Heard
  <2>5. ShutdownInv' /\ LiveKitNews' /\ RoomInv'
    BY <1>0, <2>1, <2>2, <2>4 DEF LiveKitInv, LiveKitRecord, RoomInv, ShutdownInv, LiveKitNews, Resting
  <2> QED BY <2>1, <2>2, <2>3, <2>5 DEF LiveKitInv, LiveKitRecord
<1> QED BY <1>1, <1>2, <1>3

\* Reconnect, Close, the limit and the send worker.
LEMMA LiveKitCalls ==
  ASSUME CommonInv, LiveKitInv, kind = "livekit",
         LiveKit!Reconnect \/ LiveKit!Close \/ LiveKit!LimitReached \/ LiveKit!SendWorker
  PROVE  CommonInv' /\ LiveKitInv'
<1>1. CASE LiveKit!Reconnect
  <2>1. /\ queue' = (queue \/ ~(s.closed \/ s.reconnecting \/ cancelled))
        /\ missed' = (missed \/ (s.reconnecting /\ ~s.closed /\ ~cancelled))
        /\ calls < scene.calls /\ calls' = calls + 1
        /\ UNCHANGED <<scene, s, watch, count, step, cancelled, done, closer, ended, open,
                       made, failed, notices, raced>>
    BY <1>1 DEF LiveKit!Reconnect, LiveKit!Request, LiveKit!Rejected, LiveKit!links
  <2>2. CommonInv'
    BY <2>1, SceneFacts DEF CommonInv, CountInv
  <2>3. Heard => Heard'
    BY <2>1 DEF Heard
  <2> QED BY <2>1, <2>2, <2>3 DEF LiveKitInv, LiveKitRecord, RoomInv, ShutdownInv, LiveKitNews, Resting
<1>2. CASE LiveKit!Close \/ LiveKit!LimitReached
  <2>1. /\ s' = [s EXCEPT !.closed = TRUE]
        /\ watch' = watch \/ (watch = "limit" /\ watch' = "ending")
        /\ UNCHANGED <<scene, queue, count, step, cancelled, done, ended, calls, open, made, failed,
                       notices, missed, raced>>
    BY <1>2 DEF LiveKit!Close, LiveKit!LimitReached, LiveKit!supervisor, LiveKit!caller, LiveKit!links,
                LiveKit!history
  <2>2. s' \in LiveKitRecord /\ s'.closed
    BY <2>1 DEF LiveKitInv, LiveKitRecord
  <2>3. CommonInv'
    BY <2>1 DEF CommonInv, CountInv
  <2>4. ShutdownInv' /\ LiveKitNews' /\ RoomInv'
    BY <2>1, <2>2 DEF LiveKitInv, LiveKitRecord, RoomInv, ShutdownInv, LiveKitNews
  <2> QED BY <2>1, <2>2, <2>3, <2>4 DEF LiveKitInv, LiveKitRecord
<1>3. CASE LiveKit!SendWorker
  <2>1. /\ \E w \in {"idle", "waiting", "gone"} : s' = [s EXCEPT !.worker = w]
        /\ UNCHANGED <<scene, queue, watch, count, step, cancelled, done, closer, ended, calls, open, made,
                       failed, notices, missed, raced>>
    BY <1>3 DEF LiveKit!SendWorker, LiveKit!supervisor, LiveKit!caller, LiveKit!links, LiveKit!history
  <2>2. s' \in LiveKitRecord
    BY <2>1 DEF LiveKitInv, LiveKitRecord
  <2>3. CommonInv'
    BY <2>1 DEF CommonInv, CountInv
  <2>4. ShutdownInv' /\ LiveKitNews' /\ RoomInv'
    BY <2>1, <2>2 DEF LiveKitInv, LiveKitRecord, RoomInv, ShutdownInv, LiveKitNews, Resting, Heard
  <2>5. s'.reconnecting = s.reconnecting
    BY <2>1 DEF LiveKitInv, LiveKitRecord
  <2> QED BY <2>1, <2>2, <2>3, <2>4, <2>5 DEF LiveKitInv
<1> QED BY <1>1, <1>2, <1>3

LEMMA LiveKitEnds ==
  ASSUME CommonInv, LiveKitInv, kind = "livekit", LiveKit!Shutdown \/ LiveKit!Ended
  PROVE  CommonInv' /\ LiveKitInv'
<1>1. CASE LiveKit!Shutdown
  <2>1. /\ s.shutdown # "no" \/ LiveKit!Ending
        /\ \/ open' = open /\ (\E p \in {"signalled", "over"} : s' = [s EXCEPT !.shutdown = p])
           \/ /\ open' = open \ {<<"room", s.room>>}
              /\ s' = [s EXCEPT !.shutdown = "waiting", !.room = 0]
        /\ done' = TRUE \/ done' = done
        /\ UNCHANGED <<scene, queue, watch, count, step, cancelled, closer, ended, calls, made,
                       failed, notices, missed, raced>>
    BY <1>1 DEF LiveKit!Shutdown, LiveKit!supervisor, LiveKit!history
  <2>2. s.closed
    BY <2>1 DEF LiveKitInv, ShutdownInv, LiveKit!Ending
  <2>3. s' \in LiveKitRecord /\ s'.closed /\ s'.reconnecting = s.reconnecting
    <3>1. CASE \E p \in {"signalled", "over"} : s' = [s EXCEPT !.shutdown = p]
      BY <2>2, <3>1 DEF LiveKitInv, LiveKitRecord
    <3>2. CASE s' = [s EXCEPT !.shutdown = "waiting", !.room = 0]
      BY <2>2, <3>2 DEF LiveKitInv, LiveKitRecord
    <3> QED BY <2>1, <3>1, <3>2
  <2>4. CommonInv'
    BY <2>1, ZenonT(30) DEF CommonInv, CountInv
  <2>5. ShutdownInv' /\ LiveKitNews' /\ RoomInv'
    BY <2>1, <2>3, ZenonT(30) DEF LiveKitInv, LiveKitRecord, RoomInv, ShutdownInv, LiveKitNews
  <2> QED BY <2>1, <2>3, <2>4, <2>5 DEF LiveKitInv
<1>2. CASE LiveKit!Ended
  <2>1. /\ s.shutdown = "over"
        /\ watch' = watch \/ (watch = "ending" /\ watch' = "stopped")
        /\ ended' = ended \/ ended' = TRUE
        /\ UNCHANGED <<scene, s, queue, count, step, cancelled, done, calls, open, made, failed, missed, raced>>
    BY <1>2 DEF LiveKit!Ended, LiveKit!history
  <2>2. s.closed
    BY <2>1 DEF LiveKitInv, ShutdownInv
  <2>3. CommonInv'
    BY <2>1 DEF CommonInv, CountInv
  <2>4. ShutdownInv' /\ LiveKitNews' /\ RoomInv'
    BY <2>1, <2>2 DEF LiveKitInv, LiveKitRecord, RoomInv, ShutdownInv, LiveKitNews
  <2> QED BY <2>1, <2>3, <2>4 DEF LiveKitInv
<1> QED BY <1>1, <1>2

LEMMA LiveKitStep ==
  ASSUME CommonInv, LiveKitInv, kind = "livekit", LiveKit!LiveKitNext
  PROVE  CommonInv' /\ LiveKitInv'
  BY LiveKitLeave, LiveKitConnect, LiveKitSet, LiveKitReturns, LiveKitReports, LiveKitCalls, LiveKitEnds
     DEF LiveKit!LiveKitNext, LiveKit!LiveKitReconnect, LiveKit!LiveKitClose, LiveKit!Conns, Conns


-----------------------------------------------------------------------------
(***************************************************************************)
(* The steps of the supervisor, as the engines see them.                   *)
(***************************************************************************)
SupervisorFrame ==
    /\ UNCHANGED <<scene, s, done, closer, ended, open, made, failed, notices, raced>>
    /\ cancelled => cancelled'
    /\ step' = step \/ (step = "none" /\ step' = "begin")
    /\ step # "none" => (Heard => Heard')
    /\ watch' = "ending" => watch = "ending"
    /\ Resting' => Resting /\ (Heard => Heard' \/ s.closed)

LEMMA SupervisorStep ==
  ASSUME CommonInv, WatchNext \/ Cancel
  PROVE  CommonInv' /\ SupervisorFrame
<1>0. maxAttempts \in Nat
  BY SceneFacts
<1>1. CASE WatchTake \/ WatchStop \/ Backoff
  <2>1. /\ queue' = queue \/ queue' = FALSE
        /\ \/ watch = "idle" /\ watch' = "request"
           \/ watch \in {"idle", "backoff"} /\ watch' = "stopped"
           \/ watch = "backoff" /\ watch' = "retry"
        /\ UNCHANGED <<scene, s, count, step, cancelled, done, closer, ended, calls, open, made, failed,
                       notices, missed, raced>>
    BY <1>1 DEF WatchTake, WatchStop, Backoff, caller, links, history
  <2>2. CommonInv'
    BY <1>0, <2>1 DEF CommonInv, CountInv
  <2> QED BY <2>1, <2>2 DEF SupervisorFrame, Resting, CommonInv
<1>2. ASSUME NEW n \in Nat, Attempt(n), watch \in {"request", "retry"}, n <= maxAttempts + 1,
             UNCHANGED <<scene, s, queue, caller, links, raced>>
      PROVE  CommonInv' /\ SupervisorFrame
  <2>1. step = "none"
    BY <1>2 DEF CommonInv
  <2>2. /\ count' = n /\ (missed' = (missed /\ n > maxAttempts))
        /\ \/ n = maxAttempts + 1 /\ watch' = "limit" /\ step' = "none"
           \/ n <= maxAttempts /\ watch' = "attempt" /\ step' = "begin"
        /\ UNCHANGED <<scene, s, queue, cancelled, done, closer, ended, calls, open, made, failed, notices, raced>>
    BY <1>0, <1>2, <2>1 DEF Attempt, caller, links
  <2>3. CommonInv'
    BY <1>0, <2>2 DEF CommonInv, CountInv
  <2> QED BY <2>1, <2>2, <2>3 DEF SupervisorFrame, Resting
<1>3. CASE NextRequestCount
  <2>1. PICK n \in {1, count + 1} : Attempt(n)
    BY <1>3 DEF NextRequestCount
  <2>2. n \in Nat /\ n <= maxAttempts + 1
    BY <1>0, <1>3, <2>1 DEF NextRequestCount, CommonInv, CountInv
  <2> QED BY <1>2, <1>3, <2>1, <2>2 DEF NextRequestCount
<1>4. CASE FailureCount
  <2>1. PICK n \in {0, count} : Attempt(n)
    BY <1>4 DEF FailureCount
  <2>2. n \in Nat /\ n <= maxAttempts + 1
    BY <1>0, <2>1 DEF CommonInv, CountInv
  <2> QED BY <1>2, <1>4, <2>1, <2>2 DEF FailureCount
<1>5. CASE Drain
  <2>1. /\ watch = "drain" /\ queue' = FALSE /\ watch' = "idle"
        /\ missed' = (missed \/ (queue /\ ~s.closed))
        /\ count' \in {0, count}
        /\ UNCHANGED <<scene, s, step, cancelled, done, closer, ended, calls, open, made, failed,
                       notices, raced>>
    BY <1>5 DEF Drain, caller, links
  <2>2. CountInv'
    BY <1>0, <2>1 DEF CommonInv, CountInv
  <2>3. CommonInv'
    BY <2>1, <2>2 DEF CommonInv
  <2> QED BY <2>1, <2>3 DEF SupervisorFrame, Resting, Heard, CommonInv
<1>6. CASE Cancel
  <2>1. /\ cancelled' = TRUE
        /\ UNCHANGED <<scene, s, queue, watch, count, step, done, closer, ended, calls, open, made, failed,
                       notices, missed, raced>>
    BY <1>6 DEF Cancel, supervisor, links, history
  <2>2. CommonInv'
    BY <2>1 DEF CommonInv, CountInv
  <2> QED BY <2>1, <2>2 DEF SupervisorFrame, Resting, Heard
<1> QED BY <1>1, <1>3, <1>4, <1>5, <1>6 DEF WatchNext

LEMMA LiveKitSupervised ==
  ASSUME LiveKitInv, SupervisorFrame
  PROVE  LiveKitInv'
<1>1. /\ UNCHANGED <<s, closer, ended, open, made, failed, notices>>
      /\ cancelled => cancelled'
      /\ step' = step \/ (step = "none" /\ step' = "begin")
      /\ step # "none" => (Heard => Heard')
      /\ watch' = "ending" => watch = "ending"
      /\ Resting' => Resting /\ (Heard => Heard' \/ s.closed)
  BY DEF SupervisorFrame
<1>2. RoomInv' /\ ShutdownInv'
  BY <1>1 DEF LiveKitInv, RoomInv, ShutdownInv
<1>3. LiveKitNews'
  <2> SUFFICES ASSUME ~s.closed, ~ended, ~cancelled'
               PROVE  /\ Resting' => s.room # 0
                      /\ Resting' \/ step' = "publish" => (s.room \in failed => Heard')
                      /\ step' = "set" => (s.next \in failed => Heard')
    BY <1>1 DEF LiveKitNews
  <2>1. ~cancelled
    BY <1>1
  <2> QED BY <1>1, <2>1 DEF LiveKitInv, LiveKitNews
<1> QED BY <1>1, <1>2, <1>3 DEF LiveKitInv


-----------------------------------------------------------------------------
(***************************************************************************)
(* Goolom.                                                                 *)
(***************************************************************************)
LEMMA GoolomSupervised ==
  ASSUME GoolomInv, SupervisorFrame
  PROVE  GoolomInv'
<1>1. /\ UNCHANGED <<s, closer, ended, open, made, failed, raced>>
      /\ cancelled => cancelled'
      /\ step' = step \/ (step = "none" /\ step' = "begin")
      /\ step # "none" => (Heard => Heard')
      /\ Resting' => Resting /\ (Heard => Heard' \/ s.closed)
  BY DEF SupervisorFrame
<1>2. PublishedInv' /\ TerminatedInv'
  BY <1>1 DEF GoolomInv, PublishedInv, TerminatedInv
<1>3. GoolomNews'
  <2> SUFFICES ASSUME ~s.terminated, ~ended, ~cancelled'
               PROVE  /\ Resting' \/ step' \in {"session", "dial", "wait", "check"} =>
                            (s.pc \in failed => Heard' \/ s.asking)
                      /\ Resting' \/ step' \in {"dial", "wait", "check"} =>
                            (~s.running => Heard' \/ s.asking)
    BY <1>1 DEF GoolomNews
  <2>1. ~cancelled /\ ~s.closed
    BY <1>1 DEF GoolomInv, TerminatedInv
  <2> QED BY <1>1, <2>1 DEF GoolomInv, GoolomNews
<1> QED BY <1>1, <1>2, <1>3 DEF GoolomInv

\* reconnect, up to Connect: the published connection is closed.
LEMMA GoolomLeaves ==
  ASSUME CommonInv, GoolomInv, kind = "goolom", Goolom!Begin \/ Goolom!Leave
  PROVE  CommonInv' /\ GoolomInv'
<1>1. CASE Goolom!Begin
  <2>1. /\ step = "begin" /\ count' = count
        /\ \/ s.terminated /\ step' = "none" /\ watch' = "backoff" /\ s' = s
           \/ ~s.terminated /\ step' = "leave" /\ watch' = watch /\ s' = [s EXCEPT !.reconnecting = TRUE]
        /\ UNCHANGED <<scene, queue, cancelled, done, closer, ended, calls, open, made, failed, notices,
                       missed, raced>>
    BY <1>1 DEF Goolom!Begin, Goolom!Fail, Goolom!kind, Goolom!caller, Goolom!links, Goolom!history
  <2>2. s' \in GoolomRecord /\ s'.reconnecting \in {s.reconnecting, TRUE} /\ (step' # "none" => s'.reconnecting)
    BY <2>1 DEF GoolomInv, GoolomRecord
  <2>3. CommonInv'
    BY <2>1 DEF CommonInv, CountInv
  <2>4. s'.pc = s.pc /\ s'.ws = s.ws /\ s'.terminated = s.terminated /\ s'.closed = s.closed
    BY <2>1 DEF GoolomInv, GoolomRecord
  <2>5. ~Resting' /\ step' \in {"none", "leave"}
    BY <2>1 DEF CommonInv, Resting
  <2>6. PublishedInv' /\ TerminatedInv' /\ GoolomNews'
    BY <2>1, <2>4, <2>5 DEF GoolomInv, PublishedInv, TerminatedInv, GoolomNews
  <2> QED BY <2>1, <2>2, <2>3, <2>5, <2>6 DEF GoolomInv
<1>2. CASE Goolom!Leave
  <2>1. /\ step = "leave" /\ step' = "refresh" /\ s' = [s EXCEPT !.running = FALSE, !.ws = 0]
        /\ open' = open \ {<<"pc", s.pc>>, <<"ws", s.ws>>}
        /\ UNCHANGED <<scene, queue, watch, count, cancelled, done, closer, ended, calls, made, failed,
                       notices, missed, raced>>
    BY <1>2 DEF Goolom!Leave, Goolom!Published, Goolom!supervisor, Goolom!caller, Goolom!history
  <2>2. s' \in GoolomRecord
    BY <2>1 DEF GoolomInv, GoolomRecord
  <2>3. CommonInv'
    BY <2>1 DEF CommonInv, CountInv
  <2>4. /\ s'.pc = s.pc /\ s'.terminated = s.terminated /\ s'.closed = s.closed
        /\ s'.reconnecting = s.reconnecting
    BY <2>1 DEF GoolomInv, GoolomRecord
  <2>5. ~Resting' /\ open' = {}
    BY <2>1 DEF CommonInv, Resting, GoolomInv, PublishedInv
  <2>6. PublishedInv' /\ TerminatedInv' /\ GoolomNews'
    BY <2>1, <2>4, <2>5 DEF GoolomInv, PublishedInv, TerminatedInv, GoolomNews
  <2> QED BY <2>1, <2>2, <2>3, <2>4, <2>6 DEF GoolomInv
<1> QED BY <1>1, <1>2

\* Connect makes the new connection.
LEMMA GoolomConnects ==
  ASSUME CommonInv, GoolomInv, kind = "goolom",
         \/ Goolom!ConnectAllowed \/ Goolom!ClearClosed \/ Goolom!SetupPeerConnections
         \/ Goolom!ResetSession \/ Goolom!DialWebSocket \/ Goolom!Ready
  PROVE  CommonInv' /\ GoolomInv'
<1>0. s.pc \in Nat /\ s.pc \in 1..made /\ made \in Nat
  BY SceneFacts DEF GoolomInv, PublishedInv
<1>1. CASE Goolom!ConnectAllowed \/ Goolom!Ready
  <2>1. /\ \/ step = "refresh" /\ step' = "clear"
           \/ step = "wait" /\ step' = "check"
        /\ UNCHANGED <<scene, s, queue, watch, count, cancelled, done, closer, ended, calls, open, made, failed,
                       notices, missed, raced>>
    BY <1>1 DEF Goolom!ConnectAllowed, Goolom!Ready, Goolom!supervisor, Goolom!caller, Goolom!links,
                Goolom!history
  <2>2. CommonInv'
    BY <2>1 DEF CommonInv, CountInv
  <2>3. PublishedInv' /\ TerminatedInv' /\ GoolomNews'
    BY <2>1 DEF GoolomInv, PublishedInv, TerminatedInv, GoolomNews, Resting, Heard
  <2> QED BY <2>1, <2>2, <2>3 DEF GoolomInv
<1>2. CASE Goolom!ClearClosed
  <2>1. /\ step = "clear" /\ step' = "setup" /\ s' = [s EXCEPT !.closed = FALSE]
        /\ UNCHANGED <<scene, queue, watch, count, cancelled, done, closer, ended, calls, open, made, failed,
                       notices, missed, raced>>
    BY <1>2 DEF Goolom!ClearClosed, Goolom!supervisor, Goolom!caller, Goolom!links, Goolom!history
  <2>2. s' \in GoolomRecord
    BY <2>1 DEF GoolomInv, GoolomRecord
  <2>3. CommonInv'
    BY <2>1 DEF CommonInv, CountInv
  <2>4. /\ s'.pc = s.pc /\ s'.ws = s.ws /\ s'.terminated = s.terminated /\ s'.closed = FALSE
        /\ s'.reconnecting = s.reconnecting
    BY <2>1 DEF GoolomInv, GoolomRecord
  <2>5. ~Resting'
    BY <2>1 DEF CommonInv, Resting
  <2>6. PublishedInv' /\ TerminatedInv' /\ GoolomNews'
    BY <2>1, <2>4, <2>5 DEF GoolomInv, PublishedInv, TerminatedInv, GoolomNews
  <2> QED BY <2>1, <2>2, <2>3, <2>4, <2>6 DEF GoolomInv
<1>3. CASE Goolom!SetupPeerConnections
  <2>1. /\ step = "setup" /\ step' = "session" /\ made < scene.conns /\ made' = made + 1
        /\ open' = open \cup {<<"pc", made + 1>>} /\ s' = [s EXCEPT !.pc = made + 1]
        /\ UNCHANGED <<scene, queue, watch, count, cancelled, done, closer, ended, calls, failed,
                       notices, missed, raced>>
    BY <1>3 DEF Goolom!SetupPeerConnections, Goolom!supervisor, Goolom!caller, Goolom!history
  <2>2. s' \in GoolomRecord
    BY <1>0, <2>1 DEF GoolomInv, GoolomRecord
  <2>3. made' \in 1..scene.conns /\ 1..made \subseteq 1..made' /\ made + 1 \in 1..made' /\ made + 1 \notin failed
    BY <2>1, SceneFacts DEF CommonInv
  <2>4. CommonInv'
    BY <2>1, <2>3 DEF CommonInv, CountInv, Resources
  <2>5. /\ s'.pc = made + 1 /\ s'.ws = s.ws /\ s'.terminated = s.terminated /\ s'.closed = s.closed
        /\ s'.reconnecting = s.reconnecting
    BY <2>1 DEF GoolomInv, GoolomRecord
  <2>6. ~Resting' /\ open' = {<<"pc", made + 1>>}
    BY <2>1 DEF CommonInv, Resting, GoolomInv, PublishedInv
  <2>7. PublishedInv' /\ TerminatedInv' /\ GoolomNews'
    BY <2>1, <2>3, <2>5, <2>6 DEF GoolomInv, PublishedInv, TerminatedInv, GoolomNews
  <2> QED BY <2>1, <2>2, <2>4, <2>5, <2>7 DEF GoolomInv
<1>4. CASE Goolom!ResetSession
  <2>1. /\ step = "session" /\ step' = "dial" /\ s' = [s EXCEPT !.running = TRUE]
        /\ UNCHANGED <<scene, queue, watch, count, cancelled, done, closer, ended, calls, open, made, failed,
                       notices, missed, raced>>
    BY <1>4 DEF Goolom!ResetSession, Goolom!supervisor, Goolom!caller, Goolom!links, Goolom!history
  <2>2. s' \in GoolomRecord
    BY <2>1 DEF GoolomInv, GoolomRecord
  <2>3. CommonInv'
    BY <2>1 DEF CommonInv, CountInv
  <2>4. /\ s'.pc = s.pc /\ s'.ws = s.ws /\ s'.terminated = s.terminated /\ s'.closed = s.closed
        /\ s'.reconnecting = s.reconnecting /\ s'.running /\ s'.asking = s.asking
    BY <2>1 DEF GoolomInv, GoolomRecord
  <2>5. ~Resting'
    BY <2>1 DEF CommonInv, Resting
  <2>6. PublishedInv' /\ TerminatedInv' /\ GoolomNews'
    BY <2>1, <2>4, <2>5 DEF GoolomInv, PublishedInv, TerminatedInv, GoolomNews, Heard
  <2> QED BY <2>1, <2>2, <2>3, <2>4, <2>6 DEF GoolomInv
<1>5. CASE Goolom!DialWebSocket
  <2>1. /\ step = "dial" /\ step' = "wait" /\ open' = open \cup {<<"ws", s.pc>>}
        /\ \E readers \in SUBSET Nat : s' = [s EXCEPT !.ws = s.pc, !.readers = readers]
        /\ UNCHANGED <<scene, queue, watch, count, cancelled, done, closer, ended, calls, made, failed,
                       notices, missed, raced>>
    BY <1>0, <1>5 DEF Goolom!DialWebSocket, Goolom!supervisor, Goolom!caller, Goolom!history, GoolomInv,
                      GoolomRecord
  <2>2. s' \in GoolomRecord
    BY <1>0, <2>1 DEF GoolomInv, GoolomRecord
  <2>3. CommonInv'
    BY <1>0, <2>1 DEF CommonInv, CountInv, Resources
  <2>4. /\ s'.pc = s.pc /\ s'.ws = s.pc /\ s'.terminated = s.terminated /\ s'.closed = s.closed
        /\ s'.reconnecting = s.reconnecting /\ s'.running = s.running /\ s'.asking = s.asking
    BY <2>1 DEF GoolomInv, GoolomRecord
  <2>5. ~Resting'
    BY <2>1 DEF CommonInv, Resting
  <2>6. PublishedInv' /\ TerminatedInv' /\ GoolomNews'
    BY <2>1, <2>4, <2>5 DEF GoolomInv, PublishedInv, TerminatedInv, GoolomNews, Heard
  <2> QED BY <2>1, <2>2, <2>3, <2>4, <2>6 DEF GoolomInv
<1> QED BY <1>1, <1>2, <1>3, <1>4, <1>5


\* reconnect returns.
LEMMA GoolomReturns ==
  ASSUME CommonInv, GoolomInv, kind = "goolom", Goolom!AbortIfTerminated \/ Goolom!ReconnectFails
  PROVE  CommonInv' /\ GoolomInv'
<1>1. CASE Goolom!AbortIfTerminated
  <2>1. /\ step = "check" /\ step' = "none" /\ count' = count
        /\ \/ /\ s.terminated /\ watch' = "backoff" /\ open' = open \ {<<"pc", s.pc>>, <<"ws", s.ws>>}
              /\ s' = [s EXCEPT !.reconnecting = FALSE, !.ws = 0]
           \/ /\ ~s.terminated /\ watch' = "drain" /\ open' = open
              /\ s' = [s EXCEPT !.reconnecting = FALSE]
        /\ UNCHANGED <<scene, queue, cancelled, done, closer, ended, calls, made, failed, notices,
                       missed, raced>>
    BY <1>1 DEF Goolom!AbortIfTerminated, Goolom!Fail, Goolom!Succeed, Goolom!Published, Goolom!kind,
                Goolom!caller, Goolom!history
  <2>2. s' \in GoolomRecord
    <3>1. CASE s' = [s EXCEPT !.reconnecting = FALSE, !.ws = 0]
      BY <3>1 DEF GoolomInv, GoolomRecord
    <3>2. CASE s' = [s EXCEPT !.reconnecting = FALSE]
      BY <3>2 DEF GoolomInv, GoolomRecord
    <3> QED BY <2>1, <3>1, <3>2
  <2>3. CommonInv'
    BY <2>1 DEF CommonInv, CountInv
  <2>4. /\ s'.pc = s.pc /\ s'.terminated = s.terminated /\ s'.closed = s.closed
        /\ s'.running = s.running /\ s'.asking = s.asking
        /\ s.ws = s'.ws \/ open' = {}
    BY <2>1 DEF GoolomInv, GoolomRecord, PublishedInv
  <2>5. PublishedInv' /\ TerminatedInv' /\ GoolomNews'
    BY <2>1, <2>4 DEF GoolomInv, PublishedInv, TerminatedInv, GoolomNews, Heard, Resting
  <2> QED BY <2>1, <2>2, <2>3, <2>5 DEF GoolomInv
<1>2. CASE Goolom!ReconnectFails
  <2>1. /\ step \in {"leave", "refresh", "setup", "dial", "wait"} /\ step' = "none" /\ count' = count
        /\ watch' = "backoff" /\ s' = [s EXCEPT !.reconnecting = FALSE]
        /\ UNCHANGED <<scene, queue, cancelled, done, closer, ended, calls, open, made, failed, notices,
                       missed, raced>>
    BY <1>2 DEF Goolom!ReconnectFails, Goolom!Fail, Goolom!kind, Goolom!caller, Goolom!links, Goolom!history
  <2>2. s' \in GoolomRecord
    BY <2>1 DEF GoolomInv, GoolomRecord
  <2>3. CommonInv'
    BY <2>1 DEF CommonInv, CountInv
  <2>4. /\ s'.pc = s.pc /\ s'.ws = s.ws /\ s'.terminated = s.terminated /\ s'.closed = s.closed
    BY <2>1 DEF GoolomInv, GoolomRecord
  <2>5. PublishedInv' /\ TerminatedInv' /\ GoolomNews'
    BY <2>1, <2>4 DEF GoolomInv, PublishedInv, TerminatedInv, GoolomNews, Resting
  <2> QED BY <2>1, <2>2, <2>3, <2>5 DEF GoolomInv
<1> QED BY <1>1, <1>2

\* Failures of a connection and their reports.
LEMMA GoolomReports ==
  ASSUME CommonInv, GoolomInv, kind = "goolom", NEW g \in Conns,
         Goolom!LinkFails(g) \/ Goolom!QueueReconnect(g) \/ Goolom!ConferenceEnds(g)
  PROVE  CommonInv' /\ GoolomInv'
<1>1. CASE Goolom!LinkFails(g)
  <2>1. /\ <<"pc", g>> \in open /\ failed' = failed \cup {g} /\ notices' = notices \cup {<<g, "lost">>}
        /\ UNCHANGED <<scene, s, queue, watch, count, step, cancelled, done, closer, ended, calls, open,
                       made, missed, raced>>
    BY <1>1 DEF Goolom!LinkFails, Goolom!supervisor, Goolom!caller, Goolom!history
  <2>2. g \in 1..made
    BY <2>1 DEF CommonInv
  <2>3. CommonInv'
    BY <2>1, <2>2 DEF CommonInv, CountInv
  <2>4. Heard'
    BY <2>1 DEF Heard
  <2>5. PublishedInv' /\ TerminatedInv' /\ GoolomNews'
    BY <2>1, <2>4 DEF GoolomInv, PublishedInv, TerminatedInv, GoolomNews, Resting
  <2> QED BY <2>1, <2>3, <2>5 DEF GoolomInv
<1>2. CASE Goolom!QueueReconnect(g)
  <2>1. /\ queue' = (queue \/ ~(s.closed \/ s.reconnecting \/ cancelled))
        /\ missed' = (missed \/ (s.reconnecting /\ ~s.closed /\ ~cancelled))
        /\ s' = [s EXCEPT !.readers = @ \ {g}]
        /\ UNCHANGED <<scene, watch, count, step, cancelled, done, closer, ended, calls, open,
                       made, failed, raced>>
    BY <1>2 DEF Goolom!QueueReconnect, Goolom!Request, Goolom!Rejected, Goolom!caller
  <2>2. s' \in GoolomRecord
    BY <2>1 DEF GoolomInv, GoolomRecord
  <2>3. CommonInv'
    BY <2>1 DEF CommonInv, CountInv
  <2>4. ~s.closed /\ ~cancelled => Heard'
    BY <2>1 DEF Heard
  <2>5. /\ s'.pc = s.pc /\ s'.ws = s.ws /\ s'.terminated = s.terminated /\ s'.closed = s.closed
        /\ s'.reconnecting = s.reconnecting /\ s'.running = s.running /\ s'.asking = s.asking
    BY <2>1 DEF GoolomInv, GoolomRecord
  <2>6. PublishedInv' /\ TerminatedInv' /\ GoolomNews'
    BY <2>1, <2>4, <2>5 DEF GoolomInv, PublishedInv, TerminatedInv, GoolomNews, Resting
  <2> QED BY <2>1, <2>2, <2>3, <2>5, <2>6 DEF GoolomInv
<1>3. CASE Goolom!ConferenceEnds(g)
  <2>1. /\ s' = [s EXCEPT !.closed = TRUE, !.readers = @ \ {g}] /\ ended' = TRUE
        /\ UNCHANGED <<scene, queue, watch, count, step, cancelled, done, closer, calls, open, made, failed,
                       notices, missed, raced>>
    BY <1>3 DEF Goolom!ConferenceEnds, Goolom!supervisor, Goolom!links, Goolom!history
  <2>2. s' \in GoolomRecord
    BY <2>1 DEF GoolomInv, GoolomRecord
  <2>3. CommonInv'
    BY <2>1 DEF CommonInv, CountInv
  <2>4. /\ s'.pc = s.pc /\ s'.ws = s.ws /\ s'.terminated = s.terminated /\ s'.closed
        /\ s'.reconnecting = s.reconnecting
    BY <2>1 DEF GoolomInv, GoolomRecord
  <2>5. PublishedInv' /\ TerminatedInv' /\ GoolomNews'
    BY <2>1, <2>4 DEF GoolomInv, PublishedInv, TerminatedInv, GoolomNews, Resting
  <2> QED BY <2>1, <2>2, <2>3, <2>4, <2>5 DEF GoolomInv
<1> QED BY <1>1, <1>2, <1>3

\* Reconnect in its two halves.
LEMMA GoolomAsks ==
  ASSUME CommonInv, GoolomInv, kind = "goolom", Goolom!Reconnect \/ Goolom!Asked
  PROVE  CommonInv' /\ GoolomInv'
<1>1. CASE Goolom!Reconnect
  <2>1. /\ calls < scene.calls /\ calls' = calls + 1 /\ s' = [s EXCEPT !.running = FALSE, !.asking = TRUE]
        /\ UNCHANGED <<scene, queue, watch, count, step, cancelled, done, closer, ended, open, made, failed,
                       notices, missed, raced>>
    BY <1>1 DEF Goolom!Reconnect, Goolom!supervisor, Goolom!links, Goolom!history
  <2>2. s' \in GoolomRecord
    BY <2>1 DEF GoolomInv, GoolomRecord
  <2>3. CommonInv'
    BY <2>1, SceneFacts DEF CommonInv, CountInv
  <2>4. /\ s'.pc = s.pc /\ s'.ws = s.ws /\ s'.terminated = s.terminated /\ s'.closed = s.closed
        /\ s'.reconnecting = s.reconnecting /\ s'.asking
    BY <2>1 DEF GoolomInv, GoolomRecord
  <2>5. PublishedInv' /\ TerminatedInv' /\ GoolomNews'
    BY <2>1, <2>4 DEF GoolomInv, PublishedInv, TerminatedInv, GoolomNews, Resting
  <2> QED BY <2>1, <2>2, <2>3, <2>4, <2>5 DEF GoolomInv
<1>2. CASE Goolom!Asked
  <2>1. /\ queue' = (queue \/ ~(s.closed \/ s.reconnecting \/ cancelled))
        /\ missed' = (missed \/ (s.reconnecting /\ ~s.closed /\ ~cancelled))
        /\ s' = [s EXCEPT !.asking = FALSE]
        /\ UNCHANGED <<scene, watch, count, step, cancelled, done, closer, ended, calls, open,
                       made, failed, notices, raced>>
    BY <1>2 DEF Goolom!Asked, Goolom!Request, Goolom!Rejected, Goolom!caller, Goolom!links
  <2>2. s' \in GoolomRecord
    BY <2>1 DEF GoolomInv, GoolomRecord
  <2>3. CommonInv'
    BY <2>1 DEF CommonInv, CountInv
  <2>4. ~s.closed /\ ~cancelled => Heard'
    BY <2>1 DEF Heard
  <2>5. /\ s'.pc = s.pc /\ s'.ws = s.ws /\ s'.terminated = s.terminated /\ s'.closed = s.closed
        /\ s'.reconnecting = s.reconnecting
    BY <2>1 DEF GoolomInv, GoolomRecord
  <2>6. PublishedInv' /\ TerminatedInv' /\ GoolomNews'
    BY <2>1, <2>4, <2>5 DEF GoolomInv, PublishedInv, TerminatedInv, GoolomNews, Resting
  <2> QED BY <2>1, <2>2, <2>3, <2>5, <2>6 DEF GoolomInv
<1> QED BY <1>1, <1>2

\* The attempt limit and Close.
LEMMA GoolomCloses ==
  ASSUME CommonInv, GoolomInv, kind = "goolom",
         Goolom!LimitReached \/ Goolom!Close \/ Goolom!CloseSession
  PROVE  CommonInv' /\ GoolomInv'
<1>1. CASE Goolom!LimitReached
  <2>1. /\ watch = "limit" /\ watch' = "stopped" /\ ended' = TRUE /\ s' = [s EXCEPT !.closed = TRUE]
        /\ UNCHANGED <<scene, queue, count, step, cancelled, done, closer, calls, open, made, failed,
                       notices, missed, raced>>
    BY <1>1 DEF Goolom!LimitReached, Goolom!links, Goolom!history
  <2>2. s' \in GoolomRecord
    BY <2>1 DEF GoolomInv, GoolomRecord
  <2>3. CommonInv'
    BY <2>1 DEF CommonInv, CountInv
  <2>4. /\ s'.pc = s.pc /\ s'.ws = s.ws /\ s'.terminated = s.terminated /\ s'.closed
        /\ s'.reconnecting = s.reconnecting
    BY <2>1 DEF GoolomInv, GoolomRecord
  <2>5. PublishedInv' /\ TerminatedInv' /\ GoolomNews'
    BY <2>1, <2>4 DEF GoolomInv, PublishedInv, TerminatedInv, GoolomNews, Resting
  <2> QED BY <2>1, <2>2, <2>3, <2>4, <2>5 DEF GoolomInv
<1>2. CASE Goolom!Close
  <2>1. /\ closer = "no" /\ closer' = "closing" /\ s' = [s EXCEPT !.terminated = TRUE, !.closed = TRUE]
        /\ raced' = (raced \/ step \notin {"none", "begin"})
        /\ UNCHANGED <<scene, queue, watch, count, step, cancelled, done, ended, calls, open, made, failed,
                       notices, missed>>
    BY <1>2 DEF Goolom!Close, Goolom!supervisor, Goolom!links
  <2>2. s' \in GoolomRecord
    BY <2>1 DEF GoolomInv, GoolomRecord
  <2>3. CommonInv'
    BY <2>1 DEF CommonInv, CountInv
  <2>4. /\ s'.pc = s.pc /\ s'.ws = s.ws /\ s'.terminated /\ s'.closed
        /\ s'.reconnecting = s.reconnecting
    BY <2>1 DEF GoolomInv, GoolomRecord
  <2>5. PublishedInv' /\ TerminatedInv' /\ GoolomNews'
    BY <2>1, <2>4 DEF GoolomInv, PublishedInv, TerminatedInv, GoolomNews, Resting
  <2> QED BY <2>1, <2>2, <2>3, <2>4, <2>5 DEF GoolomInv
<1>3. CASE Goolom!CloseSession
  <2>1. /\ \/ /\ closer = "closing" /\ closer' = "stopped" /\ done' = TRUE
              /\ s' = [s EXCEPT !.running = FALSE] /\ open' = open
           \/ /\ closer = "stopped" /\ closer' = "returned" /\ done' = done
              /\ s' = [s EXCEPT !.ws = 0, !.goClosed = TRUE]
              /\ open' = open \ {<<"pc", s.pc>>, <<"ws", s.ws>>}
        /\ UNCHANGED <<scene, queue, watch, count, step, cancelled, ended, calls, made, failed, notices,
                       missed, raced>>
    BY <1>3 DEF Goolom!CloseSession, Goolom!Published, Goolom!supervisor, Goolom!history
  <2>2. s' \in GoolomRecord
    <3>1. CASE s' = [s EXCEPT !.running = FALSE]
      BY <3>1 DEF GoolomInv, GoolomRecord
    <3>2. CASE s' = [s EXCEPT !.ws = 0, !.goClosed = TRUE]
      BY <3>2 DEF GoolomInv, GoolomRecord
    <3> QED BY <2>1, <3>1, <3>2
  <2>3. CommonInv'
    BY <2>1, ZenonT(30) DEF CommonInv, CountInv
  <2>4. /\ s'.pc = s.pc /\ s'.terminated = s.terminated /\ s'.closed = s.closed
        /\ s'.reconnecting = s.reconnecting
        /\ open' = {} \/ (s'.ws = s.ws /\ open' = open /\ closer' = "stopped")
    BY <2>1 DEF GoolomInv, GoolomRecord, PublishedInv
  <2>5. s.terminated
    BY <2>1 DEF GoolomInv, TerminatedInv
  <2>6. PublishedInv' /\ TerminatedInv' /\ GoolomNews'
    BY <2>1, <2>4, <2>5 DEF GoolomInv, PublishedInv, TerminatedInv, GoolomNews, Resting
  <2> QED BY <2>1, <2>2, <2>3, <2>4, <2>6 DEF GoolomInv
<1> QED BY <1>1, <1>2, <1>3

LEMMA GoolomStep ==
  ASSUME CommonInv, GoolomInv, kind = "goolom", Goolom!GoolomNext
  PROVE  CommonInv' /\ GoolomInv'
  BY GoolomLeaves, GoolomConnects, GoolomReturns, GoolomReports, GoolomAsks, GoolomCloses
     DEF Goolom!GoolomNext, Goolom!GoolomReconnect, Goolom!GoolomClose, Goolom!Conns, Conns


-----------------------------------------------------------------------------
(***************************************************************************)
(* Jitsi.                                                                  *)
(***************************************************************************)
LEMMA JitsiSupervised ==
  ASSUME JitsiInv, SupervisorFrame
  PROVE  JitsiInv'
<1>1. /\ UNCHANGED <<s, closer, done, ended, open, made, failed, raced>>
      /\ cancelled => cancelled'
      /\ step' = step \/ (step = "none" /\ step' = "begin")
      /\ Resting' => Resting /\ (Heard => Heard' \/ s.closed)
  BY DEF SupervisorFrame
<1>2. MucInv' /\ JitsiCloseInv' /\ step' \in JitsiSteps
  BY <1>1 DEF JitsiInv, MucInv, JitsiCloseInv, JitsiSteps, Joining, Installed
<1>3. JitsiNews'
  BY <1>1 DEF JitsiInv, JitsiNews
<1> QED BY <1>1, <1>2, <1>3 DEF JitsiInv

\* What markBridgeReady and installPeerConnectionState leave alone.
LEMMA BridgeFacts ==
  ASSUME NEW t \in JitsiRecord
  PROVE  LET u == Jitsi!OpenBridge(t) IN
         /\ u \in JitsiRecord /\ u.bridgeReady
         /\ u.closed = t.closed /\ u.reconnecting = t.reconnecting /\ u.jSess = t.jSess /\ u.pc = t.pc
         /\ u.waiters = t.waiters /\ u.loops = t.loops /\ u.mine = t.mine /\ u.nested = t.nested
         /\ u.loaded = t.loaded /\ u.goClosed = t.goClosed
<1>1. t.loop \in [muc : Nat, current : BOOLEAN]
  BY DEF JitsiRecord
<1>2. [t.loop EXCEPT !.current = FALSE] \in [muc : Nat, current : BOOLEAN]
  BY <1>1
<1>3. Jitsi!OpenBridge(t) = [t EXCEPT !.bridgeReady = TRUE, !.loop = [t.loop EXCEPT !.current = FALSE]]
  BY DEF Jitsi!OpenBridge, JitsiRecord
<1> DEFINE l == [t.loop EXCEPT !.current = FALSE]
<1> HIDE DEF l
<1>4. Jitsi!OpenBridge(t) = [t EXCEPT !.bridgeReady = TRUE, !.loop = l] /\ l \in [muc : Nat, current : BOOLEAN]
  BY <1>2, <1>3 DEF l
<1> QED BY <1>4 DEF JitsiRecord

\* A reconnect under way: no promise is due before it returns, and Close has raced it or
\* not begun.
LEMMA JitsiBusy ==
  ASSUME CommonInv, JitsiInv, step \notin {"none", "begin"}, watch' \in {"attempt", "backoff"},
         s'.closed = s.closed, s'.goClosed = s.goClosed, UNCHANGED <<closer, done, raced>>
  PROVE  JitsiCloseInv' /\ JitsiNews'
<1>1. s.closed => raced
  BY DEF JitsiInv, JitsiCloseInv
<1>2. JitsiCloseInv'
  BY <1>1 DEF JitsiInv, JitsiCloseInv
<1>3. ~Resting'
  BY DEF Resting
<1> QED BY <1>2, <1>3 DEF JitsiNews

\* A reconnect fails.
LEMMA JitsiFailCount ==
  ASSUME CommonInv, kind = "jitsi", step # "none", Jitsi!Fail, scene' = scene
  PROVE  CountInv' /\ watch' = "backoff" /\ step' = "none"
<1>1. watch = "attempt" /\ count' = count + 1 /\ watch' = "backoff" /\ step' = "none"
  BY DEF CommonInv, Jitsi!Fail, Jitsi!kind
<1>2. count \in Nat /\ count <= maxAttempts /\ maxAttempts \in Nat
  BY <1>1, SceneFacts DEF CommonInv, CountInv
<1>3. CountInv'
  BY <1>1, <1>2 DEF CountInv
<1> QED BY <1>1, <1>3

LEMMA JitsiBegin ==
  ASSUME CommonInv, JitsiInv, kind = "jitsi", Jitsi!Begin
  PROVE  CommonInv' /\ JitsiInv'
<1>1. /\ step = "begin" /\ watch = "attempt"
      /\ UNCHANGED <<scene, queue, cancelled, done, closer, ended, calls, made, failed, notices, missed, raced>>
  BY DEF Jitsi!Begin, Jitsi!caller, Jitsi!history, CommonInv
<1>2. CASE s.closed
  <2>1. s' = s /\ open' = open /\ Jitsi!Fail
    BY <1>2 DEF Jitsi!Begin
  <2>2. CountInv' /\ watch' = "backoff" /\ step' = "none"
    BY <1>1, <2>1, JitsiFailCount
  <2>3. CommonInv'
    BY <1>1, <2>1, <2>2 DEF CommonInv
  <2>4. MucInv' /\ JitsiCloseInv' /\ JitsiNews'
    BY <1>1, <1>2, <2>1, <2>2
       DEF JitsiInv, MucInv, JitsiCloseInv, JitsiNews, JitsiSteps, Joining, Installed
  <2> QED BY <1>1, <2>1, <2>2, <2>3, <2>4 DEF JitsiInv, JitsiSteps
<1>3. CASE ~s.closed
  <2>1. /\ step' = "join" /\ watch' = watch /\ count' = count
        /\ s' = [s EXCEPT !.reconnecting = TRUE, !.bridgeReady = FALSE, !.pc = 0, !.jSess = 0]
        /\ open' = open \ {<<"pc", s.pc>>, <<"muc", s.jSess>>}
    BY <1>3 DEF Jitsi!Begin
  <2>2. /\ s' \in JitsiRecord /\ s'.closed = s.closed /\ s'.reconnecting /\ s'.jSess = 0 /\ s'.pc = 0
        /\ s'.waiters = s.waiters /\ s'.mine = s.mine /\ s'.goClosed = s.goClosed
    BY <2>1 DEF JitsiInv, JitsiRecord
  <2>3. CommonInv'
    BY <1>1, <2>1 DEF CommonInv, CountInv
  <2>4. MucInv'
    BY <1>1, <1>3, <2>1, <2>2 DEF JitsiInv, MucInv, JitsiSteps, Joining, Installed, CommonInv
  <2>5. JitsiCloseInv' /\ JitsiNews'
    BY <1>1, <1>3, <2>1, <2>2 DEF JitsiInv, JitsiCloseInv, JitsiNews, Resting
  <2> QED BY <1>1, <2>1, <2>2, <2>3, <2>4, <2>5 DEF JitsiInv, JitsiSteps
<1> QED BY <1>2, <1>3 DEF JitsiInv, JitsiRecord

LEMMA JitsiJoin ==
  ASSUME CommonInv, JitsiInv, kind = "jitsi", Jitsi!JoinMUC
  PROVE  CommonInv' /\ JitsiInv'
<1>1. /\ step \in {"join", "fulljoin"} /\ made < scene.conns /\ made' = made + 1
      /\ open' = open \cup {<<"muc", made + 1>>}
      /\ s' = [s EXCEPT !.mine = made + 1]
      /\ step' \in {"install", "offer"}
      /\ UNCHANGED <<scene, queue, watch, count, cancelled, done, closer, ended, calls, failed, notices,
                     missed, raced>>
  BY DEF Jitsi!JoinMUC, Jitsi!supervisor, Jitsi!caller, Jitsi!history
<1>2. /\ made' \in 1..scene.conns /\ 1..made \subseteq 1..made' /\ 0..made \subseteq 0..made'
      /\ made' \in 1..made' /\ made' \in Nat /\ made' # 0 /\ made' \in 0..made'
  BY <1>1, SceneFacts DEF CommonInv
<1>3. /\ s' \in JitsiRecord /\ s'.closed = s.closed /\ s'.reconnecting = s.reconnecting
      /\ s'.jSess = s.jSess /\ s'.pc = s.pc /\ s'.waiters = s.waiters /\ s'.mine = made'
      /\ s'.goClosed = s.goClosed
  BY <1>1, <1>2 DEF JitsiInv, JitsiRecord
<1>4. CommonInv' /\ watch' = "attempt"
  BY <1>1, <1>2 DEF CommonInv, CountInv, Resources
<1>5. MucInv'
  BY <1>1, <1>2, <1>3 DEF JitsiInv, MucInv, JitsiSteps, Joining, Installed, CommonInv
<1>6. JitsiCloseInv' /\ JitsiNews'
  BY <1>1, <1>3, <1>4, JitsiBusy
<1> QED BY <1>1, <1>3, <1>4, <1>5, <1>6 DEF JitsiInv, JitsiSteps

\* installSession.
LEMMA JitsiInstalls ==
  ASSUME CommonInv, JitsiInv, kind = "jitsi", Jitsi!InstallCheck \/ Jitsi!InstallStore
  PROVE  CommonInv' /\ JitsiInv'
<1>1. UNCHANGED <<scene, queue, cancelled, done, closer, ended, calls, made, failed, notices, missed, raced>>
  BY DEF Jitsi!InstallCheck, Jitsi!InstallStore, Jitsi!supervisor, Jitsi!caller, Jitsi!history
<1>2. CASE Jitsi!InstallCheck /\ s.closed
  <2>1. /\ step \in {"install", "parkinstall", "fullinstall"} /\ Jitsi!Fail
        /\ open' = open \ {<<"muc", s.mine>>}
        /\ s' = [s EXCEPT !.reconnecting = FALSE, !.mine = 0, !.nested = FALSE]
    BY <1>2 DEF Jitsi!InstallCheck, Jitsi!Installing
  <2>2. CountInv' /\ watch' = "backoff" /\ step' = "none"
    BY <1>1, <2>1, JitsiFailCount
  <2>3. /\ s' \in JitsiRecord /\ s'.closed = s.closed /\ s'.jSess = s.jSess /\ s'.pc = s.pc
        /\ s'.waiters = s.waiters /\ s'.mine = 0 /\ s'.goClosed = s.goClosed
    BY <2>1 DEF JitsiInv, JitsiRecord
  <2>4. CommonInv'
    BY <1>1, <2>1, <2>2 DEF CommonInv
  <2>5. MucInv'
    BY <1>1, <1>2, <2>1, <2>2, <2>3, SceneFacts DEF JitsiInv, MucInv, JitsiSteps, Joining, Installed
  <2>6. JitsiCloseInv' /\ JitsiNews'
    BY <1>1, <2>1, <2>2, <2>3, JitsiBusy
  <2> QED BY <1>1, <2>2, <2>3, <2>4, <2>5, <2>6 DEF JitsiInv, JitsiSteps
<1>3. CASE Jitsi!InstallCheck /\ ~s.closed
  <2>1. /\ step \in {"install", "parkinstall", "fullinstall"} /\ step' = Jitsi!Stored(step)
        /\ UNCHANGED <<s, open, watch, count>>
    BY <1>3 DEF Jitsi!InstallCheck, Jitsi!Installing
  <2>2. step' \in {"store", "parkstore", "fullstore"}
    BY <2>1 DEF Jitsi!Stored
  <2>3. CommonInv' /\ watch' = "attempt"
    BY <1>1, <2>1, <2>2 DEF CommonInv, CountInv
  <2>4. MucInv'
    BY <1>1, <1>3, <2>1, <2>2 DEF JitsiInv, MucInv, JitsiSteps, Joining, Installed
  <2>5. JitsiCloseInv' /\ JitsiNews'
    BY <1>1, <2>1, <2>3, JitsiBusy
  <2> QED BY <1>1, <2>1, <2>2, <2>3, <2>4, <2>5 DEF JitsiInv, JitsiSteps
<1>4. CASE Jitsi!InstallStore
  <2>1. /\ step \in {"store", "parkstore", "fullstore"} /\ step' = Jitsi!Checking(step)
        /\ s' = [s EXCEPT !.jSess = s.mine] /\ open' = open \ {<<"muc", s.jSess>>}
        /\ UNCHANGED <<watch, count>>
    BY <1>4 DEF Jitsi!InstallStore, Jitsi!supervisor
  <2>2. step' \in {"recheck", "parkrecheck", "fullrecheck"}
    BY <2>1 DEF Jitsi!Checking
  <2>3. /\ s' \in JitsiRecord /\ s'.closed = s.closed /\ s'.reconnecting = s.reconnecting
        /\ s'.jSess = s.mine /\ s'.pc = s.pc /\ s'.waiters = s.waiters /\ s'.mine = s.mine
        /\ s'.goClosed = s.goClosed
    BY <2>1 DEF JitsiInv, JitsiRecord
  <2>4. CommonInv' /\ watch' = "attempt"
    BY <1>1, <2>1, <2>2 DEF CommonInv, CountInv
  <2>5. MucInv'
    BY <1>1, <2>1, <2>2, <2>3 DEF JitsiInv, MucInv, JitsiSteps, Joining, Installed
  <2>6. JitsiCloseInv' /\ JitsiNews'
    BY <1>1, <2>1, <2>3, <2>4, JitsiBusy
  <2> QED BY <1>1, <2>1, <2>2, <2>3, <2>4, <2>5, <2>6 DEF JitsiInv, JitsiSteps
<1> QED BY <1>2, <1>3, <1>4 DEF JitsiInv, JitsiRecord


LEMMA JitsiRecheck ==
  ASSUME CommonInv, JitsiInv, kind = "jitsi", Jitsi!InstallRecheck
  PROVE  CommonInv' /\ JitsiInv'
<1>1. /\ step \in {"recheck", "parkrecheck", "fullrecheck"} /\ watch = "attempt"
      /\ UNCHANGED <<scene, queue, cancelled, done, closer, ended, calls, made, failed, notices, missed, raced>>
  BY DEF Jitsi!InstallRecheck, Jitsi!caller, Jitsi!history, CommonInv
<1>2. CASE s.closed
  <2>1. /\ Jitsi!Fail /\ open' = open \ {<<"muc", s.jSess>>}
        /\ s' = [s EXCEPT !.reconnecting = FALSE, !.mine = 0, !.jSess = 0, !.nested = FALSE]
    BY <1>2 DEF Jitsi!InstallRecheck
  <2>2. CountInv' /\ watch' = "backoff" /\ step' = "none"
    BY <1>1, <2>1, JitsiFailCount
  <2>3. /\ s' \in JitsiRecord /\ s'.closed = s.closed /\ s'.jSess = 0 /\ s'.pc = s.pc
        /\ s'.waiters = s.waiters /\ s'.mine = 0 /\ s'.goClosed = s.goClosed
    BY <2>1 DEF JitsiInv, JitsiRecord
  <2>4. CommonInv'
    BY <1>1, <2>1, <2>2 DEF CommonInv
  <2>5. MucInv'
    BY <1>1, <1>2, <2>1, <2>2, <2>3, SceneFacts DEF JitsiInv, MucInv, JitsiSteps, Joining, Installed
  <2>6. JitsiCloseInv' /\ JitsiNews'
    BY <1>1, <2>1, <2>2, <2>3, JitsiBusy
  <2> QED BY <1>1, <2>2, <2>3, <2>4, <2>5, <2>6 DEF JitsiInv, JitsiSteps
<1>3. CASE ~s.closed /\ step = "parkrecheck"
  <2>0. s.jSess \in 1..made /\ s.jSess \in Nat /\ s.jSess # 0 /\ ~s.goClosed /\ ~done
    BY <1>3, SceneFacts DEF JitsiInv, MucInv, JitsiSteps, Installed, JitsiCloseInv
  <2> DEFINE waiters == s.waiters \cup {<<s.jSess, "wait">>}
  <2>1. /\ step' = "none" /\ watch' = "drain" /\ count' = count /\ open' = open
        /\ s' = [s EXCEPT !.reconnecting = FALSE, !.mine = 0, !.nested = FALSE, !.waiters = waiters]
    BY <1>3, <2>0 DEF Jitsi!InstallRecheck, Jitsi!Succeed
  <2>2. waiters \in SUBSET (Nat \X {"wait", "setup"}) /\ \E w \in waiters : w[2] = "wait"
    <3>1. s.waiters \in SUBSET (Nat \X {"wait", "setup"})
      BY DEF JitsiInv, JitsiRecord
    <3>2. <<s.jSess, "wait">> \in Nat \X {"wait", "setup"}
      BY <2>0
    <3> QED BY <3>1, <3>2
  <2>3. \A w \in waiters : w[1] \in 1..made
    BY <2>0 DEF JitsiInv, MucInv
  <2> HIDE DEF waiters
  <2>4. /\ s' \in JitsiRecord /\ s'.closed = s.closed /\ s'.jSess = s.jSess /\ s'.pc = s.pc
        /\ s'.waiters = waiters /\ s'.mine = 0 /\ s'.goClosed = s.goClosed
    BY <2>1, <2>2 DEF JitsiInv, JitsiRecord
  <2>5. CommonInv'
    BY <1>1, <2>1 DEF CommonInv, CountInv
  <2>6. MucInv'
    BY <1>1, <1>3, <2>1, <2>3, <2>4, SceneFacts DEF JitsiInv, MucInv, JitsiSteps, Joining, Installed
  <2>7. JitsiCloseInv'
    BY <1>1, <1>3, <2>1, <2>4 DEF JitsiInv, JitsiCloseInv
  <2>8. JitsiNews'
    BY <2>0, <2>2, <2>4 DEF JitsiNews
  <2> QED BY <1>1, <2>1, <2>4, <2>5, <2>6, <2>7, <2>8 DEF JitsiInv, JitsiSteps
<1>4. CASE ~s.closed /\ step # "parkrecheck"
  <2>1. step' \in {"reinitiate", "finish"} /\ UNCHANGED <<s, open, watch, count>>
    BY <1>4 DEF Jitsi!InstallRecheck
  <2>2. CommonInv' /\ watch' = "attempt"
    BY <1>1, <2>1 DEF CommonInv, CountInv
  <2>3. MucInv'
    BY <1>1, <2>1 DEF JitsiInv, MucInv, JitsiSteps, Joining, Installed
  <2>4. JitsiCloseInv' /\ JitsiNews'
    BY <1>1, <2>1, <2>2, JitsiBusy
  <2> QED BY <1>1, <2>1, <2>2, <2>3, <2>4 DEF JitsiInv, JitsiSteps
<1> QED BY <1>2, <1>3, <1>4 DEF JitsiInv, JitsiRecord

LEMMA LaunchFacts ==
  ASSUME JitsiInv
  PROVE  Jitsi!Launch \in 0..2 /\ (~s.goClosed => Jitsi!Launch > 0)
  BY DEF JitsiInv, JitsiRecord, Jitsi!Launch

\* A step that brings up the bridge and the PeerConnection of the session held.
LEMMA JitsiOffers ==
  ASSUME CommonInv, JitsiInv, kind = "jitsi", Jitsi!Reinitiate \/ Jitsi!OfferArrives \/ Jitsi!NoOffer
  PROVE  CommonInv' /\ JitsiInv'
<1>1. UNCHANGED <<scene, queue, watch, count, cancelled, done, closer, ended, calls, made, failed,
                  notices, missed, raced>>
  BY DEF Jitsi!Reinitiate, Jitsi!OfferArrives, Jitsi!NoOffer, Jitsi!supervisor, Jitsi!caller, Jitsi!links,
         Jitsi!history
<1>2. CASE Jitsi!NoOffer
  <2>1. step = "offer" /\ step' = "parkinstall" /\ UNCHANGED <<s, open>>
    BY <1>2 DEF Jitsi!NoOffer, Jitsi!links
  <2>2. CommonInv' /\ watch' = "attempt"
    BY <1>1, <2>1 DEF CommonInv, CountInv
  <2>3. MucInv'
    BY <1>1, <2>1 DEF JitsiInv, MucInv, JitsiSteps, Joining, Installed
  <2>4. JitsiCloseInv' /\ JitsiNews'
    BY <1>1, <2>1, <2>2, JitsiBusy
  <2> QED BY <1>1, <2>1, <2>2, <2>3, <2>4 DEF JitsiInv, JitsiSteps
<1>3. CASE Jitsi!Reinitiate \/ Jitsi!OfferArrives
  <2> DEFINE u == Jitsi!OpenBridge(s)
  <2>1. /\ \/ step = "reinitiate" /\ step' = "finish"
           \/ step = "offer" /\ step' = "fullinstall"
        /\ <<"muc", s.mine>> \in open
        /\ open' = (open \ {<<"pc", s.pc>>}) \cup {<<"pc", s.mine>>}
        /\ \E l \in {u.loops, Jitsi!Launch} : s' = [u EXCEPT !.pc = s.mine, !.loops = l]
    <3>1. CASE Jitsi!Reinitiate
      <4>1. [u EXCEPT !.pc = s.mine] = [u EXCEPT !.pc = s.mine, !.loops = u.loops]
        BY BridgeFacts DEF JitsiInv, JitsiRecord
      <4> HIDE DEF u
      <4> QED BY <3>1, <4>1 DEF Jitsi!Reinitiate, Jitsi!Working, Jitsi!WithPC, Jitsi!InstallPC, u
    <3>2. CASE Jitsi!OfferArrives
      <4>1. [[u EXCEPT !.pc = s.mine] EXCEPT !.loops = Jitsi!Launch] =
               [u EXCEPT !.pc = s.mine, !.loops = Jitsi!Launch]
        OBVIOUS
      <4> HIDE DEF u
      <4> QED BY <3>2, <4>1 DEF Jitsi!OfferArrives, Jitsi!Working, Jitsi!WithPC, Jitsi!InstallPC, u
    <3> QED BY <1>3, <3>1, <3>2
  <2>2. s.mine \in 1..made /\ s.mine \in Nat
    BY <2>1, SceneFacts DEF CommonInv
  <2>3. /\ u \in JitsiRecord /\ u.closed = s.closed /\ u.reconnecting = s.reconnecting /\ u.jSess = s.jSess
        /\ u.waiters = s.waiters /\ u.mine = s.mine /\ u.goClosed = s.goClosed /\ u.loops \in 0..2
    BY BridgeFacts DEF JitsiInv, JitsiRecord
  <2> HIDE DEF u
  <2>4. /\ s' \in JitsiRecord /\ s'.closed = s.closed /\ s'.reconnecting = s.reconnecting
        /\ s'.jSess = s.jSess /\ s'.pc = s.mine /\ s'.waiters = s.waiters /\ s'.mine = s.mine
        /\ s'.goClosed = s.goClosed
    <3>1. PICK l \in {u.loops, Jitsi!Launch} : s' = [u EXCEPT !.pc = s.mine, !.loops = l]
      BY <2>1
    <3>2. l \in 0..2
      BY <2>3, <3>1, LaunchFacts
    <3> QED BY <2>2, <2>3, <3>1, <3>2 DEF JitsiRecord
  <2>5. CommonInv' /\ watch' = "attempt"
    BY <1>1, <2>1, <2>2 DEF CommonInv, CountInv, Resources
  <2>6. MucInv'
    BY <1>1, <2>1, <2>2, <2>4 DEF JitsiInv, MucInv, JitsiSteps, Joining, Installed
  <2>7. JitsiCloseInv' /\ JitsiNews'
    BY <1>1, <2>1, <2>4, <2>5, JitsiBusy
  <2> QED BY <1>1, <2>1, <2>4, <2>5, <2>6, <2>7 DEF JitsiInv, JitsiSteps
<1> QED BY <1>2, <1>3

LEMMA JitsiFull ==
  ASSUME CommonInv, JitsiInv, kind = "jitsi", Jitsi!ReconnectFull
  PROVE  CommonInv' /\ JitsiInv'
<1>1. /\ step \in {"join", "reinitiate"} /\ step' = "fulljoin"
      /\ UNCHANGED <<scene, queue, watch, count, cancelled, done, closer, ended, calls, made, failed,
                     notices, missed, raced>>
  BY DEF Jitsi!ReconnectFull, Jitsi!supervisor, Jitsi!caller, Jitsi!history
<1>2. CASE step = "join"
  <2>1. UNCHANGED <<s, open>>
    BY <1>2 DEF Jitsi!ReconnectFull
  <2>2. CommonInv' /\ watch' = "attempt"
    BY <1>1, <2>1 DEF CommonInv, CountInv
  <2>3. MucInv'
    BY <1>1, <1>2, <2>1 DEF JitsiInv, MucInv, JitsiSteps, Joining, Installed
  <2>4. JitsiCloseInv' /\ JitsiNews'
    BY <1>1, <2>1, <2>2, JitsiBusy
  <2> QED BY <1>1, <2>1, <2>2, <2>3, <2>4 DEF JitsiInv, JitsiSteps
<1>3. CASE step = "reinitiate"
  <2>1. PICK nested \in BOOLEAN, negotiated \in BOOLEAN :
          /\ negotiated => <<"muc", s.mine>> \in open
          /\ s' = [IF negotiated THEN [s EXCEPT !.pc = s.mine] ELSE s
                     EXCEPT !.jSess = 0, !.mine = 0, !.nested = nested]
          /\ open' = (IF negotiated THEN (open \ {<<"pc", s.pc>>}) \cup {<<"pc", s.mine>>} ELSE open)
                       \ {<<"muc", s.jSess>>}
    BY <1>3 DEF Jitsi!ReconnectFull, Jitsi!Working, Jitsi!WithPC, Jitsi!InstallPC
  <2>2. negotiated => s.mine \in 1..made
    BY <2>1 DEF CommonInv
  <2>3. /\ s' \in JitsiRecord /\ s'.closed = s.closed /\ s'.reconnecting = s.reconnecting
        /\ s'.jSess = 0 /\ s'.waiters = s.waiters /\ s'.mine = 0 /\ s'.goClosed = s.goClosed
        /\ s'.pc = IF negotiated THEN s.mine ELSE s.pc
    <3>1. CASE negotiated
      BY <2>1, <3>1 DEF JitsiInv, JitsiRecord
    <3>2. CASE ~negotiated
      BY <2>1, <3>2 DEF JitsiInv, JitsiRecord
    <3> QED BY <3>1, <3>2
  <2>4. CommonInv' /\ watch' = "attempt"
    BY <1>1, <1>3, <2>1, <2>2 DEF CommonInv, CountInv, Resources
  <2>5. MucInv'
    <3>1. \A g \in Nat : <<"pc", g>> \in open' => g = s'.pc
      BY <2>1, <2>3 DEF JitsiInv, MucInv
    <3>2. \A x \in open' : x[1] \in {"pc", "muc"}
      BY <2>1 DEF JitsiInv, MucInv
    <3>3. ~s.closed => \A g \in Nat : <<"muc", g>> \notin open'
      BY <1>3, <2>1 DEF JitsiInv, MucInv, Installed
    <3> QED BY <1>1, <2>3, <3>1, <3>2, <3>3, SceneFacts DEF JitsiInv, MucInv, JitsiSteps, Joining, Installed
  <2>6. JitsiCloseInv' /\ JitsiNews'
    BY <1>1, <2>3, <2>4, JitsiBusy
  <2> QED BY <1>1, <2>3, <2>4, <2>5, <2>6 DEF JitsiInv, JitsiSteps
<1> QED BY <1>1, <1>2, <1>3

LEMMA JitsiFullFails ==
  ASSUME CommonInv, JitsiInv, kind = "jitsi", Jitsi!ReconnectFails
  PROVE  CommonInv' /\ JitsiInv'
<1>1. /\ step \in {"fulljoin", "offer"} /\ Jitsi!Fail /\ open' = open \ {<<"muc", s.mine>>}
      /\ UNCHANGED <<scene, queue, cancelled, done, closer, ended, calls, made, failed, notices, missed, raced>>
  BY DEF Jitsi!ReconnectFails, Jitsi!caller, Jitsi!history
<1>2. CountInv' /\ watch' = "backoff" /\ step' = "none"
  BY <1>1, JitsiFailCount
<1>3. PICK u \in {s, Jitsi!OpenBridge(s)} :
        s' = [u EXCEPT !.reconnecting = FALSE, !.mine = 0, !.nested = FALSE]
  BY DEF Jitsi!ReconnectFails
<1>4. /\ u \in JitsiRecord /\ u.closed = s.closed /\ u.jSess = s.jSess /\ u.pc = s.pc
      /\ u.waiters = s.waiters /\ u.goClosed = s.goClosed
  BY BridgeFacts DEF JitsiInv
<1>5. /\ s' \in JitsiRecord /\ s'.closed = s.closed /\ s'.jSess = s.jSess /\ s'.pc = s.pc
      /\ s'.waiters = s.waiters /\ s'.mine = 0 /\ s'.goClosed = s.goClosed
  BY <1>3, <1>4 DEF JitsiRecord
<1>6. CommonInv'
  BY <1>1, <1>2 DEF CommonInv
<1>7. MucInv'
  BY <1>1, <1>2, <1>5, SceneFacts DEF JitsiInv, MucInv, JitsiSteps, Joining, Installed
<1>8. JitsiCloseInv' /\ JitsiNews'
  BY <1>1, <1>2, <1>5, JitsiBusy
<1> QED BY <1>1, <1>2, <1>5, <1>6, <1>7, <1>8 DEF JitsiInv, JitsiSteps

LEMMA JitsiFinish ==
  ASSUME CommonInv, JitsiInv, kind = "jitsi", Jitsi!FinishReconnect
  PROVE  CommonInv' /\ JitsiInv'
<1> DEFINE u == Jitsi!OpenBridge(s)
<1>1. /\ step = "finish" /\ watch = "attempt"
      /\ UNCHANGED <<scene, queue, cancelled, done, closer, ended, calls, open, made, failed, notices,
                     missed, raced>>
  BY DEF Jitsi!FinishReconnect, Jitsi!caller, Jitsi!links, Jitsi!history, CommonInv
<1>2. /\ u \in JitsiRecord /\ u.closed = s.closed /\ u.reconnecting = s.reconnecting /\ u.jSess = s.jSess
      /\ u.pc = s.pc /\ u.waiters = s.waiters /\ u.mine = s.mine /\ u.goClosed = s.goClosed
  BY BridgeFacts DEF JitsiInv
<1>3. CASE s.nested
  <2>1. s' = [u EXCEPT !.loops = Jitsi!Launch, !.nested = FALSE] /\ UNCHANGED <<step, watch, count>>
    BY <1>3 DEF Jitsi!FinishReconnect
  <2> HIDE DEF u
  <2>2. /\ s' \in JitsiRecord /\ s'.closed = s.closed /\ s'.reconnecting = s.reconnecting
        /\ s'.jSess = s.jSess /\ s'.pc = s.pc /\ s'.waiters = s.waiters /\ s'.mine = s.mine
        /\ s'.goClosed = s.goClosed
    BY <1>2, <2>1, LaunchFacts DEF JitsiRecord
  <2>3. CommonInv'
    BY <1>1, <2>1 DEF CommonInv, CountInv
  <2>4. MucInv'
    BY <1>1, <2>1, <2>2 DEF JitsiInv, MucInv, JitsiSteps, Joining, Installed
  <2>5. JitsiCloseInv' /\ JitsiNews'
    BY <1>1, <2>1, <2>2, JitsiBusy
  <2> QED BY <1>1, <2>1, <2>2, <2>3, <2>4, <2>5 DEF JitsiInv, JitsiSteps
<1>4. CASE ~s.nested
  <2>1. /\ s' = [u EXCEPT !.loops = Jitsi!Launch, !.reconnecting = FALSE, !.mine = 0]
        /\ step' = "none" /\ watch' = "drain" /\ count' = count
    BY <1>4 DEF Jitsi!FinishReconnect, Jitsi!Succeed
  <2> HIDE DEF u
  <2>2. /\ s' \in JitsiRecord /\ s'.closed = s.closed
        /\ s'.jSess = s.jSess /\ s'.pc = s.pc /\ s'.waiters = s.waiters /\ s'.mine = 0
        /\ s'.goClosed = s.goClosed /\ s'.loops = Jitsi!Launch /\ s'.bridgeReady = u.bridgeReady
    BY <1>2, <2>1, LaunchFacts DEF JitsiRecord
  <2>3. CommonInv'
    BY <1>1, <2>1 DEF CommonInv, CountInv
  <2>4. MucInv'
    BY <1>1, <2>1, <2>2, SceneFacts DEF JitsiInv, MucInv, JitsiSteps, Joining, Installed
  <2>5. JitsiCloseInv'
    BY <1>1, <2>1, <2>2 DEF JitsiInv, JitsiCloseInv
  <2>6. u.bridgeReady
    BY BridgeFacts DEF u, JitsiInv
  <2>7. ~s.closed => s'.loops > 0 /\ s'.jSess # 0
    BY <1>1, <2>2, LaunchFacts DEF JitsiInv, JitsiCloseInv, MucInv, Installed, JitsiSteps
  <2>8. JitsiNews'
    BY <2>2, <2>6, <2>7 DEF JitsiNews
  <2> QED BY <1>1, <2>1, <2>2, <2>3, <2>4, <2>5, <2>8 DEF JitsiInv, JitsiSteps
<1> QED BY <1>3, <1>4


\* What requestReconnect makes of session state t: the news is queued or counted as missed.
LEMMA RequestFacts ==
  ASSUME CommonInv, NEW t \in JitsiRecord, Jitsi!RequestReconnect(t), cancelled' = cancelled
  PROVE  /\ s' \in JitsiRecord
         /\ s'.closed = t.closed /\ s'.reconnecting = t.reconnecting /\ s'.jSess = t.jSess
         /\ s'.pc = t.pc /\ s'.waiters = t.waiters /\ s'.mine = t.mine /\ s'.loaded = t.loaded
         /\ s'.goClosed = t.goClosed
         /\ queue' \in BOOLEAN /\ missed' \in BOOLEAN /\ ended' \in BOOLEAN
         /\ ended => ended'
         /\ ~t.closed /\ ~cancelled => Heard'
<1>1. s' = t \/ s' = [t EXCEPT !.bridgeReady = FALSE]
  BY DEF Jitsi!RequestReconnect
<1>2. /\ s' \in JitsiRecord
      /\ s'.closed = t.closed /\ s'.reconnecting = t.reconnecting /\ s'.jSess = t.jSess
      /\ s'.pc = t.pc /\ s'.waiters = t.waiters /\ s'.mine = t.mine /\ s'.loaded = t.loaded
      /\ s'.goClosed = t.goClosed
  <2>1. CASE s' = [t EXCEPT !.bridgeReady = FALSE]
    BY <2>1 DEF JitsiRecord
  <2> QED BY <1>1, <2>1
<1>3. /\ queue' = (queue \/ (~(t.closed \/ t.reconnecting) /\ ~cancelled))
      /\ missed' = (missed \/ (t.reconnecting /\ ~t.closed))
      /\ ended' = (ended \/ (~(t.closed \/ t.reconnecting) /\ cancelled))
  BY DEF Jitsi!RequestReconnect
<1> QED BY <1>2, <1>3 DEF Heard

LEMMA JitsiRequests ==
  ASSUME CommonInv, JitsiInv, kind = "jitsi", NEW g \in Conns,
         Jitsi!LinkLost(g) \/ Jitsi!Reconnect \/ Jitsi!RecvLoopEnds \/ Jitsi!JingleFails(g)
  PROVE  CommonInv' /\ JitsiInv'
<1>0. s \in JitsiRecord
  BY DEF JitsiInv
<1>1. ASSUME NEW t \in JitsiRecord, Jitsi!RequestReconnect(t),
             t.closed = s.closed, t.reconnecting = s.reconnecting, t.jSess = s.jSess,
             t.pc = s.pc, t.mine = s.mine, t.loaded = s.loaded, t.goClosed = s.goClosed,
             t.waiters \subseteq s.waiters,
             UNCHANGED <<scene, watch, count, step, cancelled, done, closer, open, made, failed, raced>>,
             calls' \in 0..scene.calls
      PROVE  CommonInv' /\ JitsiInv'
  <2>1. /\ s' \in JitsiRecord
        /\ s'.closed = t.closed /\ s'.reconnecting = t.reconnecting /\ s'.jSess = t.jSess
        /\ s'.pc = t.pc /\ s'.waiters = t.waiters /\ s'.mine = t.mine /\ s'.loaded = t.loaded
        /\ s'.goClosed = t.goClosed
        /\ queue' \in BOOLEAN /\ missed' \in BOOLEAN /\ ended' \in BOOLEAN
        /\ ended => ended'
        /\ ~t.closed /\ ~cancelled => Heard'
    BY <1>1, RequestFacts
  <2>2. CommonInv'
    BY <1>1, <2>1 DEF CommonInv, CountInv
  <2>3. MucInv'
    BY <1>1, <2>1 DEF JitsiInv, MucInv
  <2>4. JitsiCloseInv'
    BY <1>1, <2>1 DEF JitsiInv, JitsiCloseInv
  <2>5. JitsiNews'
    BY <1>1, <2>1 DEF JitsiInv, JitsiNews, Resting
  <2> QED BY <1>1, <2>1, <2>2, <2>3, <2>4, <2>5 DEF JitsiInv
<1>2. CASE Jitsi!LinkLost(g)
  BY <1>0, <1>1, <1>2 DEF Jitsi!LinkLost, CommonInv
<1>3. CASE Jitsi!Reconnect
  <2>1. calls' \in 0..scene.calls /\ scene' = scene
    BY <1>3, SceneFacts DEF Jitsi!Reconnect, CommonInv
  <2> QED BY <1>0, <1>1, <1>3, <2>1 DEF Jitsi!Reconnect, Jitsi!links
<1>4. CASE Jitsi!JingleFails(g)
  <2>1. PICK ph \in {"wait", "setup"} : Jitsi!RequestReconnect([s EXCEPT !.waiters = @ \ {<<g, ph>>}])
    BY <1>4 DEF Jitsi!JingleFails
  <2> DEFINE t == [s EXCEPT !.waiters = @ \ {<<g, ph>>}]
  <2>2. /\ t \in JitsiRecord /\ t.closed = s.closed /\ t.reconnecting = s.reconnecting /\ t.jSess = s.jSess
        /\ t.pc = s.pc /\ t.mine = s.mine /\ t.loaded = s.loaded /\ t.goClosed = s.goClosed
        /\ t.waiters \subseteq s.waiters
    BY <1>0 DEF JitsiRecord
  <2>3. Jitsi!RequestReconnect(t)
    BY <2>1
  <2>4. UNCHANGED <<scene, watch, count, step, cancelled, done, closer, calls, open, made, failed, raced>>
    BY <1>4 DEF Jitsi!JingleFails, Jitsi!links
  <2> HIDE DEF t
  <2> QED BY <1>1, <2>2, <2>3, <2>4 DEF CommonInv
<1>5. CASE Jitsi!RecvLoopEnds
  <2> DEFINE t == [s EXCEPT !.loop = Jitsi!NoLoop]
  <2>1. /\ t \in JitsiRecord /\ t.closed = s.closed /\ t.reconnecting = s.reconnecting /\ t.jSess = s.jSess
        /\ t.pc = s.pc /\ t.mine = s.mine /\ t.loaded = s.loaded /\ t.goClosed = s.goClosed
        /\ t.waiters = s.waiters /\ t.bridgeReady = s.bridgeReady /\ t.loops = s.loops
    <3>1. Jitsi!NoLoop \in [muc : Nat, current : BOOLEAN]
      BY DEF Jitsi!NoLoop
    <3> QED BY <1>0, <3>1 DEF JitsiRecord
  <2>2. /\ \/ Jitsi!RequestReconnect(t)
           \/ (done \/ ~s.loop.current) /\ s' = t /\ UNCHANGED <<queue, missed, ended>>
        /\ UNCHANGED <<scene, watch, count, step, cancelled, done, closer, calls, open, made, failed,
                       notices, raced>>
    BY <1>5 DEF Jitsi!RecvLoopEnds, Jitsi!links
  <2>3. CASE Jitsi!RequestReconnect(t)
    <3> HIDE DEF t
    <3> QED BY <1>1, <2>1, <2>2, <2>3 DEF CommonInv
  <2>4. CASE (done \/ ~s.loop.current) /\ s' = t /\ UNCHANGED <<queue, missed, ended>>
    <3> HIDE DEF t
    <3>1. CommonInv'
      BY <2>2, <2>4 DEF CommonInv, CountInv
    <3>2. MucInv' /\ JitsiCloseInv'
      BY <2>1, <2>2, <2>4 DEF JitsiInv, MucInv, JitsiCloseInv
    <3>3. done => s.closed
      BY DEF JitsiInv, JitsiCloseInv
    <3>4. JitsiNews'
      BY <2>1, <2>2, <2>4, <3>3 DEF JitsiInv, JitsiNews, Resting, Heard
    <3> QED BY <2>1, <2>2, <2>4, <3>1, <3>2, <3>4 DEF JitsiInv
  <2> QED BY <2>2, <2>3, <2>4
<1> QED BY <1>2, <1>3, <1>4, <1>5


\* The failures, and the recvLoop that gets recvMu.
LEMMA JitsiLinks ==
  ASSUME CommonInv, JitsiInv, kind = "jitsi", NEW g \in Conns,
         Jitsi!BridgeFails(g) \/ Jitsi!LinkFails(g) \/ Jitsi!RecvLoop
  PROVE  CommonInv' /\ JitsiInv'
<1>1. CASE Jitsi!BridgeFails(g) \/ Jitsi!LinkFails(g)
  <2>1. /\ s.jSess = g /\ failed' = failed \cup {g}
        /\ \/ s.bridgeReady /\ notices' = notices
           \/ notices' = notices \cup {<<g, "lost">>}
        /\ UNCHANGED <<scene, s, queue, watch, count, step, cancelled, done, closer, ended, calls, open,
                       made, missed, raced>>
    BY <1>1 DEF Jitsi!BridgeFails, Jitsi!LinkFails, Jitsi!supervisor, Jitsi!caller, Jitsi!history
  <2>2. g \in 1..made
    BY <2>1, ReconnectorAssumption, SceneFacts DEF Conns, JitsiInv, MucInv
  <2>3. CommonInv'
    BY <2>1, <2>2 DEF CommonInv, CountInv
  <2>4. MucInv' /\ JitsiCloseInv'
    BY <2>1 DEF JitsiInv, MucInv, JitsiCloseInv
  <2>5. JitsiNews'
    BY <2>1 DEF JitsiInv, JitsiNews, Resting, Heard
  <2> QED BY <2>1, <2>3, <2>4, <2>5 DEF JitsiInv
<1>2. CASE Jitsi!RecvLoop
  <2>1. PICK l \in [muc : Nat, current : BOOLEAN] :
          /\ s' = [s EXCEPT !.loops = @ - 1, !.loop = l]
          /\ s.jSess # 0 /\ s.bridgeReady => l.muc = s.jSess /\ l.current
    <3>1. Jitsi!NoLoop \in [muc : Nat, current : BOOLEAN]
      BY DEF Jitsi!NoLoop
    <3>2. [muc |-> s.jSess, current |-> TRUE] \in [muc : Nat, current : BOOLEAN]
      BY DEF JitsiInv, JitsiRecord
    <3> DEFINE l == IF s.jSess # 0 /\ s.bridgeReady THEN [muc |-> s.jSess, current |-> TRUE] ELSE Jitsi!NoLoop
    <3>3. l \in [muc : Nat, current : BOOLEAN]
      BY <3>1, <3>2
    <3>4. s.jSess # 0 /\ s.bridgeReady => l.muc = s.jSess /\ l.current
      OBVIOUS
    <3>5. s' = [s EXCEPT !.loops = @ - 1, !.loop = l]
      BY <1>2 DEF Jitsi!RecvLoop
    <3> HIDE DEF l
    <3> QED BY <3>3, <3>4, <3>5
  <2>2. UNCHANGED <<scene, queue, watch, count, step, cancelled, done, closer, ended, calls, open, made, failed,
                    notices, missed, raced>>
    BY <1>2 DEF Jitsi!RecvLoop, Jitsi!supervisor, Jitsi!caller, Jitsi!links, Jitsi!history
  <2>3. s.loops - 1 \in 0..2
    BY <1>2 DEF Jitsi!RecvLoop, JitsiInv, JitsiRecord
  <2>4. /\ s' \in JitsiRecord /\ s'.closed = s.closed /\ s'.reconnecting = s.reconnecting
        /\ s'.jSess = s.jSess /\ s'.pc = s.pc /\ s'.waiters = s.waiters /\ s'.mine = s.mine
        /\ s'.loaded = s.loaded /\ s'.goClosed = s.goClosed /\ s'.bridgeReady = s.bridgeReady
        /\ s'.loop = l
    BY <2>1, <2>3 DEF JitsiInv, JitsiRecord
  <2>5. CommonInv'
    BY <2>2 DEF CommonInv, CountInv
  <2>6. MucInv' /\ JitsiCloseInv'
    BY <2>2, <2>4 DEF JitsiInv, MucInv, JitsiCloseInv
  <2>7. JitsiNews'
    BY <2>1, <2>2, <2>4 DEF JitsiInv, JitsiNews, Resting, Heard
  <2> QED BY <2>2, <2>4, <2>5, <2>6, <2>7 DEF JitsiInv
<1> QED BY <1>1, <1>2

\* waitForJingle succeeds, in two steps.
LEMMA JitsiJingle ==
  ASSUME CommonInv, JitsiInv, kind = "jitsi", NEW g \in Conns,
         Jitsi!JingleArrives(g) \/ Jitsi!JingleSetup(g)
  PROVE  CommonInv' /\ JitsiInv'
<1>0. s \in JitsiRecord /\ s.waiters \in SUBSET (Nat \X {"wait", "setup"})
  BY DEF JitsiInv, JitsiRecord
<1>1. CASE Jitsi!JingleArrives(g)
  <2> DEFINE u == Jitsi!OpenBridge(s)
  <2> DEFINE ws == (s.waiters \ {<<g, "wait">>}) \cup {<<g, "setup">>}
  <2>1. /\ <<g, "wait">> \in s.waiters /\ s' = [u EXCEPT !.waiters = ws]
        /\ raced' = (raced \/ s.closed)
        /\ UNCHANGED <<scene, queue, watch, count, step, cancelled, done, closer, ended, calls, open, made,
                       failed, notices, missed>>
    <3>1. u.waiters = s.waiters
      BY <1>0, BridgeFacts
    <3> QED BY <1>1, <3>1 DEF Jitsi!JingleArrives, Jitsi!supervisor, Jitsi!caller, Jitsi!links
  <2>2. /\ u \in JitsiRecord /\ u.closed = s.closed /\ u.reconnecting = s.reconnecting /\ u.jSess = s.jSess
        /\ u.pc = s.pc /\ u.mine = s.mine /\ u.loaded = s.loaded /\ u.goClosed = s.goClosed /\ u.bridgeReady
    BY <1>0, BridgeFacts
  <2>3. g \in 1..made /\ g \in Nat
    <3>1. \A w \in s.waiters : w[1] \in 1..made
      BY DEF JitsiInv, MucInv
    <3> QED BY <2>1, <3>1, SceneFacts
  <2>4. ws \in SUBSET (Nat \X {"wait", "setup"}) /\ ws # {}
    <3>1. <<g, "setup">> \in Nat \X {"wait", "setup"}
      BY <2>3
    <3> QED BY <1>0, <3>1
  <2>5. \A w \in ws : w[1] \in 1..made
    BY <2>3 DEF JitsiInv, MucInv
  <2> HIDE DEF u, ws
  <2>6. /\ s' \in JitsiRecord /\ s'.closed = s.closed /\ s'.reconnecting = s.reconnecting
        /\ s'.jSess = s.jSess /\ s'.pc = s.pc /\ s'.waiters = ws /\ s'.mine = s.mine
        /\ s'.goClosed = s.goClosed /\ s'.bridgeReady
    BY <2>1, <2>2, <2>4 DEF JitsiRecord
  <2>7. CommonInv'
    BY <2>1 DEF CommonInv, CountInv
  <2>8. MucInv'
    BY <2>1, <2>5, <2>6 DEF JitsiInv, MucInv
  <2>9. JitsiCloseInv'
    BY <2>1, <2>6 DEF JitsiInv, JitsiCloseInv
  <2>10. JitsiNews'
    BY <2>1, <2>4, <2>6 DEF JitsiInv, JitsiNews, Resting
  <2> QED BY <2>1, <2>6, <2>7, <2>8, <2>9, <2>10 DEF JitsiInv
<1>2. CASE Jitsi!JingleSetup(g)
  <2> DEFINE ws == s.waiters \ {<<g, "setup">>}
  <2>1. /\ <<g, "setup">> \in s.waiters
        /\ open' = (open \ {<<"pc", s.pc>>}) \cup {<<"pc", g>>}
        /\ UNCHANGED <<scene, queue, watch, count, step, cancelled, done, closer, ended, calls, made,
                       failed, notices, missed, raced>>
    BY <1>2 DEF Jitsi!JingleSetup, Jitsi!WithPC, Jitsi!supervisor, Jitsi!caller, Jitsi!history
  <2>2. s' = [s EXCEPT !.pc = g, !.waiters = ws, !.loops = Jitsi!Launch]
    <3>1. [s EXCEPT !.pc = g].waiters = s.waiters
      BY <1>0 DEF JitsiRecord
    <3> QED BY <1>2, <3>1 DEF Jitsi!JingleSetup, Jitsi!InstallPC
  <2>3. g \in 1..made /\ g \in Nat
    <3>1. \A w \in s.waiters : w[1] \in 1..made
      BY DEF JitsiInv, MucInv
    <3> QED BY <2>1, <3>1, SceneFacts
  <2>4. ws \in SUBSET (Nat \X {"wait", "setup"}) /\ ws \subseteq s.waiters
    BY <1>0
  <2> HIDE DEF ws
  <2>5. /\ s' \in JitsiRecord /\ s'.closed = s.closed /\ s'.reconnecting = s.reconnecting
        /\ s'.jSess = s.jSess /\ s'.pc = g /\ s'.waiters = ws /\ s'.mine = s.mine
        /\ s'.goClosed = s.goClosed /\ s'.loops = Jitsi!Launch /\ s'.bridgeReady = s.bridgeReady
    BY <1>0, <2>2, <2>3, <2>4, LaunchFacts DEF JitsiRecord
  <2>6. CommonInv'
    BY <2>1, <2>3 DEF CommonInv, CountInv, Resources
  <2>7. MucInv'
    BY <2>1, <2>3, <2>4, <2>5 DEF JitsiInv, MucInv
  <2>8. s.closed => raced
    BY <2>1 DEF JitsiInv, JitsiCloseInv
  <2>9. JitsiCloseInv'
    BY <2>1, <2>5, <2>8 DEF JitsiInv, JitsiCloseInv
  <2>10. JitsiNews'
    <3>1. ~s.closed => s'.loops > 0
      BY <2>5, LaunchFacts DEF JitsiInv, JitsiCloseInv
    <3>2. \A w \in s.waiters : w[2] = "wait" => w \in ws
      BY DEF ws
    <3> QED BY <2>1, <2>5, <3>1, <3>2 DEF JitsiInv, JitsiNews, Resting, Heard
  <2> QED BY <2>1, <2>5, <2>6, <2>7, <2>9, <2>10 DEF JitsiInv
<1> QED BY <1>1, <1>2

LEMMA JitsiCloses ==
  ASSUME CommonInv, JitsiInv, kind = "jitsi",
         Jitsi!LimitReached \/ Jitsi!Close \/ Jitsi!CloseSession
  PROVE  CommonInv' /\ JitsiInv'
<1>1. CASE Jitsi!LimitReached
  <2>1. /\ watch = "limit" /\ watch' = "stopped" /\ ended' = TRUE /\ s' = [s EXCEPT !.bridgeReady = FALSE]
        /\ UNCHANGED <<scene, queue, count, step, cancelled, done, closer, calls, open, made, failed,
                       notices, missed, raced>>
    BY <1>1 DEF Jitsi!LimitReached, Jitsi!links, Jitsi!history
  <2>2. /\ s' \in JitsiRecord /\ s'.closed = s.closed /\ s'.reconnecting = s.reconnecting
        /\ s'.jSess = s.jSess /\ s'.pc = s.pc /\ s'.waiters = s.waiters /\ s'.mine = s.mine
        /\ s'.loaded = s.loaded /\ s'.goClosed = s.goClosed
    BY <2>1 DEF JitsiInv, JitsiRecord
  <2>3. CommonInv'
    BY <2>1 DEF CommonInv, CountInv
  <2>4. MucInv' /\ JitsiCloseInv'
    BY <2>1, <2>2 DEF JitsiInv, MucInv, JitsiCloseInv
  <2>5. JitsiNews'
    BY <2>1 DEF JitsiNews
  <2> QED BY <2>1, <2>2, <2>3, <2>4, <2>5 DEF JitsiInv
<1>2. CASE Jitsi!Close
  <2>1. /\ closer = "no" /\ ~s.closed /\ closer' = "closing" /\ s' = [s EXCEPT !.closed = TRUE]
        /\ raced' = (raced \/ step \notin {"none", "begin"} \/ \E w \in s.waiters : w[2] = "setup")
        /\ UNCHANGED <<scene, queue, watch, count, step, cancelled, done, ended, calls, open, made, failed,
                       notices, missed>>
    BY <1>2 DEF Jitsi!Close, Jitsi!supervisor, Jitsi!links
  <2>2. /\ s' \in JitsiRecord /\ s'.closed /\ s'.reconnecting = s.reconnecting
        /\ s'.jSess = s.jSess /\ s'.pc = s.pc /\ s'.waiters = s.waiters /\ s'.mine = s.mine
        /\ s'.goClosed = s.goClosed
    BY <2>1 DEF JitsiInv, JitsiRecord
  <2>3. CommonInv'
    BY <2>1 DEF CommonInv, CountInv
  <2>4. MucInv'
    BY <2>1, <2>2 DEF JitsiInv, MucInv
  <2>5. JitsiCloseInv'
    <3>1. \A w \in s.waiters : w[2] \in {"wait", "setup"}
      BY DEF JitsiInv, JitsiRecord
    <3>2. step \in {"none", "begin"} => \A g \in Nat : <<"muc", g>> \in open => g = s.jSess
      BY <2>1 DEF JitsiInv, MucInv, CommonInv
    <3> QED BY <2>1, <2>2, <3>1, <3>2 DEF JitsiInv, JitsiCloseInv
  <2>6. JitsiNews'
    BY <2>2 DEF JitsiNews
  <2> QED BY <2>1, <2>2, <2>3, <2>4, <2>5, <2>6 DEF JitsiInv
<1>3. CASE Jitsi!CloseSession
  <2>0. UNCHANGED <<scene, queue, watch, count, step, cancelled, ended, calls, made, failed, notices,
                    missed, raced>>
    BY <1>3 DEF Jitsi!CloseSession, Jitsi!supervisor, Jitsi!history
  <2>1. closer \in {"closing", "loaded", "closed"} /\ s.closed
    BY <1>3 DEF Jitsi!CloseSession, JitsiInv, JitsiCloseInv
  <2>2. CASE closer = "closing"
    <3>1. closer' = "loaded" /\ s' = [s EXCEPT !.loaded = s.jSess] /\ UNCHANGED <<open, done>>
      BY <1>3, <2>2 DEF Jitsi!CloseSession
    <3>2. /\ s' \in JitsiRecord /\ s'.closed = s.closed /\ s'.reconnecting = s.reconnecting
          /\ s'.jSess = s.jSess /\ s'.pc = s.pc /\ s'.waiters = s.waiters /\ s'.mine = s.mine
          /\ s'.loaded = s.jSess /\ s'.goClosed = s.goClosed
      BY <3>1 DEF JitsiInv, JitsiRecord
    <3>3. CommonInv'
      BY <2>0, <3>1 DEF CommonInv, CountInv
    <3>4. MucInv' /\ JitsiCloseInv' /\ JitsiNews'
      BY <2>0, <2>1, <2>2, <3>1, <3>2 DEF JitsiInv, MucInv, JitsiCloseInv, JitsiNews
    <3> QED BY <2>0, <3>1, <3>2, <3>3, <3>4 DEF JitsiInv
  <2>3. CASE closer = "loaded"
    <3>1. /\ closer' = "closed" /\ s' = [s EXCEPT !.pc = 0, !.loaded = 0] /\ done' = done
          /\ open' = open \ {<<"pc", s.pc>>, <<"muc", s.loaded>>}
      BY <1>3, <2>3 DEF Jitsi!CloseSession
    <3>2. /\ s' \in JitsiRecord /\ s'.closed = s.closed /\ s'.reconnecting = s.reconnecting
          /\ s'.jSess = s.jSess /\ s'.pc = 0 /\ s'.waiters = s.waiters /\ s'.mine = s.mine
          /\ s'.goClosed = s.goClosed
      BY <3>1 DEF JitsiInv, JitsiRecord
    <3>3. CommonInv'
      BY <2>0, <3>1 DEF CommonInv, CountInv
    <3>4. MucInv'
      BY <2>0, <2>1, <3>1, <3>2 DEF JitsiInv, MucInv
    <3>5. ~raced => open' = {}
      <4> SUFFICES ASSUME ~raced, NEW x \in open' PROVE FALSE
        OBVIOUS
      <4>1. x \in open /\ x \in Resources \X (1..made) /\ x[1] \in {"pc", "muc"}
        BY <3>1 DEF CommonInv, JitsiInv, MucInv
      <4>2. x = <<x[1], x[2]>> /\ x[2] \in Nat
        BY <4>1, SceneFacts
      <4>3. CASE x[1] = "pc"
        BY <3>1, <4>1, <4>2, <4>3 DEF JitsiInv, MucInv
      <4>4. CASE x[1] = "muc"
        BY <2>1, <2>3, <3>1, <4>1, <4>2, <4>4 DEF JitsiInv, JitsiCloseInv
      <4> QED BY <4>1, <4>3, <4>4
    <3>6. JitsiCloseInv' /\ JitsiNews'
      BY <2>0, <2>1, <2>3, <3>1, <3>2, <3>5 DEF JitsiInv, JitsiCloseInv, JitsiNews
    <3> QED BY <2>0, <3>1, <3>2, <3>3, <3>4, <3>6 DEF JitsiInv
  <2>4. CASE closer = "closed"
    <3>1. /\ closer' = "returned" /\ s' = [s EXCEPT !.jSess = 0, !.bridgeReady = FALSE, !.goClosed = TRUE]
          /\ done' = TRUE /\ open' = open
      BY <1>3, <2>4 DEF Jitsi!CloseSession
    <3>2. /\ s' \in JitsiRecord /\ s'.closed = s.closed /\ s'.reconnecting = s.reconnecting
          /\ s'.jSess = 0 /\ s'.pc = s.pc /\ s'.waiters = s.waiters /\ s'.mine = s.mine
      BY <3>1 DEF JitsiInv, JitsiRecord
    <3>3. CommonInv'
      BY <2>0, <3>1 DEF CommonInv, CountInv
    <3>4. MucInv' /\ JitsiCloseInv' /\ JitsiNews'
      BY <2>0, <2>1, <2>4, <3>1, <3>2, SceneFacts DEF JitsiInv, MucInv, JitsiCloseInv, JitsiNews
    <3> QED BY <2>0, <3>1, <3>2, <3>3, <3>4 DEF JitsiInv
  <2> QED BY <2>1, <2>2, <2>3, <2>4
<1> QED BY <1>1, <1>2, <1>3

LEMMA JitsiStep ==
  ASSUME CommonInv, JitsiInv, kind = "jitsi", Jitsi!JitsiNext
  PROVE  CommonInv' /\ JitsiInv'
<1>1. scene.conns \in Nat \ {0} /\ 1 \in Conns
  BY ReconnectorAssumption DEF CommonInv, Conns
<1> QED
  BY <1>1, JitsiBegin, JitsiJoin, JitsiInstalls, JitsiRecheck, JitsiOffers, JitsiFull, JitsiFullFails,
     JitsiFinish, JitsiRequests, JitsiLinks, JitsiJingle, JitsiCloses
     DEF Jitsi!JitsiNext, Jitsi!JitsiReconnect, Jitsi!JitsiClose, Jitsi!Conns, Conns


-----------------------------------------------------------------------------
(***************************************************************************)
(* The theorems.                                                           *)
(***************************************************************************)
LEMMA InvInit == Init => Inv
<1> SUFFICES ASSUME Init PROVE Inv
  OBVIOUS
<1>0. /\ scene \in Scenes /\ queue = FALSE /\ watch = "idle" /\ count = 0 /\ step = "none"
      /\ cancelled = FALSE /\ done = FALSE /\ closer = "no" /\ ended = FALSE
      /\ failed = {} /\ notices = {} /\ calls = 0 /\ missed = FALSE /\ raced = FALSE
  BY DEF Init
<1>1. /\ made = 1 /\ open \subseteq Resources \X {1}
      /\ kind = "livekit" => LiveKit!InitLiveKit
      /\ kind = "goolom" => Goolom!InitGoolom
      /\ kind = "jitsi" => Jitsi!InitJitsi
  BY DEF Init, LiveKit!InitLiveKit, Goolom!InitGoolom, Jitsi!InitJitsi, Resources
<1>2. /\ maxAttempts \in Nat /\ scene.conns \in Nat \ {0} /\ scene.calls \in Nat
  BY <1>0, ReconnectorAssumption
<1>3. 1 \in 1..scene.conns /\ 0 \in 0..scene.calls /\ {1} \subseteq 1..made
  BY <1>1, <1>2
<1>4. CommonInv
  <2>1. CountInv
    BY <1>0, <1>2 DEF CountInv
  <2>2. open \subseteq Resources \X (1..made) /\ failed \subseteq 1..made
    BY <1>0, <1>1, <1>3
  <2>3. (step # "none") <=> (watch = "attempt")
    BY <1>0
  <2>4. made \in 1..scene.conns /\ calls \in 0..scene.calls
    BY <1>0, <1>1, <1>3
  <2> QED BY <1>0, <2>1, <2>2, <2>3, <2>4 DEF CommonInv
<1>5. ASSUME kind = "livekit" PROVE LiveKitInv
  <2>1. s = LiveKit!Connected /\ open = {<<"room", 1>>}
    BY <1>1, <1>5 DEF LiveKit!InitLiveKit
  <2>2. s \in LiveKitRecord /\ s.room = 1 /\ s.next = 0 /\ s.shutdown = "no"
    BY <2>1 DEF LiveKit!Connected, LiveKitRecord
  <2> QED BY <1>0, <2>1, <2>2 DEF LiveKitInv, RoomInv, ShutdownInv, LiveKitNews
<1>6. ASSUME kind = "goolom" PROVE GoolomInv
  <2>1. s = Goolom!Connected /\ open = {<<"pc", 1>>, <<"ws", 1>>}
    BY <1>1, <1>6 DEF Goolom!InitGoolom
  <2>2. /\ s \in GoolomRecord /\ s.pc = 1 /\ s.ws = 1 /\ s.running /\ ~s.terminated /\ ~s.closed
    BY <2>1 DEF Goolom!Connected, GoolomRecord
  <2> QED BY <1>0, <1>1, <2>1, <2>2 DEF GoolomInv, PublishedInv, TerminatedInv, GoolomNews
<1>7. ASSUME kind = "jitsi" PROVE JitsiInv
  <2>1. s = Jitsi!Connected /\ open = {<<"muc", 1>>}
    BY <1>1, <1>7 DEF Jitsi!InitJitsi
  <2>2. Jitsi!NoLoop \in [muc : Nat, current : BOOLEAN]
    BY DEF Jitsi!NoLoop
  <2>3. /\ s \in JitsiRecord /\ s.jSess = 1 /\ s.mine = 0 /\ s.pc = 0 /\ ~s.closed /\ ~s.goClosed
        /\ ~s.bridgeReady /\ s.waiters = {<<1, "wait">>}
    BY <2>1, <2>2 DEF Jitsi!Connected, JitsiRecord
  <2>4. MucInv
    BY <1>0, <1>1, <2>1, <2>3 DEF MucInv, JitsiSteps, Joining, Installed
  <2>5. JitsiCloseInv /\ JitsiNews
    BY <1>0, <2>3 DEF JitsiCloseInv, JitsiNews
  <2> QED BY <1>0, <2>3, <2>4, <2>5 DEF JitsiInv, JitsiSteps
<1> QED BY <1>4, <1>5, <1>6, <1>7 DEF Inv

LEMMA InvStep == Inv /\ [Next]_vars => Inv'
<1> SUFFICES ASSUME Inv, [Next]_vars PROVE Inv'
  OBVIOUS
<1>0. scene.kind \in {"livekit", "goolom", "jitsi"}
  BY SceneFacts DEF Inv
<1>1. CASE WatchNext \/ Cancel
  <2>1. CommonInv' /\ SupervisorFrame /\ scene' = scene
    BY <1>1, SupervisorStep DEF Inv, SupervisorFrame
  <2> QED BY <2>1, LiveKitSupervised, GoolomSupervised, JitsiSupervised DEF Inv
<1>2. CASE LiveKit!LiveKitNext
  <2>1. kind = "livekit" /\ scene' = scene
    BY <1>2 DEF LiveKit!LiveKitNext, LiveKit!LiveKitReconnect, LiveKit!LiveKitClose, LiveKit!RoomLost,
       LiveKit!OnDisconnected, LiveKit!QueueReconnect, LiveKit!Reconnect, LiveKit!LeaveRoom,
       LiveKit!ConnectRoom, LiveKit!SetRoom, LiveKit!ReconnectFails, LiveKit!Publish, LiveKit!Close,
       LiveKit!LimitReached, LiveKit!Shutdown, LiveKit!Ended, LiveKit!SendWorker, LiveKit!Here, LiveKit!kind
  <2> QED BY <1>2, <2>1, LiveKitStep DEF Inv
<1>3. CASE Goolom!GoolomNext
  <2>1. kind = "goolom" /\ scene' = scene
    BY <1>3 DEF Goolom!GoolomNext, Goolom!GoolomReconnect, Goolom!GoolomClose, Goolom!LinkFails,
       Goolom!QueueReconnect, Goolom!ConferenceEnds, Goolom!Reconnect, Goolom!Asked, Goolom!Begin,
       Goolom!Leave, Goolom!ConnectAllowed, Goolom!ClearClosed, Goolom!SetupPeerConnections,
       Goolom!ResetSession, Goolom!DialWebSocket, Goolom!Ready, Goolom!AbortIfTerminated,
       Goolom!ReconnectFails, Goolom!LimitReached, Goolom!Close, Goolom!CloseSession, Goolom!Here, Goolom!kind
  <2> QED BY <1>3, <2>1, GoolomStep DEF Inv
<1>4. CASE Jitsi!JitsiNext
  <2>1. kind = "jitsi" /\ scene' = scene
    BY <1>4 DEF Jitsi!JitsiNext, Jitsi!JitsiReconnect, Jitsi!JitsiClose, Jitsi!BridgeFails, Jitsi!LinkFails,
       Jitsi!LinkLost, Jitsi!JingleArrives, Jitsi!JingleSetup, Jitsi!JingleFails, Jitsi!RecvLoop,
       Jitsi!RecvLoopEnds, Jitsi!Reconnect, Jitsi!Begin, Jitsi!JoinMUC, Jitsi!InstallCheck,
       Jitsi!InstallStore, Jitsi!InstallRecheck, Jitsi!Reinitiate, Jitsi!ReconnectFull,
       Jitsi!OfferArrives, Jitsi!NoOffer, Jitsi!ReconnectFails, Jitsi!FinishReconnect,
       Jitsi!LimitReached, Jitsi!Close, Jitsi!CloseSession, Jitsi!Here, Jitsi!kind
  <2> QED BY <1>4, <2>1, JitsiStep DEF Inv
<1>5. CASE UNCHANGED vars
  <2>1. UNCHANGED <<scene, s, queue, watch, count, step, cancelled, done, closer, ended, calls, open, made,
                    failed, notices, missed, raced>>
    BY <1>5 DEF vars, supervisor, caller, links, history
  <2>2. CommonInv' /\ SupervisorFrame
    BY <2>1 DEF Inv, CommonInv, CountInv, SupervisorFrame, Resting, Heard
  <2> QED BY <2>1, <2>2, LiveKitSupervised, GoolomSupervised, JitsiSupervised DEF Inv
<1> QED BY <1>1, <1>2, <1>3, <1>4, <1>5 DEF Next

\* Each engine, at each step of its reconnect, knows the resources it holds and who has the
\* news of a failure, whatever the callbacks, the layers above and Close do meanwhile.
THEOREM EngineInvariance == Spec => []Inv
<1>1. Init => Inv
  BY InvInit
<1>2. Inv /\ [Next]_vars => Inv'
  BY InvStep
<1> QED BY <1>1, <1>2, PTL DEF Spec

\* No reconnect path of livekit, goolom or jitsi, a failed attempt and a retry included, leaves
\* an earlier room, PeerConnection, WebSocket or MUC session beside the one in use.
THEOREM SessionsHoldOneConnection == Spec => []OneConnection
<1>1. Inv => OneConnection
  <2> SUFFICES ASSUME Inv PROVE OneConnection
    OBVIOUS
  <2>0. scene.kind \in {"livekit", "goolom", "jitsi"} /\ maxAttempts \in Nat
    BY SceneFacts DEF Inv
  <2>1. s.closed \in BOOLEAN /\ s.reconnecting \in BOOLEAN
    BY <2>0 DEF Inv, LiveKitInv, GoolomInv, JitsiInv, LiveKitRecord, GoolomRecord, JitsiRecord
  <2>2. count \in 0..(maxAttempts + 1)
    BY <2>0 DEF Inv, CommonInv, CountInv
  <2>3. TypeOK
    BY <2>1, <2>2 DEF Inv, CommonInv, TypeOK
  <2>4. ASSUME ~s.closed, NEW x \in open, NEW y \in open, x[1] = y[1] PROVE x = y
    <3>0. x \in Resources \X (1..made) /\ y \in Resources \X (1..made) /\ made \in Nat
      BY SceneFacts DEF Inv, CommonInv
    <3>1. x = <<x[1], x[2]>> /\ y = <<y[1], y[2]>> /\ x[2] \in Nat /\ y[2] \in Nat
          /\ x[2] # 0 /\ y[2] # 0
      BY <3>0
    <3>2. CASE kind = "livekit"
      BY <2>4, <3>1, <3>2 DEF Inv, LiveKitInv, RoomInv
    <3>3. CASE kind = "goolom"
      BY <2>4, <3>1, <3>3 DEF Inv, GoolomInv, PublishedInv
    <3>4. CASE kind = "jitsi"
      <4>1. MucInv /\ x[1] \in {"pc", "muc"} /\ step \in JitsiSteps
        BY <2>4, <3>4 DEF Inv, JitsiInv, MucInv
      <4>2. CASE x[1] = "pc"
        BY <2>4, <3>1, <4>1, <4>2 DEF MucInv
      <4>3. CASE x[1] = "muc"
        <5>1. x[2] \in {s.jSess, s.mine} /\ y[2] \in {s.jSess, s.mine}
          BY <2>4, <3>1, <4>1, <4>3 DEF MucInv
        <5>2. s.jSess = 0 \/ s.mine = 0 \/ s.jSess = s.mine
          BY <2>4, <4>1 DEF MucInv, JitsiSteps, Joining, Installed
        <5> QED BY <2>4, <3>1, <5>1, <5>2
      <4> QED BY <4>1, <4>2, <4>3
    <3> QED BY <2>0, <3>2, <3>3, <3>4
  <2> QED BY <2>3, <2>4 DEF OneConnection
<1> QED BY <1>1, EngineInvariance, PTL

\* A failed connection is being repaired unless Request refused the news or Drain dropped it:
\* no other window of the supervisor, the SDK callbacks or Jitsi's recvLoops loses it.
THEOREM RepairStaysUnderWay == Spec => []RepairIsUnderWay
<1>1. Inv => RepairIsUnderWay
  <2> SUFFICES ASSUME Inv, NeedsRepair, ~s.closed, ~ended, ~cancelled, watch = "idle"
               PROVE  UnderWay \/ missed
    BY DEF RepairIsUnderWay, UnderWay
  <2>0. scene.kind \in {"livekit", "goolom", "jitsi"}
    BY SceneFacts DEF Inv
  <2>1. Resting /\ (Heard => UnderWay \/ missed)
    BY DEF Resting, Heard, UnderWay
  <2>2. CASE kind = "livekit"
    BY <2>1, <2>2 DEF Inv, LiveKitInv, LiveKitNews, NeedsRepair
  <2>3. CASE kind = "goolom"
    <3>1. ~s.terminated
      BY <2>1, <2>3 DEF Inv, GoolomInv, TerminatedInv
    <3>2. s.pc \in failed \/ ~s.running
      BY <2>3 DEF NeedsRepair
    <3>3. Heard \/ s.asking
      BY <2>1, <2>3, <3>1, <3>2 DEF Inv, GoolomInv, GoolomNews
    <3> QED BY <2>1, <2>3, <3>3 DEF UnderWay
  <2>4. CASE kind = "jitsi"
    <3>1. s.jSess \in failed \cup {0} /\ JitsiNews /\ s \in JitsiRecord
      BY <2>4 DEF NeedsRepair, Inv, JitsiInv
    <3>2. \/ Heard \/ s.loops > 0 \/ s.waiters # {}
          \/ s.loop.muc = s.jSess
      BY <2>1, <3>1 DEF JitsiNews
    <3> QED BY <2>1, <2>4, <3>2 DEF UnderWay
  <2> QED BY <2>0, <2>2, <2>3, <2>4
<1> QED BY <1>1, EngineInvariance, PTL

\* Goolom and Jitsi hold nothing once Close has returned, unless it overlapped an attempt that
\* was past its own check of terminated or closed.
THEOREM CloseStaysFinal == Spec => []CloseIsFinal
<1>1. Inv => CloseIsFinal
  <2>0. Inv => scene.kind \in {"livekit", "goolom", "jitsi"}
    BY SceneFacts DEF Inv
  <2>1. Inv /\ kind = "goolom" /\ closer = "returned" /\ ~raced => open = {}
    BY DEF Inv, GoolomInv, TerminatedInv
  <2>2. Inv /\ kind = "jitsi" /\ closer = "returned" /\ ~raced => open = {}
    BY DEF Inv, JitsiInv, JitsiCloseInv
  <2> QED BY <2>0, <2>1, <2>2 DEF CloseIsFinal
<1> QED BY <1>1, EngineInvariance, PTL
=============================================================================
