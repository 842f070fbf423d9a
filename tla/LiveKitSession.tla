--------------------------- MODULE LiveKitSession ---------------------------
(***************************************************************************)
(* internal/engine/livekit: a session holds one SDK room.  The SDK reports *)
(* a lost room through OnDisconnected; reconnect swaps the room for a new  *)
(* one; Close, a refused reconnect and the attempt limit all end in one    *)
(* shutdown, which waits for the send worker.                              *)
(***************************************************************************)
EXTENDS Reconnector

Here == kind = "livekit"

\* Session after New and a successful Connect: closed cleared, the first room
\* set, its tracks published, the send worker started.
Connected ==
    [closed |-> FALSE, reconnecting |-> FALSE, room |-> 1, next |-> 0,
     shutdown |-> "no", worker |-> "idle"]

InitLiveKit ==
    /\ s = Connected /\ made = 1 /\ open = {<<"room", 1>>}

\* The SDK loses room r; its callback is still to run.
RoomLost(r) ==
    /\ Here /\ <<"room", r>> \in open \ {<<"room", f>> : f \in failed}
    /\ Cardinality(failed) < scene.faults
    /\ failed' = failed \cup {r}
    /\ notices' = notices \cup {<<r, "lost">>}
    /\ UNCHANGED <<scene, s, supervisor, step, caller, open, made, history>>

\* OnDisconnected: the first look at closed and reconnecting ...
OnDisconnected(r) ==
    /\ Here /\ <<r, "lost">> \in notices
    /\ notices' = (notices \ {<<r, "lost">>})
                   \cup IF s.closed \/ s.reconnecting THEN {} ELSE {<<r, "ask">>}
    /\ missed' = (missed \/ (s.reconnecting /\ ~s.closed))
    /\ UNCHANGED <<scene, s, supervisor, step, caller, open, made, failed, raced>>

\* ... then queueReconnect, which looks again; a refusal ends the session.
QueueReconnect(r) ==
    /\ Here /\ <<r, "ask">> \in notices
    /\ Request
    /\ notices' = (notices \ {<<r, "ask">>})
                   \cup IF Rejected THEN {<<r, "ending">>} ELSE {}
    /\ s' = [s EXCEPT !.closed = s.closed \/ Rejected]
    /\ UNCHANGED <<scene, watch, count, step, caller, open, made, failed, raced>>

\* Reconnect, called by the layers above.
Reconnect ==
    /\ Here /\ ~s.closed /\ calls < scene.calls
    /\ calls' = calls + 1
    /\ Request
    /\ UNCHANGED <<scene, s, watch, count, step, cancelled, done, closer, ended, links, raced>>

\* Mutant: the old room is dropped but not disconnected.
MutLeaveRoom ==
    /\ Here /\ step = "begin"
    /\ s' = [s EXCEPT !.reconnecting = TRUE, !.room = 0]
    /\ step' = "connect"
    /\ UNCHANGED <<scene, supervisor, caller, links, history>>

\* reconnect: the old room is taken out and disconnected.
LeaveRoom ==
    /\ Here /\ step = "begin"
    /\ s' = [s EXCEPT !.reconnecting = TRUE, !.room = 0]
    /\ open' = open \ {<<"room", s.room>>}
    /\ step' = "connect"
    /\ UNCHANGED <<scene, supervisor, caller, made, failed, notices, history>>

\* connectSession, after refreshing the credentials: connectRoom.
ConnectRoom ==
    /\ Here /\ step = "connect" /\ made < scene.conns
    /\ made' = made + 1
    /\ open' = open \cup {<<"room", made + 1>>}
    /\ s' = [s EXCEPT !.next = made + 1]
    /\ step' = "set"
    /\ UNCHANGED <<scene, supervisor, caller, failed, notices, history>>

\* setRoom: unconditional, whatever Close has done meanwhile.
SetRoom ==
    /\ Here /\ step = "set"
    /\ s' = [s EXCEPT !.room = s.next, !.next = 0]
    /\ step' = "publish"
    /\ UNCHANGED <<scene, supervisor, caller, links, history>>

\* The refresh, connectRoom or publishPendingTracks fails: with the room set
\* in the last case, without one in the others.
ReconnectFails ==
    /\ Here /\ step \in {"connect", "publish"}
    /\ Fail
    /\ s' = [s EXCEPT !.reconnecting = FALSE]
    /\ UNCHANGED <<scene, queue, caller, links, history>>

\* publishPendingTracks succeeds (it needs the room), NotifyReconnect runs.
Publish ==
    /\ Here /\ step = "publish" /\ s.room # 0
    /\ Succeed
    /\ s' = [s EXCEPT !.reconnecting = FALSE]
    /\ UNCHANGED <<scene, queue, caller, links, history>>

\* Close, and signalEnded for the attempt limit: closed first, then shutdown.
Close ==
    /\ Here /\ closer = "no"
    /\ closer' = "closing"
    /\ s' = [s EXCEPT !.closed = TRUE]
    /\ UNCHANGED <<scene, supervisor, step, cancelled, done, ended, calls, links, history>>

LimitReached ==
    /\ Here /\ watch = "limit"
    /\ watch' = "ending"
    /\ s' = [s EXCEPT !.closed = TRUE]
    /\ UNCHANGED <<scene, queue, count, step, caller, links, history>>

Ending == closer = "closing" \/ watch = "ending" \/ \E n \in notices : n[2] = "ending"

\* shutdown, once: the signals, the room, then wg.Wait for the worker.
Shutdown ==
    /\ Here
    /\ \/ /\ s.shutdown = "no" /\ Ending
          /\ done' = TRUE /\ open' = open
          /\ s' = [s EXCEPT !.shutdown = "signalled"]
       \/ /\ s.shutdown = "signalled"
          /\ open' = open \ {<<"room", s.room>>} /\ done' = done
          /\ s' = [s EXCEPT !.shutdown = "waiting", !.room = 0]
       \/ /\ s.shutdown = "waiting" /\ s.worker = "gone"
          /\ s' = [s EXCEPT !.shutdown = "over"] /\ UNCHANGED <<done, open>>
    /\ UNCHANGED <<scene, supervisor, step, cancelled, closer, ended, calls,
                   made, failed, notices, history>>

\* What follows shutdown in each caller; signalEnded runs the callback.
Ended ==
    /\ Here /\ s.shutdown = "over"
    /\ \/ /\ closer = "closing" /\ closer' = "returned"
          /\ UNCHANGED <<watch, notices, ended>>
       \/ /\ watch = "ending" /\ watch' = "stopped" /\ ended' = TRUE
          /\ UNCHANGED <<closer, notices>>
       \/ \E n \in notices : /\ n[2] = "ending" /\ notices' = notices \ {n}
                             /\ ended' = TRUE /\ UNCHANGED <<watch, closer>>
    /\ UNCHANGED <<scene, s, queue, count, step, cancelled, done, calls,
                   open, made, failed, history>>

\* processSendQueue: a packet waits for a connected room (waitForConnectedRoom),
\* is published or dropped after roomReadyTimeout, or the worker sees done.
SendWorker ==
    /\ Here
    /\ \/ s.worker = "idle" /\ ~s.closed /\ s' = [s EXCEPT !.worker = "waiting"]
       \/ s.worker = "waiting" /\ s' = [s EXCEPT !.worker = "idle"]
       \/ s.worker # "gone" /\ done /\ s' = [s EXCEPT !.worker = "gone"]
    /\ UNCHANGED <<scene, supervisor, step, caller, links, history>>

LiveKitReconnect == LeaveRoom \/ ConnectRoom \/ SetRoom \/ ReconnectFails \/ Publish
LiveKitClose == LimitReached \/ Shutdown \/ Ended

LiveKitNext ==
    \/ \E r \in Conns : RoomLost(r) \/ OnDisconnected(r) \/ QueueReconnect(r)
    \/ Reconnect \/ LiveKitReconnect \/ Close \/ LiveKitClose \/ SendWorker
=============================================================================
