--------------------------- MODULE EngineSession ----------------------------
(***************************************************************************)
(* The engine sessions side by side: a behaviour is one of LiveKit, Goolom *)
(* or Jitsi from its first connection on.  The properties are those the    *)
(* layers above rely on, whichever engine carries them.                    *)
(***************************************************************************)
EXTENDS Reconnector

LiveKit == INSTANCE LiveKitSession
Goolom == INSTANCE GoolomSession
Jitsi == INSTANCE JitsiSession

Init ==
    /\ scene \in Scenes
    /\ queue = FALSE /\ watch = "idle" /\ count = 0 /\ step = "none"
    /\ cancelled = FALSE /\ done = FALSE /\ closer = "no" /\ ended = FALSE
    /\ failed = {} /\ notices = {} /\ calls = 0
    /\ missed = FALSE /\ raced = FALSE
    /\ \/ kind = "livekit" /\ LiveKit!InitLiveKit
       \/ kind = "goolom" /\ Goolom!InitGoolom
       \/ kind = "jitsi" /\ Jitsi!InitJitsi

EngineReconnect == LiveKit!LiveKitReconnect \/ Goolom!GoolomReconnect \/ Jitsi!JitsiReconnect
EngineClose == LiveKit!LiveKitClose \/ Goolom!GoolomClose \/ Jitsi!JitsiClose
SendWorker == LiveKit!SendWorker

Next == \/ WatchNext \/ Cancel
        \/ LiveKit!LiveKitNext \/ Goolom!GoolomNext \/ Jitsi!JitsiNext

\* The goroutines of the program are scheduled and every wait of an attempt
\* is bounded by a timeout; the far end, the caller and the layers above owe
\* nothing.
Fairness == WF_vars(WatchNext) /\ WF_vars(EngineReconnect)
            /\ WF_vars(EngineClose) /\ WF_vars(SendWorker)

Spec == Init /\ [][Next]_vars /\ Fairness

-----------------------------------------------------------------------------
TypeOK ==
    /\ scene \in Scenes
    /\ {s.closed, s.reconnecting, queue, cancelled, done, ended, missed, raced} \subseteq BOOLEAN
    /\ watch \in {"idle", "request", "retry", "attempt", "backoff", "drain",
                  "limit", "ending", "stopped"}
    /\ (step # "none") <=> (watch = "attempt")
    /\ count \in 0..(maxAttempts + 1)
    /\ open \subseteq Resources \X (1..made) /\ made \in 1..scene.conns
    /\ failed \subseteq 1..made
    /\ calls \in 0..scene.calls

\* A session that is not closed holds at most one of each: the ghost of an
\* earlier connection would take part in the room beside the new one.  Each
\* reconnect path, a failed attempt and a retry included, closes what the
\* previous one left (livekit.go reconnect, goolom reconnect, jitsi reconnect,
\* reconnectFull and installSession).  The variables keep their types.
OneConnection ==
    /\ TypeOK
    /\ ~s.closed => \A x, y \in open : x[1] = y[1] => x = y

\* The connection in use has failed, or Goolom's generation was stopped by
\* Reconnect: without a reconnect the session stays mute.
NeedsRepair ==
    CASE kind = "livekit" -> s.room \in failed \cup {0}
      [] kind = "goolom" -> s.pc \in failed \/ ~s.running
      [] kind = "jitsi" -> s.jSess \in failed \cup {0}

\* Somebody is going to see to it.
UnderWay ==
    \/ queue \/ watch # "idle" \/ notices # {}
    \/ kind = "goolom" /\ s.asking
    \/ kind = "jitsi" /\ (s.loops > 0 \/ s.loop.muc = s.jSess \/ s.waiters # {})

\* A failed connection is being repaired, unless the request was refused
\* because an attempt was running or drained at its end: the supervisor's
\* window (reconnect.go Request and Drain), the only way a failure is lost.
\* In particular a Jitsi bridge never dies unseen, although recvLoops wait
\* for each other and ignore bridges of an earlier generation.
RepairIsUnderWay ==
    NeedsRepair /\ ~s.closed /\ ~ended /\ ~cancelled => UnderWay \/ missed

\* Goolom and Jitsi: when Close has returned and no attempt is running,
\* nothing is held any more, unless Close overlapped an attempt past its own
\* check (goolom reconnect: terminated; jitsi reconnect: closed).  An attempt
\* whose request was still queued when Close began opens nothing.
CloseIsFinal ==
    kind # "livekit" /\ closer = "returned" /\ step = "none" /\ ~raced => open = {}

\* A series of failing attempts ends: with a connection, with the limit and
\* its callback, or with the session (reconnect.go handleRequestAttempt: the
\* bound is checked on every iteration).  Not claimed of jitsi, whose failure
\* window slow attempts outlast.
GivesUp ==
    (kind # "jitsi" /\ watch = "backoff") ~> (watch \in {"idle", "stopped"})

\* Close returns, although LiveKit's waits for its send worker without a bound.
CloseReturns == (closer = "closing") ~> (closer = "returned")

\* Neither the supervisor nor the caller of Close is held for ever.
NothingHangs == GivesUp /\ CloseReturns
=============================================================================
