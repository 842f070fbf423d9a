---------------------------- MODULE Reconnector ----------------------------
(***************************************************************************)
(* internal/engine/reconnect.go: the reconnect supervisor every engine     *)
(* session embeds.  Callbacks of the connection and the layers above ask   *)
(* for a reconnect; the requests meet in a queue of one slot; the Watch    *)
(* goroutine serves them, attempt after attempt, until one succeeds, the   *)
(* limit is reached or the session stops.                                  *)
(*                                                                         *)
(* The engine modules (LiveKitSession, GoolomSession, JitsiSession) EXTEND *)
(* this one: they give the steps of their reconnect, Close and callbacks.  *)
(* EngineSession puts the three side by side, one per behaviour.           *)
(***************************************************************************)
EXTENDS Integers, FiniteSets

CONSTANTS
    maxAttempts,    \* ReconnectorConfig.MaxAttempts
    slowFailures,   \* failures after which five minutes may have passed (jitsi)
    Scenes          \* the sessions to check: an engine and the bounds on what it meets

ASSUME ReconnectorAssumption ==
    /\ {maxAttempts, slowFailures} \subseteq Nat \ {0}
    /\ Scenes \subseteq [kind : {"livekit", "goolom", "jitsi"},
                         conns : Nat \ {0},    \* connections made
                         faults : Nat,         \* established connections that fail
                         calls : Nat,          \* Reconnect calls of the layers above
                         cancels : BOOLEAN]    \* the caller may cancel its context

Conns == UNION {1..sc.conns : sc \in Scenes}

VARIABLES
    scene,      \* the session under check; never changes
    s,          \* the fields of the engine's Session, .closed and .reconnecting among them
    queue,      \* Reconnector.queue holds a request
    watch,      \* where the Watch goroutine is
    count,      \* Reconnector.count
    step,       \* where the engine's reconnect is, "none" outside of it
    cancelled,  \* the caller's context is over; ShouldReconnect is its negation
    done,       \* the channel that stops Watch is closed
    closer,     \* where Close is
    ended,      \* the ended callback has run
    open,       \* resources that exist: <<what, number of the connection>>
    made,       \* connections made so far
    failed,     \* connections whose far end or link has failed
    notices,    \* failures whose callback has not run yet
    calls,      \* Reconnect calls made
    missed,     \* history: a request was refused or drained since the last attempt began
    raced       \* history: Close overlapped the making of a connection

supervisor == <<queue, watch, count>>
history == <<missed, raced>>
links == <<open, made, failed, notices>>
caller == <<cancelled, done, closer, ended, calls>>
kind == scene.kind
vars == <<scene, s, supervisor, step, caller, links, history>>

Resources == {"room", "pc", "ws", "muc"}

\* Request: rejected by the session's state or the policy, otherwise queued
\* or, when the slot is taken, coalesced with the request that has it.
Rejected == s.closed \/ s.reconnecting \/ cancelled

Request ==
    /\ queue' = (queue \/ ~Rejected)
    /\ missed' = (missed \/ (s.reconnecting /\ ~s.closed /\ ~cancelled))

\* Watch's select: a request and the stop signal may both be ready.
WatchTake ==
    /\ watch = "idle" /\ queue
    /\ queue' = FALSE /\ watch' = "request"
    /\ UNCHANGED <<scene, s, count, step, caller, links, history>>

WatchStop ==
    /\ watch \in {"idle", "backoff"} /\ (done \/ cancelled)
    /\ watch' = "stopped"
    /\ UNCHANGED <<scene, s, queue, count, step, caller, links, history>>

\* The attempt that follows the count: the limit, or one more reconnect.
Attempt(n) ==
    /\ count' = n
    /\ IF n > maxAttempts THEN watch' = "limit" /\ step' = step
                          ELSE watch' = "attempt" /\ step' = "begin"
    /\ missed' = (missed /\ n > maxAttempts)

\* Mutant: the bound is checked once, before the retries.
MutNextRequestCount ==
    /\ kind # "jitsi"
    /\ \/ /\ watch = "request"
          /\ \E expired \in BOOLEAN : Attempt(IF expired THEN 1 ELSE count + 1)
       \/ /\ watch = "retry"
          /\ watch' = "attempt" /\ step' = "begin" /\ missed' = FALSE /\ count' = count
    /\ UNCHANGED <<scene, s, queue, caller, links, raced>>

\* handleRequestAttempt with nextRequestCount.  Only the gap before a request
\* can exceed the window: an attempt and its backoff take less.
NextRequestCount ==
    /\ kind # "jitsi"
    /\ \/ /\ watch = "request"
          /\ \E expired \in BOOLEAN : Attempt(IF expired THEN 1 ELSE count + 1)
       \/ /\ watch = "retry"
          /\ Attempt(count + 1)
    /\ UNCHANGED <<scene, s, queue, caller, links, raced>>

\* handleFailureAttempts with failureCount.  The window starts at the first
\* failure, and slow attempts alone may outlast it.
FailureCount ==
    /\ kind = "jitsi" /\ watch \in {"request", "retry"}
    /\ \E expired \in {FALSE, count >= slowFailures} :
         Attempt(IF expired THEN 0 ELSE count)
    /\ UNCHANGED <<scene, s, queue, caller, links, raced>>

\* waitReconnect: the backoff elapses and the loop counts again.
Backoff ==
    /\ watch = "backoff"
    /\ watch' = "retry"
    /\ UNCHANGED <<scene, s, queue, count, step, caller, links, history>>

\* reconnect has returned nil (or jitsi's errNoPeer): resetFailures, Drain,
\* back to the select.  The session already accepts requests again.
Drain ==
    /\ watch = "drain"
    /\ queue' = FALSE /\ watch' = "idle"
    /\ missed' = (missed \/ (queue /\ ~s.closed))
    /\ count' = IF kind = "jitsi" THEN 0 ELSE count
    /\ UNCHANGED <<scene, s, step, caller, links, raced>>

\* How an engine's reconnect returns, its deferred reset included: with nil,
\* or with an error, which counts as a failure in the jitsi mode only.
Succeed ==
    /\ step' = "none" /\ watch' = "drain" /\ count' = count
Fail ==
    /\ step' = "none" /\ watch' = "backoff"
    /\ count' = IF kind = "jitsi" THEN count + 1 ELSE count

\* The caller: its context ends (the reconnect policy with it).  After Close
\* it would change nothing: closed and done refuse and stop the same things.
Cancel ==
    /\ scene.cancels /\ ~cancelled /\ closer = "no" /\ cancelled' = TRUE
    /\ UNCHANGED <<scene, s, supervisor, step, done, closer, ended, calls, links, history>>

WatchNext == WatchTake \/ WatchStop \/ NextRequestCount \/ FailureCount \/ Backoff \/ Drain
=============================================================================
