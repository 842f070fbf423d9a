--------------------------- MODULE GoolomSession ----------------------------
(***************************************************************************)
(* internal/engine/goolom: a connection is a pair of PeerConnections with  *)
(* a data channel ("pc") and a signalling WebSocket ("ws"); each Connect   *)
(* also starts a session generation, whose two channels stop the keepalive *)
(* and the send workers.  Connect serves the first connection and every    *)
(* reconnect; terminated, set by Close alone, is what stops it.            *)
(***************************************************************************)
EXTENDS Reconnector

Here == kind = "goolom"

\* Session after New and a successful Connect.  running: the generation's
\* keepAliveCh and sessionCloseCh are open; readers: connections whose
\* handleSignaling loop runs.
Connected ==
    [closed |-> FALSE, reconnecting |-> FALSE, terminated |-> FALSE,
     pc |-> 1, ws |-> 1, running |-> TRUE, readers |-> {1},
     asking |-> FALSE, goClosed |-> FALSE]

InitGoolom ==
    /\ s = Connected /\ made = 1 /\ open = {<<"pc", 1>>, <<"ws", 1>>}

\* A PeerConnection, the data channel or the WebSocket of connection g fails:
\* onPublisherConnectionStateChange, onDataChannelClose, the read error of
\* handleSignaling, a failed send or ping are still to report it.
LinkFails(g) ==
    /\ Here /\ {<<"pc", g>>, <<"ws", g>>} \subseteq open /\ g \notin failed
    /\ Cardinality(failed) < scene.faults
    /\ failed' = failed \cup {g}
    /\ notices' = notices \cup {<<g, "lost">>}
    /\ UNCHANGED <<scene, s, supervisor, step, caller, open, made, history>>

\* The report of a failure: queueReconnect, whose answer nobody looks at.  The
\* signalling loop of the connection ends.
QueueReconnect(g) ==
    /\ Here /\ <<g, "lost">> \in notices
    /\ notices' = notices \ {<<g, "lost">>}
    /\ s' = [s EXCEPT !.readers = @ \ {g}]
    /\ Request
    /\ UNCHANGED <<scene, watch, count, step, caller, open, made, failed, raced>>

\* handleSignaling reads a conference end: signalEnded tears nothing down.
ConferenceEnds(g) ==
    /\ Here /\ g \in s.readers /\ <<"ws", g>> \in open
    /\ s' = [s EXCEPT !.closed = TRUE, !.readers = @ \ {g}]
    /\ ended' = TRUE
    /\ UNCHANGED <<scene, supervisor, step, cancelled, done, closer, calls, links, history>>

\* Reconnect, called by the layers above: stopSession, then queueReconnect.
Reconnect ==
    /\ Here /\ ~s.closed /\ ~s.asking /\ calls < scene.calls
    /\ calls' = calls + 1
    /\ s' = [s EXCEPT !.running = FALSE, !.asking = TRUE]
    /\ UNCHANGED <<scene, supervisor, step, cancelled, done, closer, ended, links, history>>

Asked ==
    /\ Here /\ s.asking
    /\ s' = [s EXCEPT !.asking = FALSE]
    /\ Request
    /\ UNCHANGED <<scene, watch, count, step, caller, links, raced>>

\* What closeDataChannel, closePeerConns and closeWebSocket close.
Published == {<<"pc", s.pc>>, <<"ws", s.ws>>}

\* reconnect: refused after Close, else the leave message and its pause.
Begin ==
    /\ Here /\ step = "begin"
    /\ IF s.terminated THEN Fail /\ s' = s
                       ELSE /\ step' = "leave" /\ UNCHANGED <<watch, count>>
                            /\ s' = [s EXCEPT !.reconnecting = TRUE]
    /\ UNCHANGED <<scene, queue, caller, links, history>>

\* stopSession and the teardown of the connection.
Leave ==
    /\ Here /\ step = "leave"
    /\ s' = [s EXCEPT !.running = FALSE, !.ws = 0]
    /\ open' = open \ Published
    /\ step' = "refresh"
    /\ UNCHANGED <<scene, supervisor, caller, made, failed, notices, history>>

\* Connect's check of terminated, and what it then clears.
ConnectAllowed ==
    /\ Here /\ step = "refresh" /\ ~s.terminated
    /\ step' = "clear"
    /\ UNCHANGED <<scene, s, supervisor, caller, links, history>>

ClearClosed ==
    /\ Here /\ step = "clear"
    /\ s' = [s EXCEPT !.closed = FALSE]
    /\ step' = "setup"
    /\ UNCHANGED <<scene, supervisor, caller, links, history>>

\* setupPeerConnections; resetSession and the data channel follow.
SetupPeerConnections ==
    /\ Here /\ step = "setup" /\ made < scene.conns
    /\ made' = made + 1
    /\ open' = open \cup {<<"pc", made + 1>>}
    /\ s' = [s EXCEPT !.pc = made + 1]
    /\ step' = "session"
    /\ UNCHANGED <<scene, supervisor, caller, failed, notices, history>>

ResetSession ==
    /\ Here /\ step = "session"
    /\ s' = [s EXCEPT !.running = TRUE]
    /\ step' = "dial"
    /\ UNCHANGED <<scene, supervisor, caller, links, history>>

\* dialWebSocket, and the goroutines started over the new WebSocket: none
\* once Close has stopped launching.
DialWebSocket ==
    /\ Here /\ step = "dial"
    /\ open' = open \cup {<<"ws", s.pc>>}
    /\ s' = [s EXCEPT !.ws = s.pc, !.readers = IF s.goClosed THEN @ ELSE @ \cup {s.pc}]
    /\ step' = "wait"
    /\ UNCHANGED <<scene, supervisor, caller, made, failed, notices, history>>

\* The data channel opens, or the subscriber reports media.
Ready ==
    /\ Here /\ step = "wait"
    /\ Published \subseteq open /\ s.ws = s.pc /\ s.pc \notin failed
    /\ step' = "check"
    /\ UNCHANGED <<scene, s, supervisor, caller, links, history>>

\* abortIfTerminated, then NotifyReconnect.
AbortIfTerminated ==
    /\ Here /\ step = "check"
    /\ IF s.terminated
       THEN /\ Fail /\ open' = open \ Published
            /\ s' = [s EXCEPT !.reconnecting = FALSE, !.ws = 0]
       ELSE /\ Succeed /\ open' = open
            /\ s' = [s EXCEPT !.reconnecting = FALSE]
    /\ UNCHANGED <<scene, queue, caller, made, failed, notices, history>>

\* Every other return: a cancelled pause, no refresh, terminated on entry of
\* Connect, a failed setup or dial, a timeout.  Nothing is torn down.
ReconnectFails ==
    /\ Here
    /\ \/ step \in {"refresh", "setup", "dial", "wait"}
       \/ step = "leave" /\ cancelled
    /\ Fail
    /\ s' = [s EXCEPT !.reconnecting = FALSE]
    /\ UNCHANGED <<scene, queue, caller, links, history>>

\* signalEnded at the attempt limit.
LimitReached ==
    /\ Here /\ watch = "limit"
    /\ watch' = "stopped" /\ ended' = TRUE
    /\ s' = [s EXCEPT !.closed = TRUE]
    /\ UNCHANGED <<scene, queue, count, step, cancelled, done, closer, calls, links, history>>

\* Mutant: Close leaves a session that has already ended alone.
MutClose ==
    /\ Here /\ closer = "no"
    /\ closer' = IF s.closed THEN "returned" ELSE "closing"
    /\ s' = [s EXCEPT !.terminated = TRUE, !.closed = TRUE]
    /\ raced' = (raced \/ step \notin {"none", "begin"})
    /\ UNCHANGED <<scene, supervisor, step, cancelled, done, ended, calls, links, missed>>

\* Close: the marks, the leave and its ack; the signals; the teardown.
Close ==
    /\ Here /\ closer = "no"
    /\ closer' = "closing"
    /\ s' = [s EXCEPT !.terminated = TRUE, !.closed = TRUE]
    /\ raced' = (raced \/ step \notin {"none", "begin"})
    /\ UNCHANGED <<scene, supervisor, step, cancelled, done, ended, calls, links, missed>>

CloseSession ==
    /\ Here
    /\ \/ /\ closer = "closing" /\ closer' = "stopped" /\ done' = TRUE
          /\ s' = [s EXCEPT !.running = FALSE] /\ open' = open
       \/ /\ closer = "stopped" /\ closer' = "returned" /\ done' = done
          /\ s' = [s EXCEPT !.ws = 0, !.goClosed = TRUE] /\ open' = open \ Published
    /\ UNCHANGED <<scene, supervisor, step, cancelled, ended, calls,
                   made, failed, notices, history>>

GoolomReconnect ==
    \/ Begin \/ Leave \/ ConnectAllowed \/ ClearClosed \/ SetupPeerConnections
    \/ ResetSession \/ DialWebSocket \/ Ready \/ AbortIfTerminated \/ ReconnectFails

GoolomClose == LimitReached \/ CloseSession

GoolomNext ==
    \/ \E g \in Conns : LinkFails(g) \/ QueueReconnect(g) \/ ConferenceEnds(g)
    \/ Reconnect \/ Asked \/ GoolomReconnect \/ Close \/ GoolomClose
=============================================================================
