---------------------------- MODULE JitsiSession ----------------------------
(***************************************************************************)
(* internal/engine/jitsi: a session holds an XMPP session in the MUC       *)
(* ("muc", jSess) and, once Jicofo has sent its offer, a bridge channel    *)
(* and a PeerConnection ("pc").  The offer comes only when a peer is there *)
(* so a goroutine waits for it; recvLoop reads the bridge, one loop at a   *)
(* time, and reports its end, unless the bridge has been replaced since    *)
(* (bridgeGen).  Epochs and frames are not part of this module.            *)
(***************************************************************************)
EXTENDS Reconnector

Here == kind = "jitsi"

NoLoop == [muc |-> 0, current |-> FALSE]

\* Session after New and Connect: the MUC joined, recvLoop and waitForJingle
\* launched.  waiters: the MUC each waitForJingle waits in or sets up; loops:
\* recvLoops waiting for recvMu; loop: the one that has it, the session it reads
\* and whether its bridge generation is still bridgeGen; mine: the session
\* reconnect holds.
Connected ==
    [closed |-> FALSE, reconnecting |-> FALSE, jSess |-> 1, pc |-> 0,
     bridgeReady |-> FALSE, waiters |-> {<<1, "wait">>},
     loops |-> 1, loop |-> NoLoop, mine |-> 0, nested |-> FALSE,
     loaded |-> 0, goClosed |-> FALSE]

InitJitsi ==
    /\ s = Connected /\ made = 1 /\ open = {<<"muc", 1>>}

\* goLaunch of a recvLoop, refused once Close has stopped launching.  Of the
\* loops that wait for recvMu the model keeps two: bound.
Launch == IF s.goClosed \/ s.loops = 2 THEN s.loops ELSE s.loops + 1

\* requestReconnect on session state t: ignored when closed or reconnecting,
\* the end of the session when the policy refuses.
RequestReconnect(t) ==
    LET ignored == t.closed \/ t.reconnecting IN
    /\ queue' = (queue \/ (~ignored /\ ~cancelled))
    /\ missed' = (missed \/ (t.reconnecting /\ ~t.closed))
    /\ ended' = (ended \/ (~ignored /\ cancelled))
    /\ s' = IF ignored \/ (queue /\ ~cancelled) THEN t ELSE [t EXCEPT !.bridgeReady = FALSE]

\* The bridge of connection g closes under its reader.
BridgeFails(g) ==
    /\ Here /\ s.jSess = g /\ s.bridgeReady /\ g \notin failed
    /\ Cardinality(failed) < scene.faults
    /\ failed' = failed \cup {g}
    /\ UNCHANGED <<scene, s, supervisor, step, caller, open, made, notices, history>>

\* The XMPP ping of xmppKeepalive, or the PeerConnection, fails; the report of
\* such a failure is a notice, made once.
LinkFails(g) ==
    /\ Here /\ s.jSess = g /\ g \notin failed
    /\ Cardinality(failed) < scene.faults
    /\ failed' = failed \cup {g}
    /\ notices' = notices \cup {<<g, "lost">>}
    /\ UNCHANGED <<scene, s, supervisor, step, caller, open, made, history>>

LinkLost(g) ==
    /\ Here /\ <<g, "lost">> \in notices
    /\ notices' = notices \ {<<g, "lost">>}
    /\ RequestReconnect(s)
    /\ UNCHANGED <<scene, watch, count, step, cancelled, done, closer, calls,
                   open, made, failed, raced>>

\* Reconnect, called by the layers above.
Reconnect ==
    /\ Here /\ calls < scene.calls
    /\ calls' = calls + 1
    /\ RequestReconnect(s)
    /\ UNCHANGED <<scene, watch, count, step, cancelled, done, closer, links, raced>>

\* recvLoop gets recvMu: it binds to the bridge it finds, or exits early.
RecvLoop ==
    /\ Here /\ s.loops > 0 /\ s.loop = NoLoop
    /\ s' = [s EXCEPT !.loops = @ - 1,
               !.loop = IF s.jSess # 0 /\ s.bridgeReady
                        THEN [muc |-> s.jSess, current |-> TRUE] ELSE NoLoop]
    /\ UNCHANGED <<scene, supervisor, step, caller, links, history>>

\* ... and ends with its bridge (requestReconnectGen) or with the session.
RecvLoopEnds ==
    LET t == [s EXCEPT !.loop = NoLoop] IN
    /\ Here /\ s.loop # NoLoop
    /\ \/ /\ s.loop.muc \in failed \/ <<"muc", s.loop.muc>> \notin open
          /\ IF s.loop.current
             THEN RequestReconnect(t)
             ELSE s' = t /\ UNCHANGED <<queue, missed, ended>>
       \/ done /\ s' = t /\ UNCHANGED <<queue, missed, ended>>
    /\ UNCHANGED <<scene, watch, count, step, cancelled, done, closer, calls, links, raced>>

Working(g) == <<"muc", g>> \in open /\ g \notin failed

\* markBridgeReady: a bridge generation later than any running loop's.
OpenBridge(t) == [t EXCEPT !.bridgeReady = TRUE, !.loop.current = FALSE]

\* installPeerConnectionState.  A PeerConnection it replaces is not closed, by
\* it or by anybody later; open keeps those that can still be closed.
InstallPC(t, g) == [t EXCEPT !.pc = g]
WithPC(g) == (open \ {<<"pc", s.pc>>}) \cup {<<"pc", g>>}

\* waitForJingle: the offer arrives and completeJingleSetup opens the bridge,
\* then negotiates the PeerConnection and launches a recvLoop.
JingleArrives(g) ==
    /\ Here /\ <<g, "wait">> \in s.waiters /\ Working(g)
    /\ s' = [OpenBridge(s) EXCEPT !.waiters = (@ \ {<<g, "wait">>}) \cup {<<g, "setup">>}]
    /\ raced' = (raced \/ s.closed)
    /\ UNCHANGED <<scene, supervisor, step, caller, links, missed>>

JingleSetup(g) ==
    /\ Here /\ <<g, "setup">> \in s.waiters
    /\ s' = [InstallPC(s, g) EXCEPT !.waiters = @ \ {<<g, "setup">>}, !.loops = Launch]
    /\ open' = WithPC(g)
    /\ UNCHANGED <<scene, supervisor, step, caller, made, failed, notices, history>>

\* The wait fails (the MUC is gone) or the setup does.
JingleFails(g) ==
    /\ Here /\ \E ph \in {"wait", "setup"} :
         /\ <<g, ph>> \in s.waiters
         /\ ph = "wait" => ~Working(g) \/ done
         /\ RequestReconnect([s EXCEPT !.waiters = @ \ {<<g, ph>>}])
    /\ UNCHANGED <<scene, watch, count, step, cancelled, done, closer, calls, links, raced>>

\* reconnect: refused after Close, else the bridge, the PeerConnection and the
\* XMPP session are given up.
Begin ==
    /\ Here /\ step = "begin"
    /\ IF s.closed
       THEN Fail /\ UNCHANGED <<s, open>>
       ELSE /\ step' = "join" /\ UNCHANGED <<watch, count>>
            /\ s' = [s EXCEPT !.reconnecting = TRUE, !.bridgeReady = FALSE,
                              !.pc = 0, !.jSess = 0]
            /\ open' = open \ {<<"pc", s.pc>>, <<"muc", s.jSess>>}
    /\ UNCHANGED <<scene, queue, caller, made, failed, notices, history>>

\* JoinMUC, of reconnect ("join") or of reconnectFull ("fulljoin").
JoinMUC ==
    /\ Here /\ step \in {"join", "fulljoin"} /\ made < scene.conns
    /\ made' = made + 1
    /\ open' = open \cup {<<"muc", made + 1>>}
    /\ s' = [s EXCEPT !.mine = made + 1]
    /\ step' = IF step = "join" THEN "install" ELSE "offer"
    /\ UNCHANGED <<scene, supervisor, caller, failed, notices, history>>

\* installSession, three looks at state Close changes too: closed, the swap
\* of jSess, closed again.  After it: reinitiate, park or finish.
Installing == {"install", "parkinstall", "fullinstall"}
Stored(st) == CASE st = "install" -> "store" [] st = "parkinstall" -> "parkstore"
                [] st = "fullinstall" -> "fullstore"
Checking(st) == CASE st = "store" -> "recheck" [] st = "parkstore" -> "parkrecheck"
                  [] st = "fullstore" -> "fullrecheck"

InstallCheck ==
    /\ Here /\ step \in Installing
    /\ IF s.closed
       THEN /\ Fail /\ open' = open \ {<<"muc", s.mine>>}
            /\ s' = [s EXCEPT !.reconnecting = FALSE, !.mine = 0, !.nested = FALSE]
       ELSE step' = Stored(step) /\ UNCHANGED <<s, open, watch, count>>
    /\ UNCHANGED <<scene, queue, caller, made, failed, notices, history>>

InstallStore ==
    /\ Here /\ step \in {"store", "parkstore", "fullstore"}
    /\ s' = [s EXCEPT !.jSess = s.mine]
    /\ open' = open \ {<<"muc", s.jSess>>}
    /\ step' = Checking(step)
    /\ UNCHANGED <<scene, supervisor, caller, made, failed, notices, history>>

\* The second look; a session installed in vain is closed if jSess still
\* holds it.  reconnectFull without a peer launches waitForJingle and returns
\* errNoPeer, which the supervisor takes as a success.
InstallRecheck ==
    /\ Here /\ step \in {"recheck", "parkrecheck", "fullrecheck"}
    /\ IF s.closed
       THEN /\ Fail /\ open' = open \ {<<"muc", s.jSess>>}
            /\ s' = [s EXCEPT !.reconnecting = FALSE, !.mine = 0, !.jSess = 0,
                              !.nested = FALSE]
       ELSE /\ open' = open
            /\ IF step = "parkrecheck"
               THEN /\ Succeed
                    /\ s' = [s EXCEPT !.reconnecting = FALSE, !.mine = 0, !.nested = FALSE,
                               !.waiters = IF s.goClosed \/ s.jSess = 0 THEN @
                                           ELSE @ \cup {<<s.jSess, "wait">>}]
               ELSE /\ step' = IF step = "recheck" THEN "reinitiate" ELSE "finish"
                    /\ UNCHANGED <<s, watch, count>>
    /\ UNCHANGED <<scene, queue, caller, made, failed, notices, history>>

\* WaitJingleReinitiate and reinitiateBridge succeed.
Reinitiate ==
    /\ Here /\ step = "reinitiate" /\ Working(s.mine)
    /\ s' = InstallPC(OpenBridge(s), s.mine)
    /\ open' = WithPC(s.mine)
    /\ step' = "finish"
    /\ UNCHANGED <<scene, supervisor, caller, made, failed, notices, history>>

\* reconnectFull, after a failed join, wait or bridge: the installed session
\* is given up, a PeerConnection already negotiated is not.  A reinitiateBridge
\* that ends in a successful reconnectFull is followed by finishReconnect twice.
ReconnectFull ==
    /\ Here
    /\ \/ /\ step = "join"
          /\ s' = s /\ open' = open
       \/ /\ step = "reinitiate"
          /\ \E nested, negotiated \in BOOLEAN :
               /\ negotiated => nested /\ Working(s.mine)
               /\ LET t == IF negotiated THEN InstallPC(s, s.mine) ELSE s
                      res == IF negotiated THEN WithPC(s.mine) ELSE open
                  IN  /\ s' = [t EXCEPT !.jSess = 0, !.mine = 0, !.nested = nested]
                      /\ open' = res \ {<<"muc", s.jSess>>}
    /\ step' = "fulljoin"
    /\ UNCHANGED <<scene, supervisor, caller, made, failed, notices, history>>

\* WaitJingle within a minute, or the session is parked in the MUC.
OfferArrives ==
    /\ Here /\ step = "offer" /\ Working(s.mine)
    /\ s' = [InstallPC(OpenBridge(s), s.mine) EXCEPT !.loops = Launch]
    /\ open' = WithPC(s.mine)
    /\ step' = "fullinstall"
    /\ UNCHANGED <<scene, supervisor, caller, made, failed, notices, history>>

NoOffer ==
    /\ Here /\ step = "offer"
    /\ step' = "parkinstall"
    /\ UNCHANGED <<scene, s, supervisor, caller, links, history>>

\* reconnectFull fails: at its join, or in completeJingleSetup, perhaps after
\* the bridge was opened; the session it joined is closed.
ReconnectFails ==
    /\ Here /\ step \in {"fulljoin", "offer"}
    /\ Fail
    /\ open' = open \ {<<"muc", s.mine>>}
    /\ \E opened \in {FALSE, step = "offer"} :
         s' = [IF opened THEN OpenBridge(s) ELSE s
                 EXCEPT !.reconnecting = FALSE, !.mine = 0, !.nested = FALSE]
    /\ UNCHANGED <<scene, queue, caller, made, failed, notices, history>>

\* Mutant: finishReconnect relies on the recvLoop of completeJingleSetup.
MutFinishReconnect ==
    /\ Here /\ step = "finish"
    /\ IF s.nested
       THEN /\ s' = [OpenBridge(s) EXCEPT !.nested = FALSE]
            /\ UNCHANGED <<step, watch, count>>
       ELSE /\ s' = [OpenBridge(s) EXCEPT !.reconnecting = FALSE, !.mine = 0]
            /\ Succeed
    /\ UNCHANGED <<scene, queue, caller, links, history>>

\* finishReconnect: once more a bridge generation and a recvLoop, then the
\* callback.
FinishReconnect ==
    /\ Here /\ step = "finish"
    /\ IF s.nested
       THEN /\ s' = [OpenBridge(s) EXCEPT !.loops = Launch, !.nested = FALSE]
            /\ UNCHANGED <<step, watch, count>>
       ELSE /\ s' = [OpenBridge(s) EXCEPT !.loops = Launch, !.reconnecting = FALSE, !.mine = 0]
            /\ Succeed
    /\ UNCHANGED <<scene, queue, caller, links, history>>

\* signalEnded at the attempt limit.
LimitReached ==
    /\ Here /\ watch = "limit"
    /\ watch' = "stopped" /\ ended' = TRUE
    /\ s' = [s EXCEPT !.bridgeReady = FALSE]
    /\ UNCHANGED <<scene, queue, count, step, cancelled, done, closer, calls, links, history>>

\* Close: the mark and the load of jSess; the PeerConnection and the loaded
\* session closed; jSess cleared; the goroutines stopped.
Close ==
    /\ Here /\ closer = "no" /\ ~s.closed
    /\ closer' = "closing"
    /\ s' = [s EXCEPT !.closed = TRUE]
    /\ raced' = (raced \/ step \notin {"none", "begin"}
                       \/ \E w \in s.waiters : w[2] = "setup")
    /\ UNCHANGED <<scene, supervisor, step, cancelled, done, ended, calls, links, missed>>

CloseSession ==
    /\ Here
    /\ \/ /\ closer = "closing" /\ closer' = "loaded"
          /\ s' = [s EXCEPT !.loaded = s.jSess] /\ UNCHANGED <<open, done>>
       \/ /\ closer = "loaded" /\ closer' = "closed"
          /\ open' = open \ {<<"pc", s.pc>>, <<"muc", s.loaded>>}
          /\ s' = [s EXCEPT !.pc = 0, !.loaded = 0] /\ done' = done
       \/ /\ closer = "closed" /\ closer' = "returned" /\ done' = TRUE
          /\ s' = [s EXCEPT !.jSess = 0, !.bridgeReady = FALSE, !.goClosed = TRUE]
          /\ open' = open
    /\ UNCHANGED <<scene, supervisor, step, cancelled, ended, calls,
                   made, failed, notices, history>>

JitsiReconnect ==
    \/ Begin \/ JoinMUC \/ InstallCheck \/ InstallStore \/ InstallRecheck \/ Reinitiate
    \/ ReconnectFull \/ OfferArrives \/ NoOffer \/ ReconnectFails \/ FinishReconnect

JitsiClose == LimitReached \/ CloseSession

JitsiNext ==
    \/ \E g \in Conns : \/ BridgeFails(g) \/ LinkFails(g) \/ LinkLost(g)
                              \/ JingleArrives(g) \/ JingleSetup(g) \/ JingleFails(g)
    \/ RecvLoop \/ RecvLoopEnds \/ Reconnect \/ JitsiReconnect \/ Close \/ JitsiClose
=============================================================================
