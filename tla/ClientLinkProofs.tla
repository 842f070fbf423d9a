--------------------------- MODULE ClientLinkProofs ---------------------------
(***************************************************************************)
(* Proofs about the client's link and its SOCKS front end.                 *)
(***************************************************************************)
EXTENDS ClientLink, FiniteSetTheorems, TLAPS

\* Where the holder of reconnectMu is building a pair, and where it has installed it.
Building == {"handshake", "install"}
Installing == {"swap", "fire", "start"}
Detached == {"close", "dispatch", "attempt"} \cup Building

\* Pairs and their control loops come into being in order, what a teardown took out is in
\* its hands only until it has closed it, and whoever builds a pair has no live one to
\* overwrite.
PairInv ==
    /\ \A i \in Pairs : i > made => pair[i] = "none" /\ loop[i] = "none"
    /\ mu.pc \in Building \cup Installing => made \in Pairs /\ loop[made] = "none"
    /\ mu.pc # "close" => mu.old = None /\ mu.oldStop = None
    /\ main \notin {"bringup", "serve"} => ctxDone
    /\ ~ctxDone => (session = None <=> sessionID = None)
    /\ ~ctxDone /\ mu.pc \in Detached => session = None \/ pair[session] = "closed"
    /\ ~ctxDone /\ mu.pc \in Installing => session = made

\* The conns belong to the pair under construction, to the session, or are closed.
ConnInv ==
    IF mu.pc \in Building THEN conn \in {None, made}
    ELSE conn # None => conn = session \/ pair[conn] \in {"cut", "closed"}

\* Every generation but the last has been signalled, and a handler that sampled the last
\* one has seen the session that is established, if there is one.
ReadyInv ==
    /\ ready = fired + (IF mu.pc = "fire" THEN 2 ELSE 1)
    /\ \A h \in Handlers : view[h].gen <= ready
    /\ mu.pc # "swap" /\ Established =>
         \A h \in Handlers : view[h].gen = ready =>
            /\ socks[h] = "picked" => view[h].session = session
            /\ socks[h] # "waiting"

\* What is served is registered.
SocksInv ==
    /\ \A h \in open : socks[h] \notin {"idle", "ending"}
    /\ \A h \in open : socks[h] # "accepted" => h \in socksConns
    /\ Cardinality(socksConns) <= MaxSocksConns
    /\ main \in {"wait", "done"} => socksClosed
    /\ socksClosed => socksConns = {}

Inv == TypeOK /\ PairInv /\ NothingIsOrphaned /\ ConnInv /\ ReadyInv /\ SocksInv

-----------------------------------------------------------------------------
LEMMA PairsAreNumbers == MaxPairs \in Nat /\ Pairs = 1 .. MaxPairs /\ None = 0
  BY ClientAssumption DEF MaxPairs, Pairs, None

LEMMA AttemptsType == MaxAttempts \in Nat \ {0} /\ MaxAttempts' \in Nat \ {0}
  BY ClientAssumption DEF MaxAttempts

LEMMA SameAttempts == mu'.by = mu.by => MaxAttempts' = MaxAttempts
  BY DEF MaxAttempts

\* What the type of reconnectMu says of its fields.
LEMMA MuShape ==
  ASSUME TypeOK
  PROVE  /\ mu = Free <=> mu.pc = "free"
         /\ mu.pc \in Steps \cup {"free"}
         /\ mu.old \in 0 .. made /\ mu.oldStop \in 0 .. made
         /\ mu.pc # "free" => mu \in [by : Callers, pc : Steps, attempt : 0 .. MaxAttempts,
                                       old : 0 .. made, oldStop : 0 .. made]
<1>1. made \in Nat
  BY PairsAreNumbers DEF TypeOK
<1>2. CASE mu = Free
  BY <1>1, <1>2, PairsAreNumbers DEF Free, Steps
<1>3. CASE mu # Free
  <2>1. mu \in [by : Callers, pc : Steps, attempt : 0 .. MaxAttempts, old : 0 .. made, oldStop : 0 .. made]
    BY <1>3 DEF TypeOK
  <2> QED BY <1>3, <2>1 DEF Steps
<1> QED BY <1>2, <1>3

\* The type of reconnectMu after a step of its holder that leaves the attempts alone.
LEMMA MuGoesOn ==
  ASSUME TypeOK, mu.pc # "free", made' \in Nat, made <= made', NEW pc \in Steps,
         NEW old \in 0 .. made, NEW oldStop \in 0 .. made,
         mu' = [mu EXCEPT !.pc = pc, !.old = old, !.oldStop = oldStop]
  PROVE  mu' \in [by : Callers, pc : Steps, attempt : 0 .. MaxAttempts', old : 0 .. made', oldStop : 0 .. made']
<1>1. mu \in [by : Callers, pc : Steps, attempt : 0 .. MaxAttempts, old : 0 .. made, oldStop : 0 .. made]
  BY MuShape
<1>2. made \in Nat
  BY PairsAreNumbers DEF TypeOK
<1>3. mu' = [by |-> mu.by, pc |-> pc, attempt |-> mu.attempt, old |-> old, oldStop |-> oldStop]
  BY <1>1
<1>4. mu'.by = mu.by
  BY <1>3
<1>5. mu.by \in Callers /\ mu.attempt \in 0 .. MaxAttempts'
  BY <1>1, <1>4, SameAttempts
<1>6. old \in 0 .. made' /\ oldStop \in 0 .. made'
  BY <1>2
<1> QED BY <1>3, <1>5, <1>6

LEMMA MuSteps ==
  ASSUME TypeOK, mu.pc # "free", made' \in Nat, made <= made', NEW pc \in Steps,
         mu' = [mu EXCEPT !.pc = pc]
  PROVE  mu' \in [by : Callers, pc : Steps, attempt : 0 .. MaxAttempts', old : 0 .. made', oldStop : 0 .. made']
<1>1. mu \in [by : Callers, pc : Steps, attempt : 0 .. MaxAttempts, old : 0 .. made, oldStop : 0 .. made]
  BY MuShape
<1>2. made \in Nat
  BY PairsAreNumbers DEF TypeOK
<1>3. mu'.by = mu.by
  BY <1>1
<1> QED BY <1>1, <1>2, <1>3, SameAttempts

\* The type of reconnectMu when it is taken.
LEMMA MuTaken ==
  ASSUME TypeOK, UNCHANGED made, NEW by \in Callers, NEW pc \in Steps, mu' = Taking(by, pc)
  PROVE  /\ mu' \in [by : Callers, pc : Steps, attempt : 0 .. MaxAttempts', old : 0 .. made', oldStop : 0 .. made']
         /\ mu'.by = by /\ mu'.pc = pc /\ mu'.old = None /\ mu'.oldStop = None
<1>1. mu' = [by |-> by, pc |-> pc, attempt |-> IF pc = "attempt" THEN 1 ELSE 0, old |-> None, oldStop |-> None]
  BY DEF Taking, Free
<1>2. None \in 0 .. made'
  BY PairsAreNumbers DEF TypeOK
<1>3. (IF pc = "attempt" THEN 1 ELSE 0) \in 0 .. MaxAttempts'
  BY AttemptsType
<1> QED BY <1>1, <1>2, <1>3

LEMMA PairUpdates ==
  ASSUME TypeOK, NEW i \in 0 .. MaxPairs
  PROVE  /\ CloseConns(pair, i) \in [Pairs -> {"none", "open", "cut", "closed"}]
         /\ ClosePair(pair, i) \in [Pairs -> {"none", "open", "cut", "closed"}]
         /\ \A j \in Pairs : CloseConns(pair, i)[j] = (IF j = i /\ pair[j] = "open" THEN "cut" ELSE pair[j])
         /\ \A j \in Pairs : ClosePair(pair, i)[j] = (IF j = i THEN "closed" ELSE pair[j])
  BY PairsAreNumbers DEF CloseConns, ClosePair, TypeOK

LEMMA Actions ==
  ASSUME [Next]_vars
  PROVE  \/ CutConns \/ Detach \/ CloseOld \/ Dispatch
         \/ AttemptStops \/ Attempt \/ HandshakeSucceeds \/ HandshakeFails
         \/ Install \/ SwapReady \/ FireReady \/ StartControlLoop
         \/ FallbackWakes \/ FallbackLocks \/ FallbackClears
         \/ ShutdownTakes \/ ShutdownCloses \/ CloseSocksConns \/ WaitGoroutines
         \/ \E i \in Pairs : ControlDies(i) \/ ControlStops(i) \/ ControlReports(i)
         \/ DataSessionDies \/ ProviderCalls \/ ProviderReports \/ Cancel
         \/ \E h \in Handlers : Socks(h)
         \/ UNCHANGED vars
  BY DEF Next, Rebuild, Fallback, ControlLoop, Shutdown

-----------------------------------------------------------------------------
(***************************************************************************)
(* Type correctness.                                                       *)
(***************************************************************************)

MuType == mu = Free \/ mu \in [by : Callers, pc : Steps, attempt : 0 .. MaxAttempts, old : 0 .. made, oldStop : 0 .. made]
PairType == pair \in [Pairs -> {"none", "open", "cut", "closed"}]

LEMMA TypeInit == Init => TypeOK
<1> SUFFICES ASSUME Init PROVE TypeOK
  OBVIOUS
<1>1. mu = [by |-> "main", pc |-> "attempt", attempt |-> 1, old |-> None, oldStop |-> None]
  BY DEF Init, Taking, Free
<1>2. made \in 0 .. MaxPairs /\ None \in 0 .. made /\ faults \in 0 .. MaxFaults
  BY PairsAreNumbers, ClientAssumption DEF Init
<1>3. MuType
  BY <1>1, <1>2, AttemptsType DEF MuType, Callers, Steps
<1>4. taken \in [pair : 0 .. made, conn : 0 .. made, stop : 0 .. made]
      /\ view \in [Handlers -> [session : 0 .. made, gen : Nat]]
  BY <1>2 DEF Init
<1>5. PairType /\ loop \in [Pairs -> {"none", "run", "report", "off"}] /\ socks \in [Handlers -> SocksPhases]
  BY DEF Init, PairType, SocksPhases
<1>6. {session, sessionID, conn, controlStop} \subseteq 0 .. made /\ stopped \subseteq 1 .. made
  BY <1>2 DEF Init
<1>7. ready \in Nat /\ fired \in Nat /\ fired <= ready
  BY DEF Init
<1>8. /\ provider \in {"idle", "called"} /\ requested \in BOOLEAN
      /\ fallback \in {"off", "timer", "lock", "try", "clear"}
      /\ main \in {"bringup", "failed", "serve", "close", "socks", "wait", "done"}
      /\ ctxDone \in BOOLEAN
      /\ open \subseteq Handlers /\ socksConns \subseteq Handlers /\ socksClosed \in BOOLEAN
  BY DEF Init
<1> QED BY <1>2, <1>3, <1>4, <1>5, <1>6, <1>7, <1>8 DEF TypeOK, MuType, PairType

LEMMA MuStays == ASSUME TypeOK, UNCHANGED <<made, mu>> PROVE MuType'
  BY SameAttempts DEF TypeOK, MuType

LEMMA MuUnlocked == ASSUME TypeOK, Unlock
                    PROVE  /\ MuType' /\ mu' = Free
                           /\ fallback' \in {"off", "timer", "lock", "try", "clear"}
  BY DEF TypeOK, Unlock, MuType

\* The steps of the holder of reconnectMu.
LEMMA RebuildType ==
  ASSUME TypeOK, PairInv, ReadyInv, Rebuild
  PROVE  TypeOK'
<1>0. /\ made \in Nat /\ {session, sessionID, conn, controlStop} \subseteq 0 .. made
      /\ {session, sessionID, conn, controlStop, made} \subseteq 0 .. MaxPairs
      /\ {mu.old, mu.oldStop} \subseteq 0 .. made /\ {mu.old, mu.oldStop} \subseteq 0 .. MaxPairs
  BY MuShape, PairsAreNumbers, SMTT(20) DEF TypeOK
<1>1. CASE CutConns
  <2>1. mu.pc # "free" /\ "detach" \in Steps /\ mu' = [mu EXCEPT !.pc = "detach"] /\ made' = made
    BY <1>1 DEF CutConns, Steps
  <2>2. MuType'
    BY <1>0, <2>1, MuSteps DEF MuType
  <2>3. PairType'
    BY <1>0, <1>1, PairUpdates DEF CutConns, PairType
  <2> QED BY <1>1, <2>2, <2>3 DEF CutConns, TypeOK, MuType, PairType, linkVars, readyVars,
             loopVars, callVars, endVars, socksVars
<1>2. CASE Detach
  <2>1. /\ mu.pc # "free" /\ "close" \in Steps /\ made' = made
        /\ made' \in Nat /\ made <= made' /\ session \in 0 .. made /\ controlStop \in 0 .. made
        /\ mu' = [mu EXCEPT !.pc = "close", !.old = session, !.oldStop = controlStop]
    BY <1>0, <1>2 DEF Detach, Steps, pairVars
  <2>2. MuType'
    BY <2>1, MuGoesOn DEF MuType
  <2>3. {None} \subseteq 0 .. made
    BY <1>0, PairsAreNumbers
  <2> QED BY <1>2, <2>2, <2>3 DEF Detach, TypeOK, MuType, pairVars, readyVars,
             loopVars, callVars, endVars, socksVars
<1>3. CASE CloseOld
  <2>1. /\ mu.pc # "free" /\ "dispatch" \in Steps /\ made' = made /\ None \in 0 .. made
        /\ made' \in Nat /\ made <= made'
        /\ mu' = [mu EXCEPT !.pc = "dispatch", !.old = None, !.oldStop = None]
    BY <1>0, <1>3, PairsAreNumbers DEF CloseOld, Steps
  <2>2. MuType'
    BY <2>1, MuGoesOn DEF MuType
  <2>3. PairType'
    BY <1>0, <1>3, PairUpdates DEF CloseOld, PairType
  <2>4. stopped' \subseteq 1 .. made
    BY <1>0, <1>3, PairsAreNumbers DEF CloseOld, StopLoop, TypeOK
  <2> QED BY <1>3, <2>2, <2>3, <2>4 DEF CloseOld, TypeOK, MuType, PairType, linkVars, readyVars,
             callVars, endVars, socksVars
<1>4. CASE Dispatch
  <2>0. made' = made /\ UNCHANGED <<linkVars, pairVars, readyVars, loopVars, provider, endVars, socksVars, faults>>
    BY <1>4 DEF Dispatch, pairVars
  <2>1. CASE mu.by = "liveness"
    BY <1>4, <2>0, <2>1 DEF Dispatch, ScheduleFallback, TypeOK, linkVars, pairVars, readyVars,
       loopVars, endVars, socksVars
  <2>2. CASE mu.by # "liveness"
    <3>1. mu.pc = "dispatch" /\ mu' = [mu EXCEPT !.pc = "attempt", !.attempt = 1] /\ UNCHANGED <<requested, fallback>>
      BY <1>4, <2>2 DEF Dispatch
    <3>2. mu \in [by : Callers, pc : Steps, attempt : 0 .. MaxAttempts, old : 0 .. made, oldStop : 0 .. made]
      BY <3>1, MuShape
    <3>3. mu' = [by |-> mu.by, pc |-> "attempt", attempt |-> 1, old |-> mu.old, oldStop |-> mu.oldStop]
      BY <3>1, <3>2
    <3>4. 1 \in 0 .. MaxAttempts'
      BY AttemptsType
    <3>5. MuType'
      BY <2>0, <3>2, <3>3, <3>4 DEF MuType, Steps
    <3> QED BY <2>0, <3>1, <3>5 DEF TypeOK, MuType, linkVars, pairVars, readyVars, loopVars,
               endVars, socksVars
  <2> QED BY <2>1, <2>2
<1>5. CASE AttemptStops
  BY <1>5, MuUnlocked DEF AttemptStops, TypeOK, MuType, linkVars, pairVars, readyVars, loopVars,
     callVars, endVars, socksVars
<1>6. CASE Attempt
  <2>1. /\ mu.pc # "free" /\ "handshake" \in Steps /\ mu' = [mu EXCEPT !.pc = "handshake"]
        /\ made' = made + 1 /\ made' \in 0 .. MaxPairs /\ made' \in Pairs
    BY <1>0, <1>6, PairsAreNumbers DEF Attempt, Steps
  <2>2. MuType'
    BY <1>0, <2>1, MuSteps DEF MuType
  <2>3. PairType'
    BY <1>0, <1>6, <2>1, PairUpdates DEF Attempt, PairType
  <2>4. \A i \in 0 .. made : i \in 0 .. made'
    BY <1>0, <2>1
  <2>5. /\ {session, sessionID, conn, controlStop}' \subseteq 0 .. made'
        /\ stopped' \subseteq 1 .. made'
        /\ taken' \in [pair : 0 .. made', conn : 0 .. made', stop : 0 .. made']
    BY <1>0, <1>6, <2>1, <2>4 DEF Attempt, TypeOK, loopVars, endVars
  <2>6. view' \in [Handlers -> [session : 0 .. made', gen : Nat]]
    BY <1>6, <2>4 DEF Attempt, TypeOK, socksVars
  <2> QED BY <1>6, <2>1, <2>2, <2>3, <2>5, <2>6 DEF Attempt, TypeOK, MuType, PairType, readyVars,
             loopVars, callVars, endVars, socksVars
<1>7. CASE HandshakeSucceeds
  <2>1. mu.pc # "free" /\ "install" \in Steps /\ mu' = [mu EXCEPT !.pc = "install"] /\ made' = made
    BY <1>7 DEF HandshakeSucceeds, Steps, pairVars
  <2>2. MuType'
    BY <1>0, <2>1, MuSteps DEF MuType
  <2> QED BY <1>7, <2>2 DEF HandshakeSucceeds, TypeOK, MuType, linkVars, pairVars, readyVars,
             loopVars, callVars, endVars, socksVars
<1>8. CASE HandshakeFails
  <2>1. PairType'
    BY <1>0, <1>8, PairUpdates DEF HandshakeFails, PairType
  <2>2. faults' \in 0 .. MaxFaults
    BY <1>8, ClientAssumption DEF HandshakeFails, Fault, TypeOK
  <2>3. MuType' /\ fallback' \in {"off", "timer", "lock", "try", "clear"}
    <3>1. CASE MayRetry
      <4>1. mu.pc = "handshake" /\ mu' = [mu EXCEPT !.pc = "attempt", !.attempt = @ + 1] /\ UNCHANGED <<made, fallback>>
        BY <1>8, <3>1 DEF HandshakeFails
      <4>2. mu \in [by : Callers, pc : Steps, attempt : 0 .. MaxAttempts, old : 0 .. made, oldStop : 0 .. made]
        BY <4>1, MuShape
      <4>3. mu' = [by |-> mu.by, pc |-> "attempt", attempt |-> mu.attempt + 1, old |-> mu.old, oldStop |-> mu.oldStop]
        BY <4>1, <4>2
      <4>4. mu.attempt + 1 \in 0 .. MaxAttempts'
        BY <3>1, <4>2, <4>3, SameAttempts, AttemptsType DEF MayRetry
      <4>5. MuType'
        BY <4>1, <4>2, <4>3, <4>4 DEF MuType, Steps
      <4> QED BY <4>1, <4>5 DEF TypeOK
    <3>2. CASE ~MayRetry
      BY <1>8, <3>2, MuUnlocked DEF HandshakeFails
    <3> QED BY <3>1, <3>2
  <2>4. main' \in {"bringup", "failed", "serve", "close", "socks", "wait", "done"} /\ ctxDone' \in BOOLEAN
    BY <1>8 DEF HandshakeFails, TypeOK
  <2> QED BY <1>8, <2>1, <2>2, <2>3, <2>4 DEF HandshakeFails, TypeOK, MuType, PairType, linkVars,
             readyVars, loopVars, callVars, socksVars
<1>9. CASE Install
  <2>1. mu.pc # "free" /\ "swap" \in Steps /\ mu' = [mu EXCEPT !.pc = "swap"] /\ made' = made
    BY <1>9 DEF Install, Steps, pairVars
  <2>2. MuType'
    BY <1>0, <2>1, MuSteps DEF MuType
  <2>3. {session, sessionID, conn, controlStop}' \subseteq 0 .. made
    BY <1>0, <1>9 DEF Install
  <2> QED BY <1>9, <2>2, <2>3 DEF Install, TypeOK, MuType, pairVars, readyVars, loopVars, callVars,
             endVars, socksVars
<1>10. CASE SwapReady
  <2>1. mu.pc # "free" /\ "fire" \in Steps /\ mu' = [mu EXCEPT !.pc = "fire"] /\ made' = made
    BY <1>10 DEF SwapReady, Steps, pairVars
  <2>2. MuType'
    BY <1>0, <2>1, MuSteps DEF MuType
  <2>3. ready' \in Nat /\ fired' \in Nat /\ fired' <= ready'
    BY <1>10 DEF SwapReady, TypeOK
  <2> QED BY <1>10, <2>2, <2>3 DEF SwapReady, TypeOK, MuType, linkVars, pairVars, loopVars, callVars,
             endVars, socksVars
<1>11. CASE FireReady
  <2>1. mu.pc # "free" /\ "start" \in Steps /\ mu' = [mu EXCEPT !.pc = "start"] /\ made' = made
    BY <1>11 DEF FireReady, Steps, pairVars
  <2>2. MuType'
    BY <1>0, <2>1, MuSteps DEF MuType
  <2>3. ready' \in Nat /\ fired' \in Nat /\ fired' <= ready'
    BY <1>11 DEF FireReady, TypeOK, ReadyInv
  <2> QED BY <1>11, <2>2, <2>3 DEF FireReady, TypeOK, MuType, linkVars, pairVars, loopVars, callVars,
             endVars, socksVars
<1>12. CASE StartControlLoop
  <2>1. MuType' /\ fallback' \in {"off", "timer", "lock", "try", "clear"}
    BY <1>12, MuUnlocked DEF StartControlLoop
  <2>2. {session, sessionID, conn, controlStop}' \subseteq 0 .. made
    BY <1>0, <1>12 DEF StartControlLoop
  <2> QED BY <1>12, <2>1, <2>2 DEF StartControlLoop, TypeOK, MuType, pairVars, readyVars, callVars, socksVars
<1> QED BY <1>1, <1>2, <1>3, <1>4, <1>5, <1>6, <1>7, <1>8, <1>9, <1>10, <1>11, <1>12 DEF Rebuild

LEMMA SocksType ==
  ASSUME TypeOK, NEW h \in Handlers, Socks(h)
  PROVE  TypeOK'
<1>0. UNCHANGED restVars
  BY DEF Socks, Accept, RegisterSocksConn, Request, SessionSnapshot, Tunnel, WaitReady, WakeUp,
         HandlerEnds, UnregisterSocksConn
<1>1. MuType' /\ made \in Nat /\ None \in 0 .. made
  BY <1>0, MuStays, PairsAreNumbers DEF restVars, pairVars, TypeOK
<1>2. socks' \in [Handlers -> SocksPhases]
  BY DEF Socks, Accept, RegisterSocksConn, Request, SessionSnapshot, Tunnel, WaitReady, WakeUp,
         HandlerEnds, UnregisterSocksConn, SocksStep, SocksPhases, TypeOK
<1>3. view' \in [Handlers -> [session : 0 .. made, gen : Nat]]
  <2>1. CASE SessionSnapshot(h)
    BY <1>1, <2>1 DEF SessionSnapshot, TypeOK
  <2>2. CASE Tunnel(h) \/ WaitReady(h) \/ WakeUp(h) \/ HandlerEnds(h)
    <3>1. \E gen \in Nat : view' = [view EXCEPT ![h] = [session |-> None, gen |-> gen]]
      BY <2>2 DEF Tunnel, WaitReady, WakeUp, HandlerEnds, Forget, TypeOK
    <3> QED BY <1>1, <3>1 DEF TypeOK
  <2>3. CASE UNCHANGED view
    BY <2>3 DEF TypeOK
  <2> QED BY <2>1, <2>2, <2>3 DEF Socks, Accept, RegisterSocksConn, Request, UnregisterSocksConn
<1>4. open' \subseteq Handlers /\ socksConns' \subseteq Handlers /\ socksClosed' \in BOOLEAN
  BY DEF Socks, Accept, RegisterSocksConn, Request, SessionSnapshot, Tunnel, WaitReady, WakeUp,
         HandlerEnds, UnregisterSocksConn, TypeOK
<1> QED BY <1>0, <1>1, <1>2, <1>3, <1>4
        DEF TypeOK, MuType, restVars, linkVars, pairVars, readyVars, loopVars, callVars, endVars

LEMMA TypeStep == TypeOK /\ PairInv /\ ReadyInv /\ [Next]_vars => TypeOK'
<1> SUFFICES ASSUME TypeOK, PairInv, ReadyInv, [Next]_vars PROVE TypeOK'
  OBVIOUS
<1>0. /\ made \in Nat /\ None \in 0 .. made /\ {session, sessionID, conn, controlStop} \subseteq 0 .. made
      /\ {session, taken.pair, taken.conn} \subseteq 0 .. MaxPairs
  BY PairsAreNumbers DEF TypeOK
<1> USE DEF linkVars, pairVars, readyVars, loopVars, callVars, endVars, socksVars
<1>1. CASE Rebuild
  BY <1>1, RebuildType
<1>2. CASE FallbackWakes \/ FallbackClears
  <2>1. MuType' /\ fallback' \in {"off", "timer", "lock", "try", "clear"}
    BY <1>2, MuStays DEF FallbackWakes, FallbackClears
  <2> QED BY <1>2, <2>1 DEF FallbackWakes, FallbackClears, TypeOK, MuType
<1>3. CASE FallbackLocks
  <2>1. MuType' /\ fallback' \in {"off", "timer", "lock", "try", "clear"}
    <3>1. "fallback" \in Callers /\ "attempt" \in Steps /\ made' = made
      BY <1>3 DEF Callers, Steps, FallbackLocks
    <3> QED BY <1>3, <3>1, MuStays, MuTaken DEF FallbackLocks, MuType
  <2> QED BY <1>3, <2>1 DEF FallbackLocks, TypeOK, MuType
<1>4. CASE ShutdownTakes
  <2>1. MuType'
    BY <1>4, MuStays DEF ShutdownTakes
  <2>2. taken' \in [pair : 0 .. made, conn : 0 .. made, stop : 0 .. made]
        /\ {session, sessionID, conn, controlStop}' \subseteq 0 .. made
    BY <1>0, <1>4 DEF ShutdownTakes
  <2> QED BY <1>4, <2>1, <2>2 DEF ShutdownTakes, TypeOK, MuType
<1>5. CASE ShutdownCloses
  <2>1. MuType'
    BY <1>5, MuStays DEF ShutdownCloses
  <2>2. PairType'
    BY <1>0, <1>5, PairUpdates DEF ShutdownCloses, PairType
  <2>3. stopped' \subseteq 1 .. made
    <3>1. taken.stop \in 0 .. made /\ stopped \subseteq 1 .. made
      BY DEF TypeOK
    <3>2. stopped' = stopped \cup ({taken.stop} \ {None})
      BY <1>5 DEF ShutdownCloses, StopLoop
    <3>3. taken.stop # None => taken.stop \in 1 .. made
      BY <1>0, <3>1, PairsAreNumbers
    <3> QED BY <3>1, <3>2, <3>3
  <2> QED BY <1>5, <2>1, <2>2, <2>3 DEF ShutdownCloses, TypeOK, MuType, PairType
<1>6. CASE CloseSocksConns
  <2>1. MuType'
    BY <1>6, MuStays DEF CloseSocksConns
  <2> QED BY <1>6, <2>1 DEF CloseSocksConns, TypeOK, MuType
<1>7. CASE WaitGoroutines \/ Cancel
  <2>1. MuType'
    BY <1>7, MuStays DEF WaitGoroutines, Cancel
  <2> QED BY <1>7, <2>1, ZenonT(30) DEF WaitGoroutines, Cancel, TypeOK, MuType
<1>8. ASSUME NEW i \in Pairs, ControlDies(i) \/ ControlStops(i) PROVE TypeOK'
  <2>1. MuType' /\ loop' \in [Pairs -> {"none", "run", "report", "off"}]
    BY <1>8, MuStays DEF ControlDies, ControlStops, TypeOK
  <2>2. faults' \in 0 .. MaxFaults
    BY <1>8, ClientAssumption DEF ControlDies, ControlStops, Fault, TypeOK
  <2>3. UNCHANGED <<linkVars, pairVars, readyVars, mu, stopped, callVars, fallback, endVars, socksVars>>
    BY <1>8 DEF ControlDies, ControlStops
  <2> QED BY <2>1, <2>2, <2>3 DEF TypeOK, MuType
<1>9. ASSUME NEW i \in Pairs, ControlReports(i) PROVE TypeOK'
  <2>1. "liveness" \in Callers /\ "cut" \in Steps /\ made' = made /\ mu' = Taking("liveness", "cut")
    BY <1>9 DEF Callers, Steps, ControlReports
  <2>2. MuType'
    BY <2>1, MuTaken DEF MuType
  <2>3. loop' \in [Pairs -> {"none", "run", "report", "off"}]
    BY <1>9 DEF ControlReports, TypeOK
  <2> QED BY <1>9, <2>2, <2>3 DEF ControlReports, TypeOK, MuType
<1>10. CASE DataSessionDies
  <2>1. MuType' /\ PairType'
    BY <1>0, <1>10, MuStays, PairUpdates DEF DataSessionDies, PairType
  <2>2. faults' \in 0 .. MaxFaults
    BY <1>10, ClientAssumption DEF DataSessionDies, Fault, TypeOK
  <2> QED BY <1>10, <2>1, <2>2 DEF DataSessionDies, TypeOK, MuType, PairType
<1>11. CASE ProviderCalls
  <2>1. MuType' /\ requested' \in BOOLEAN
    BY <1>11, MuStays DEF ProviderCalls
  <2>2. faults' \in 0 .. MaxFaults
    BY <1>11, ClientAssumption DEF ProviderCalls, Fault, TypeOK
  <2> QED BY <1>11, <2>1, <2>2 DEF ProviderCalls, TypeOK, MuType
<1>12. CASE ProviderReports
  <2>1. "provider" \in Callers /\ "cut" \in Steps /\ made' = made /\ mu' = Taking("provider", "cut")
    BY <1>12 DEF Callers, Steps, ProviderReports
  <2>2. MuType'
    BY <2>1, MuTaken DEF MuType
  <2> QED BY <1>12, <2>2 DEF ProviderReports, TypeOK, MuType
<1>13. ASSUME NEW h \in Handlers, Socks(h) PROVE TypeOK'
  BY <1>13, SocksType
<1>14. CASE UNCHANGED vars
  <2>1. MuType'
    BY <1>14, MuStays DEF vars
  <2> QED BY <1>14, <2>1 DEF vars, TypeOK, MuType
<1> QED
  BY <1>1, <1>2, <1>3, <1>4, <1>5, <1>6, <1>7, <1>8, <1>9, <1>10, <1>11, <1>12, <1>13, <1>14
  DEF Next, Fallback, Shutdown, ControlLoop

-----------------------------------------------------------------------------
(***************************************************************************)
(* The link: rebuilders never overwrite each other's pair.                 *)
(***************************************************************************)

LinkInv == PairInv /\ NothingIsOrphaned /\ ConnInv

LEMMA MuFields ==
  ASSUME TypeOK, mu.pc # "free", NEW pc, mu' = [mu EXCEPT !.pc = pc]
  PROVE  mu'.pc = pc /\ mu'.by = mu.by /\ mu'.old = mu.old /\ mu'.oldStop = mu.oldStop
<1>1. mu \in [by : Callers, pc : Steps, attempt : 0 .. MaxAttempts, old : 0 .. made, oldStop : 0 .. made]
  BY MuShape
<1> QED BY <1>1

LEMMA FreeFields == Free.pc = "free" /\ Free.old = None /\ Free.oldStop = None
  BY DEF Free

LEMMA LinkNumbers ==
  ASSUME TypeOK
  PROVE  /\ made \in 0 .. MaxPairs /\ made \in Nat
         /\ session \in 0 .. made /\ sessionID \in 0 .. made /\ conn \in 0 .. made /\ controlStop \in 0 .. made
         /\ session \in 0 .. MaxPairs /\ conn \in 0 .. MaxPairs /\ mu.old \in 0 .. MaxPairs
         /\ session # None => session \in Pairs
         /\ conn # None => conn \in Pairs
<1>1. /\ made \in 0 .. MaxPairs /\ made \in Nat
      /\ {session, sessionID, conn, controlStop} \subseteq 0 .. made
      /\ mu.old \in 0 .. MaxPairs
  BY MuShape, PairsAreNumbers, SMTT(20) DEF TypeOK
<1>2. \A i \in 0 .. made : i \in 0 .. MaxPairs /\ (i # None => i \in Pairs)
  BY <1>1, PairsAreNumbers DEF None
<1> QED BY ONLY <1>1, <1>2, Zenon

LEMMA LinkRebuild ==
  ASSUME TypeOK, TypeOK', LinkInv, CutConns \/ Detach \/ CloseOld \/ Dispatch \/ AttemptStops
  PROVE  LinkInv'
<1> USE LinkNumbers, PairsAreNumbers, FreeFields DEF Building, Installing, Detached
<1>1. CASE CutConns
  <2>1. /\ mu.pc = "cut" /\ mu'.pc = "detach" /\ mu'.old = mu.old /\ mu'.oldStop = mu.oldStop
        /\ UNCHANGED <<made, session, sessionID, conn, controlStop, loop, stopped, main, ctxDone>>
    BY <1>1, MuFields DEF CutConns, linkVars, loopVars, endVars
  <2>2. \A j \in Pairs : pair'[j] = pair[j] \/ (pair[j] = "open" /\ pair'[j] = "cut")
    BY <1>1, PairUpdates DEF CutConns
  <2>3. PairInv'
    BY <2>1, <2>2 DEF LinkInv, PairInv
  <2>4. NothingIsOrphaned'
    BY <2>1, <2>2 DEF LinkInv, NothingIsOrphaned
  <2>5. ConnInv'
    BY <2>1, <2>2 DEF LinkInv, ConnInv
  <2> QED BY <2>3, <2>4, <2>5 DEF LinkInv
<1>2. CASE Detach
  <2>1. /\ mu.pc = "detach" /\ mu'.pc = "close" /\ mu'.old = session /\ mu'.oldStop = controlStop
        /\ session' = None /\ sessionID' = None /\ conn' = None /\ controlStop' = None
        /\ UNCHANGED <<made, pair, loop, stopped, main, ctxDone>>
    <3>1. mu \in [by : Callers, pc : Steps, attempt : 0 .. MaxAttempts, old : 0 .. made, oldStop : 0 .. made]
      BY <1>2, MuShape DEF Detach
    <3> QED BY <1>2, <3>1 DEF Detach, pairVars, loopVars, endVars
  <2>2. PairInv' /\ ConnInv'
    BY <2>1 DEF LinkInv, PairInv, ConnInv
  <2>3. NothingIsOrphaned'
    BY <2>1 DEF LinkInv, PairInv, NothingIsOrphaned
  <2> QED BY <2>2, <2>3 DEF LinkInv
<1>3. CASE CloseOld
  <2>1. /\ mu.pc = "close" /\ mu'.pc = "dispatch" /\ mu'.old = None /\ mu'.oldStop = None
        /\ stopped' = stopped \cup ({mu.oldStop} \ {None})
        /\ UNCHANGED <<made, session, sessionID, conn, controlStop, loop, main, ctxDone>>
    <3>1. mu \in [by : Callers, pc : Steps, attempt : 0 .. MaxAttempts, old : 0 .. made, oldStop : 0 .. made]
      BY <1>3, MuShape DEF CloseOld
    <3> QED BY <1>3, <3>1 DEF CloseOld, StopLoop, linkVars, endVars
  <2>2. \A j \in Pairs : pair'[j] = IF j = mu.old THEN "closed" ELSE pair[j]
    BY <1>3, PairUpdates DEF CloseOld
  <2>3. mu.old <= made
    BY MuShape
  <2>4. PairInv' /\ ConnInv'
    BY <2>1, <2>2, <2>3 DEF LinkInv, PairInv, ConnInv
  <2>5. NothingIsOrphaned'
    BY <2>1, <2>2 DEF LinkInv, NothingIsOrphaned
  <2> QED BY <2>4, <2>5 DEF LinkInv
<1>4. CASE Dispatch
  <2>1. /\ mu.pc = "dispatch" /\ mu'.pc \in {"free", "attempt"} /\ mu'.old = mu.old /\ mu'.oldStop = mu.oldStop
        /\ UNCHANGED <<made, pair, session, sessionID, conn, controlStop, loop, stopped, main, ctxDone>>
    <3>1. mu \in [by : Callers, pc : Steps, attempt : 0 .. MaxAttempts, old : 0 .. made, oldStop : 0 .. made]
      BY <1>4, MuShape DEF Dispatch
    <3>2. mu.old = None /\ mu.oldStop = None
      BY <1>4 DEF Dispatch, LinkInv, PairInv
    <3> QED BY <1>4, <3>1, <3>2 DEF Dispatch, linkVars, pairVars, loopVars, endVars
  <2>2. PairInv' /\ ConnInv'
    BY <2>1 DEF LinkInv, PairInv, ConnInv
  <2>3. NothingIsOrphaned'
    BY <2>1 DEF LinkInv, NothingIsOrphaned
  <2> QED BY <2>2, <2>3 DEF LinkInv
<1>5. CASE AttemptStops
  <2>1. /\ mu.pc = "attempt" /\ mu'.pc = "free" /\ mu'.old = None /\ mu'.oldStop = None /\ ctxDone
        /\ UNCHANGED <<made, pair, session, sessionID, conn, controlStop, loop, stopped, main, ctxDone>>
    BY <1>5 DEF AttemptStops, Unlock, linkVars, pairVars, loopVars, endVars
  <2>2. PairInv' /\ ConnInv' /\ NothingIsOrphaned'
    BY <2>1 DEF LinkInv, PairInv, ConnInv, NothingIsOrphaned
  <2> QED BY <2>2 DEF LinkInv
<1> QED BY <1>1, <1>2, <1>3, <1>4, <1>5

LEMMA LinkAttempt ==
  ASSUME TypeOK, TypeOK', LinkInv,
         \/ Attempt \/ HandshakeSucceeds \/ HandshakeFails \/ Install \/ SwapReady \/ FireReady
         \/ StartControlLoop
  PROVE  LinkInv'
<1> USE LinkNumbers, PairsAreNumbers, FreeFields DEF Building, Installing, Detached
<1>1. CASE Attempt
  <2>1. /\ mu.pc = "attempt" /\ mu'.pc = "handshake" /\ mu'.old = mu.old /\ mu'.oldStop = mu.oldStop
        /\ made' = made + 1 /\ conn' = made + 1 /\ made < MaxPairs
        /\ UNCHANGED <<session, sessionID, controlStop, loop, stopped, main, ctxDone>>
    BY <1>1, MuFields DEF Attempt, loopVars, endVars
  <2>2. made + 1 \in Pairs
    BY <2>1
  <2>3. \A j \in Pairs : /\ j = made + 1 => pair'[j] = "open"
                         /\ j # made + 1 => pair'[j] = pair[j] \/ (j = conn /\ pair[j] = "open" /\ pair'[j] = "cut")
    BY <1>1, <2>2, PairUpdates DEF Attempt
  <2>4. PairInv'
    BY <2>1, <2>2, <2>3 DEF LinkInv, PairInv
  <2>5. NothingIsOrphaned'
    BY <2>1, <2>2, <2>3 DEF LinkInv, NothingIsOrphaned, PairInv
  <2>6. ConnInv'
    BY <2>1 DEF ConnInv
  <2> QED BY <2>4, <2>5, <2>6 DEF LinkInv
<1>2. CASE HandshakeSucceeds
  <2>1. /\ mu.pc = "handshake" /\ mu'.pc = "install" /\ mu'.old = mu.old /\ mu'.oldStop = mu.oldStop
        /\ UNCHANGED <<made, pair, session, sessionID, conn, controlStop, loop, stopped, main, ctxDone>>
    BY <1>2, MuFields DEF HandshakeSucceeds, linkVars, pairVars, loopVars, endVars
  <2>2. PairInv' /\ ConnInv'
    BY <2>1 DEF LinkInv, PairInv, ConnInv
  <2>3. NothingIsOrphaned'
    BY <2>1 DEF LinkInv, NothingIsOrphaned
  <2> QED BY <2>2, <2>3 DEF LinkInv
<1>3. CASE HandshakeFails
  <2>1. /\ mu.pc = "handshake" /\ mu'.pc \in {"free", "attempt"} /\ mu'.old = None /\ mu'.oldStop = None
        /\ UNCHANGED <<made, session, sessionID, conn, controlStop, loop, stopped>>
    <3>1. mu \in [by : Callers, pc : Steps, attempt : 0 .. MaxAttempts, old : 0 .. made, oldStop : 0 .. made]
      BY <1>3, MuShape DEF HandshakeFails
    <3>2. mu.old = None /\ mu.oldStop = None
      BY <1>3 DEF HandshakeFails, LinkInv, PairInv
    <3> QED BY <1>3, <3>1, <3>2 DEF HandshakeFails, Unlock, linkVars, loopVars
  <2>2. /\ ctxDone => ctxDone'
        /\ main' \notin {"bringup", "serve"} => ctxDone'
    BY <1>3 DEF HandshakeFails, LinkInv, PairInv
  <2>3. \A j \in Pairs : pair'[j] = IF j = made THEN "closed" ELSE pair[j]
    BY <1>3, PairUpdates DEF HandshakeFails
  <2>4. PairInv' /\ ConnInv'
    BY <2>1, <2>2, <2>3 DEF LinkInv, PairInv, ConnInv
  <2>5. NothingIsOrphaned'
    BY <2>1, <2>2, <2>3 DEF LinkInv, NothingIsOrphaned, PairInv
  <2> QED BY <2>4, <2>5 DEF LinkInv
<1>4. CASE Install
  <2>1. /\ mu.pc = "install" /\ mu'.pc = "swap" /\ mu'.old = mu.old /\ mu'.oldStop = mu.oldStop
        /\ session' = made /\ sessionID' = made /\ conn' = made
        /\ UNCHANGED <<made, pair, controlStop, loop, stopped, main, ctxDone>>
    BY <1>4, MuFields DEF Install, pairVars, loopVars, endVars
  <2>2. PairInv' /\ ConnInv'
    BY <2>1 DEF LinkInv, PairInv, ConnInv
  <2>3. NothingIsOrphaned'
    BY <2>1 DEF LinkInv, NothingIsOrphaned, PairInv
  <2> QED BY <2>2, <2>3 DEF LinkInv
<1>5. CASE SwapReady \/ FireReady
  <2>1. /\ mu.pc \in {"swap", "fire"} /\ mu'.pc \in {"fire", "start"} /\ mu'.old = mu.old /\ mu'.oldStop = mu.oldStop
        /\ UNCHANGED <<made, pair, session, sessionID, conn, controlStop, loop, stopped, main, ctxDone>>
    BY <1>5, MuFields DEF SwapReady, FireReady, linkVars, pairVars, loopVars, endVars
  <2>2. PairInv' /\ ConnInv'
    BY <2>1 DEF LinkInv, PairInv, ConnInv
  <2>3. NothingIsOrphaned'
    BY <2>1 DEF LinkInv, NothingIsOrphaned
  <2> QED BY <2>2, <2>3 DEF LinkInv
<1>6. CASE StartControlLoop
  <2>1. /\ mu.pc = "start" /\ mu'.pc = "free" /\ mu'.old = None /\ mu'.oldStop = None
        /\ controlStop' = made /\ loop' = [loop EXCEPT ![made] = "run"]
        /\ UNCHANGED <<made, pair, session, sessionID, conn, stopped, ctxDone>>
        /\ main' \in {main, "serve"}
    BY <1>6 DEF StartControlLoop, Unlock, pairVars
  <2>2. \A j \in Pairs : loop'[j] = IF j = made THEN "run" ELSE loop[j]
    BY <2>1 DEF TypeOK
  <2>3. PairInv' /\ ConnInv'
    BY <2>1, <2>2 DEF LinkInv, PairInv, ConnInv
  <2>4. NothingIsOrphaned'
    BY <2>1, <2>2 DEF LinkInv, NothingIsOrphaned, PairInv
  <2> QED BY <2>3, <2>4 DEF LinkInv
<1> QED BY <1>1, <1>2, <1>3, <1>4, <1>5, <1>6

LEMMA LinkOthers ==
  ASSUME TypeOK, TypeOK', LinkInv, [Next]_vars, ~Rebuild
  PROVE  LinkInv'
<1> USE LinkNumbers, PairsAreNumbers, FreeFields DEF Building, Installing, Detached
<1>1. CASE UNCHANGED <<made, pair, session, sessionID, conn, controlStop, loop, stopped, main, ctxDone, mu>>
  BY <1>1 DEF LinkInv, PairInv, ConnInv, NothingIsOrphaned
<1>2. CASE FallbackLocks
  <2>1. /\ mu.pc = "free" /\ UNCHANGED <<made, pair, session, sessionID, conn, controlStop, loop, stopped, main, ctxDone>>
    BY <1>2 DEF FallbackLocks, linkVars, pairVars, loopVars, endVars
  <2>2. CASE ~ctxDone /\ ~Established
    <3>1. mu'.pc = "attempt" /\ mu'.old = None /\ mu'.oldStop = None
      BY <1>2, <2>2 DEF FallbackLocks, Taking, Free
    <3>2. session = None \/ pair[session] = "closed"
      BY <2>2 DEF Established, LinkInv, PairInv
    <3>3. PairInv' /\ ConnInv'
      BY <2>1, <3>1, <3>2 DEF LinkInv, PairInv, ConnInv
    <3>4. NothingIsOrphaned'
      BY <2>1, <3>1 DEF LinkInv, NothingIsOrphaned, PairInv
    <3> QED BY <3>3, <3>4 DEF LinkInv
  <2>3. CASE ctxDone \/ Established
    BY <1>1, <1>2, <2>1, <2>3 DEF FallbackLocks
  <2> QED BY <2>2, <2>3
<1>3. CASE ShutdownTakes
  <2>1. /\ ctxDone /\ main' = "close" /\ session' = None /\ conn' = None /\ controlStop' = None
        /\ UNCHANGED <<made, pair, sessionID, loop, stopped, mu, ctxDone>>
    BY <1>3 DEF ShutdownTakes, LinkInv, PairInv, pairVars, loopVars
  <2> QED BY <2>1 DEF LinkInv, PairInv, ConnInv, NothingIsOrphaned
<1>4. CASE ShutdownCloses
  <2>1. /\ ctxDone /\ main' = "socks"
        /\ UNCHANGED <<made, session, sessionID, conn, controlStop, loop, mu, ctxDone>>
    BY <1>4 DEF ShutdownCloses, LinkInv, PairInv, linkVars
  <2>2. taken.pair \in 0 .. made /\ taken.conn \in 0 .. made
    BY DEF TypeOK
  <2>3. \A j \in Pairs : /\ pair'[j] \in {pair[j], "closed"} \/ (pair[j] = "open" /\ pair'[j] = "cut")
                         /\ j > made => pair'[j] = pair[j]
    <3>1. taken.pair \in 0 .. MaxPairs /\ taken.conn \in 0 .. MaxPairs
      BY <2>2
    <3> QED BY <1>4, <2>2, <3>1, PairUpdates DEF ShutdownCloses
  <2>4. PairInv' /\ ConnInv' /\ NothingIsOrphaned'
    BY <2>1, <2>3 DEF LinkInv, PairInv, ConnInv, NothingIsOrphaned
  <2> QED BY <2>4 DEF LinkInv
<1>5. CASE CloseSocksConns \/ WaitGoroutines \/ Cancel
  <2>1. /\ ctxDone' /\ UNCHANGED <<made, pair, session, sessionID, conn, controlStop, loop, stopped, mu>>
    BY <1>5 DEF CloseSocksConns, WaitGoroutines, Cancel, LinkInv, PairInv, linkVars, pairVars, loopVars
  <2> QED BY <2>1 DEF LinkInv, PairInv, ConnInv, NothingIsOrphaned
<1>6. ASSUME NEW i \in Pairs, ControlDies(i) \/ ControlStops(i) PROVE LinkInv'
  <2>1. /\ loop[i] = "run" /\ \A j \in Pairs \ {i} : loop'[j] = loop[j]
        /\ loop'[i] # "run"
        /\ UNCHANGED <<made, pair, session, sessionID, conn, controlStop, stopped, main, ctxDone, mu>>
    BY <1>6, ZenonT(30) DEF ControlDies, ControlStops, TypeOK, linkVars, pairVars, endVars
  <2>2. PairInv' /\ ConnInv'
    BY <2>1 DEF LinkInv, PairInv, ConnInv
  <2>3. NothingIsOrphaned'
    BY <2>1 DEF LinkInv, NothingIsOrphaned
  <2> QED BY <2>2, <2>3 DEF LinkInv
<1>7. ASSUME NEW i \in Pairs, ControlReports(i) PROVE LinkInv'
  <2>1. /\ loop[i] = "report" /\ \A j \in Pairs \ {i} : loop'[j] = loop[j]
        /\ loop'[i] # "run" /\ mu = Free /\ mu'.pc = "cut" /\ mu'.old = None /\ mu'.oldStop = None
        /\ UNCHANGED <<made, pair, session, sessionID, conn, controlStop, stopped, main, ctxDone>>
    BY <1>7 DEF ControlReports, Taking, Free, TypeOK, linkVars, pairVars, endVars
  <2>2. PairInv' /\ ConnInv'
    BY <2>1 DEF LinkInv, PairInv, ConnInv
  <2>3. NothingIsOrphaned'
    BY <2>1 DEF LinkInv, NothingIsOrphaned
  <2> QED BY <2>2, <2>3 DEF LinkInv
<1>8. CASE DataSessionDies
  <2>1. /\ session # None
        /\ UNCHANGED <<made, session, sessionID, conn, controlStop, loop, stopped, main, ctxDone, mu>>
    BY <1>8 DEF DataSessionDies, linkVars, loopVars, endVars
  <2>2. \A j \in Pairs : pair'[j] = IF j = session THEN "closed" ELSE pair[j]
    BY <1>8, PairUpdates DEF DataSessionDies
  <2>3. PairInv' /\ ConnInv'
    BY <2>1, <2>2 DEF LinkInv, PairInv, ConnInv
  <2>4. NothingIsOrphaned'
    BY <2>1, <2>2 DEF LinkInv, NothingIsOrphaned
  <2> QED BY <2>3, <2>4 DEF LinkInv
<1>9. CASE ProviderReports
  <2>1. /\ mu = Free /\ mu'.pc = "cut" /\ mu'.old = None /\ mu'.oldStop = None
        /\ UNCHANGED <<made, pair, session, sessionID, conn, controlStop, loop, stopped, main, ctxDone>>
    BY <1>9 DEF ProviderReports, Taking, Free, linkVars, pairVars, loopVars, endVars
  <2>2. PairInv' /\ ConnInv'
    BY <2>1 DEF LinkInv, PairInv, ConnInv
  <2>3. NothingIsOrphaned'
    BY <2>1 DEF LinkInv, NothingIsOrphaned
  <2> QED BY <2>2, <2>3 DEF LinkInv
<1>10. CASE FallbackWakes \/ FallbackClears \/ ProviderCalls \/ UNCHANGED vars
  BY <1>1, <1>10 DEF FallbackWakes, FallbackClears, ProviderCalls, vars, linkVars, pairVars, loopVars, endVars
<1>11. ASSUME NEW h \in Handlers, Socks(h) PROVE LinkInv'
  <2>1. UNCHANGED restVars
    BY <1>11 DEF Socks, Accept, RegisterSocksConn, Request, SessionSnapshot, Tunnel, WaitReady, WakeUp,
           HandlerEnds, UnregisterSocksConn
  <2> QED BY <1>1, <2>1 DEF restVars, linkVars, pairVars, loopVars, endVars
<1> QED
  BY <1>2, <1>3, <1>4, <1>5, <1>6, <1>7, <1>8, <1>9, <1>10, <1>11
  DEF Next, Fallback, Shutdown, ControlLoop

LEMMA LinkStep == TypeOK /\ TypeOK' /\ LinkInv /\ [Next]_vars => LinkInv'
  BY LinkRebuild, LinkAttempt, LinkOthers DEF Rebuild

-----------------------------------------------------------------------------
(***************************************************************************)
(* The signal: a handler that waits on the last channel has no session to  *)
(* wait for.                                                               *)
(***************************************************************************)

\* A step that neither installs a session nor touches the channels and the handlers.
LEMMA ReadyKept ==
  ASSUME TypeOK, ReadyInv, UNCHANGED <<ready, fired, socks, view>>,
         (mu.pc \notin {"swap", "fire"} /\ mu'.pc \notin {"swap", "fire"}) \/ mu'.pc = mu.pc,
         Established' => Established /\ session' = session
  PROVE  ReadyInv'
  BY DEF ReadyInv

\* Established is lost for good unless a session is installed.
LEMMA EstablishedKept ==
  ASSUME TypeOK, \/ UNCHANGED <<session, sessionID>>
                 \/ session' = None,
         \A j \in Pairs : pair[j] = "closed" => pair'[j] = "closed"
  PROVE  Established' => Established /\ session' = session
  BY LinkNumbers DEF Established

LEMMA ReadyRebuild ==
  ASSUME TypeOK, TypeOK', PairInv, ReadyInv, Rebuild
  PROVE  ReadyInv'
<1> USE FreeFields
<1>1. CASE CutConns
  <2>1. \A j \in Pairs : pair[j] = "closed" => pair'[j] = "closed"
    BY <1>1, PairUpdates, LinkNumbers DEF CutConns
  <2>2. /\ mu.pc = "cut" /\ mu'.pc = "detach" /\ UNCHANGED <<ready, fired, socks, view, session, sessionID>>
    BY <1>1, MuFields DEF CutConns, linkVars, readyVars, socksVars
  <2> QED BY <2>1, <2>2, EstablishedKept, ReadyKept
<1>2. CASE Detach
  <2>1. /\ mu.pc = "detach" /\ mu'.pc = "close" /\ session' = None /\ UNCHANGED <<ready, fired, socks, view, pair>>
    <3>1. mu \in [by : Callers, pc : Steps, attempt : 0 .. MaxAttempts, old : 0 .. made, oldStop : 0 .. made]
      BY <1>2, MuShape DEF Detach
    <3> QED BY <1>2, <3>1 DEF Detach, pairVars, readyVars, socksVars
  <2> QED BY <2>1, EstablishedKept, ReadyKept
<1>3. CASE CloseOld
  <2>1. \A j \in Pairs : pair[j] = "closed" => pair'[j] = "closed"
    BY <1>3, PairUpdates, LinkNumbers DEF CloseOld
  <2>2. /\ mu.pc = "close" /\ mu'.pc = "dispatch" /\ UNCHANGED <<ready, fired, socks, view, session, sessionID>>
    <3>1. mu \in [by : Callers, pc : Steps, attempt : 0 .. MaxAttempts, old : 0 .. made, oldStop : 0 .. made]
      BY <1>3, MuShape DEF CloseOld
    <3> QED BY <1>3, <3>1 DEF CloseOld, linkVars, readyVars, socksVars
  <2> QED BY <2>1, <2>2, EstablishedKept, ReadyKept
<1>4. CASE Dispatch
  <2>1. /\ mu.pc = "dispatch" /\ mu'.pc \in {"free", "attempt"}
        /\ UNCHANGED <<ready, fired, socks, view, session, sessionID, pair>>
    <3>1. mu \in [by : Callers, pc : Steps, attempt : 0 .. MaxAttempts, old : 0 .. made, oldStop : 0 .. made]
      BY <1>4, MuShape DEF Dispatch
    <3> QED BY <1>4, <3>1 DEF Dispatch, linkVars, pairVars, readyVars, socksVars
  <2> QED BY <2>1, EstablishedKept, ReadyKept
<1>5. CASE AttemptStops
  <2>1. /\ mu.pc = "attempt" /\ mu'.pc = "free" /\ UNCHANGED <<ready, fired, socks, view, session, sessionID, pair>>
    BY <1>5 DEF AttemptStops, Unlock, linkVars, pairVars, readyVars, socksVars
  <2> QED BY <2>1, EstablishedKept, ReadyKept
<1>6. CASE Attempt
  <2>1. /\ mu.pc = "attempt" /\ mu'.pc = "handshake" /\ UNCHANGED <<ready, fired, socks, view, session, sessionID>>
    BY <1>6, MuFields DEF Attempt, readyVars, socksVars
  <2>2. made + 1 \in Pairs /\ pair[made + 1] = "none"
    BY <1>6, LinkNumbers, PairsAreNumbers DEF Attempt, PairInv
  <2>3. \A j \in Pairs : pair[j] = "closed" => pair'[j] = "closed"
    BY <1>6, <2>2, PairUpdates, LinkNumbers DEF Attempt
  <2> QED BY <2>1, <2>3, EstablishedKept, ReadyKept
<1>7. CASE HandshakeSucceeds
  <2>1. /\ mu.pc = "handshake" /\ mu'.pc = "install" /\ UNCHANGED <<ready, fired, socks, view, session, sessionID, pair>>
    BY <1>7, MuFields DEF HandshakeSucceeds, linkVars, pairVars, readyVars, socksVars
  <2> QED BY <2>1, EstablishedKept, ReadyKept
<1>8. CASE HandshakeFails
  <2>1. \A j \in Pairs : pair[j] = "closed" => pair'[j] = "closed"
    BY <1>8, PairUpdates, LinkNumbers DEF HandshakeFails
  <2>2. /\ mu.pc = "handshake" /\ mu'.pc \in {"free", "attempt"}
        /\ UNCHANGED <<ready, fired, socks, view, session, sessionID>>
    <3>1. mu \in [by : Callers, pc : Steps, attempt : 0 .. MaxAttempts, old : 0 .. made, oldStop : 0 .. made]
      BY <1>8, MuShape DEF HandshakeFails
    <3> QED BY <1>8, <3>1 DEF HandshakeFails, Unlock, linkVars, readyVars, socksVars
  <2> QED BY <2>1, <2>2, EstablishedKept, ReadyKept
<1>9. CASE Install
  <2>1. mu.pc = "install" /\ mu'.pc = "swap" /\ UNCHANGED <<ready, fired, view>>
    BY <1>9, MuFields DEF Install, readyVars, socksVars
  <2> QED BY <2>1 DEF ReadyInv
<1>10. CASE SwapReady
  <2>1. /\ mu.pc = "swap" /\ mu'.pc = "fire" /\ ready' = ready + 1 /\ UNCHANGED <<fired, view>>
    BY <1>10, MuFields DEF SwapReady, socksVars
  <2>2. \A h \in Handlers : view[h].gen \in Nat
    BY DEF TypeOK
  <2> QED BY <2>1, <2>2 DEF ReadyInv, TypeOK
<1>11. CASE FireReady
  <2>1. /\ mu.pc = "fire" /\ mu'.pc = "start" /\ fired' = ready - 1
        /\ UNCHANGED <<ready, view, socks, session, sessionID, pair>>
    BY <1>11, MuFields DEF FireReady, linkVars, pairVars, socksVars
  <2> QED BY <2>1 DEF ReadyInv, TypeOK, Established
<1>12. CASE StartControlLoop
  <2>1. /\ mu.pc = "start" /\ mu'.pc = "free" /\ UNCHANGED <<ready, fired, socks, view, session, sessionID, pair>>
    BY <1>12 DEF StartControlLoop, Unlock, pairVars, readyVars, socksVars
  <2> QED BY <2>1, EstablishedKept, ReadyKept
<1> QED BY <1>1, <1>2, <1>3, <1>4, <1>5, <1>6, <1>7, <1>8, <1>9, <1>10, <1>11, <1>12 DEF Rebuild

LEMMA ReadySocks ==
  ASSUME TypeOK, TypeOK', ReadyInv, NEW h \in Handlers, Socks(h)
  PROVE  ReadyInv'
<1>0. UNCHANGED <<ready, fired, mu, session, sessionID, pair>>
  BY DEF Socks, Accept, RegisterSocksConn, Request, SessionSnapshot, Tunnel, WaitReady, WakeUp,
         HandlerEnds, UnregisterSocksConn, restVars, linkVars, pairVars, readyVars
<1>1. /\ \A g \in Handlers : view[g].gen \in Nat /\ view'[g].gen \in Nat
      /\ ready \in Nat /\ fired \in Nat
  BY DEF TypeOK
<1>2. \A g \in Handlers \ {h} : socks'[g] = socks[g] /\ view'[g] = view[g]
  BY DEF Socks, Accept, RegisterSocksConn, Request, SessionSnapshot, Tunnel, WaitReady, WakeUp,
         HandlerEnds, UnregisterSocksConn, SocksStep, Forget, TypeOK
<1>3. SUFFICES /\ view'[h].gen <= ready
               /\ (mu.pc # "swap" /\ Established /\ view'[h].gen = ready =>
                     /\ socks'[h] = "picked" => view'[h].session = session
                     /\ socks'[h] # "waiting")
  BY <1>0, <1>2 DEF ReadyInv, Established
<1>4. CASE SessionSnapshot(h)
  <2>1. socks'[h] = "picked" /\ view'[h] = [session |-> IF sessionID # None THEN session ELSE None, gen |-> ready]
    BY <1>4 DEF SessionSnapshot, SocksStep, TypeOK
  <2> QED BY <1>1, <2>1 DEF Established
<1>5. CASE WaitReady(h)
  <2>1. socks[h] = "picked" /\ view'[h].gen = view[h].gen /\ ~Usable(view[h].session)
    BY <1>5 DEF WaitReady, SocksStep, Forget, TypeOK
  <2> QED BY <2>1 DEF ReadyInv, Usable, Established
<1>6. CASE Tunnel(h) \/ WakeUp(h) \/ HandlerEnds(h)
  <2>1. view'[h].gen = 0 /\ socks'[h] \in {"tunnel", "asked", "ending"}
    BY <1>6 DEF Tunnel, WakeUp, HandlerEnds, SocksStep, Forget, TypeOK
  <2> QED BY <1>1, <2>1
<1>7. CASE Accept(h) \/ RegisterSocksConn(h) \/ Request(h) \/ UnregisterSocksConn(h)
  <2>1. view' = view /\ socks'[h] \in {"accepted", "asking", "idle", "asked"}
    BY <1>7 DEF Accept, RegisterSocksConn, Request, UnregisterSocksConn, SocksStep, TypeOK
  <2> QED BY <2>1 DEF ReadyInv
<1> QED BY <1>4, <1>5, <1>6, <1>7 DEF Socks

LEMMA ReadyStep == TypeOK /\ TypeOK' /\ PairInv /\ ReadyInv /\ [Next]_vars => ReadyInv'
<1> SUFFICES ASSUME TypeOK, TypeOK', PairInv, ReadyInv, [Next]_vars PROVE ReadyInv'
  OBVIOUS
<1>1. CASE /\ UNCHANGED <<ready, fired, socks, view, session, sessionID, pair>>
           /\ UNCHANGED mu \/ (mu.pc = "free" /\ mu'.pc \in {"cut", "attempt"})
  BY <1>1, EstablishedKept, ReadyKept
<1>2. CASE Rebuild
  BY <1>2, ReadyRebuild
<1>3. ASSUME NEW h \in Handlers, Socks(h) PROVE ReadyInv'
  BY <1>3, ReadySocks
<1>4. CASE FallbackLocks
  BY <1>1, <1>4, FreeFields DEF FallbackLocks, Taking, Free, linkVars, pairVars, readyVars, socksVars
<1>5. CASE ShutdownTakes
  <2>1. session' = None /\ UNCHANGED <<ready, fired, socks, view, pair, mu>>
    BY <1>5 DEF ShutdownTakes, pairVars, readyVars, socksVars
  <2> QED BY <2>1, EstablishedKept, ReadyKept
<1>6. CASE ShutdownCloses
  <2>1. UNCHANGED <<ready, fired, socks, view, session, sessionID, mu>>
    BY <1>6 DEF ShutdownCloses, linkVars, readyVars, socksVars
  <2>2. taken.pair \in 0 .. MaxPairs /\ taken.conn \in 0 .. MaxPairs
    <3>1. taken.pair \in 0 .. made /\ taken.conn \in 0 .. made
      BY DEF TypeOK
    <3> QED BY <3>1, LinkNumbers, PairsAreNumbers
  <2>3. \A j \in Pairs : pair[j] = "closed" => pair'[j] = "closed"
    BY <1>6, <2>2, PairUpdates DEF ShutdownCloses
  <2> QED BY <2>1, <2>3, EstablishedKept, ReadyKept
<1>7. CASE DataSessionDies
  <2>1. UNCHANGED <<ready, fired, socks, view, session, sessionID, mu>>
    BY <1>7 DEF DataSessionDies, linkVars, readyVars, socksVars
  <2>2. \A j \in Pairs : pair[j] = "closed" => pair'[j] = "closed"
    BY <1>7, PairUpdates, LinkNumbers DEF DataSessionDies
  <2> QED BY <2>1, <2>2, EstablishedKept, ReadyKept
<1>8. ASSUME NEW i \in Pairs, ControlReports(i) PROVE ReadyInv'
  BY <1>1, <1>8, FreeFields DEF ControlReports, Taking, Free, linkVars, pairVars, readyVars, socksVars
<1>9. CASE ProviderReports
  BY <1>1, <1>9, FreeFields DEF ProviderReports, Taking, Free, linkVars, pairVars, readyVars, socksVars
<1>10. ASSUME NEW i \in Pairs, ControlDies(i) \/ ControlStops(i) PROVE ReadyInv'
  BY <1>1, <1>10 DEF ControlDies, ControlStops, linkVars, pairVars, readyVars, socksVars
<1>11. CASE FallbackWakes \/ FallbackClears \/ CloseSocksConns \/ WaitGoroutines \/ Cancel \/ ProviderCalls \/ UNCHANGED vars
  BY <1>1, <1>11 DEF FallbackWakes, FallbackClears, CloseSocksConns, WaitGoroutines, Cancel, ProviderCalls,
     vars, linkVars, pairVars, readyVars, socksVars
<1> QED
  BY <1>2, <1>3, <1>4, <1>5, <1>6, <1>7, <1>8, <1>9, <1>10, <1>11
  DEF Next, Fallback, Shutdown, ControlLoop

-----------------------------------------------------------------------------
(***************************************************************************)
(* The SOCKS front end.                                                    *)
(***************************************************************************)

LEMMA SocksStepInv == TypeOK /\ TypeOK' /\ SocksInv /\ [Next]_vars => SocksInv'
<1> SUFFICES ASSUME TypeOK, TypeOK', SocksInv, [Next]_vars PROVE SocksInv'
  OBVIOUS
<1>0. /\ IsFiniteSet(socksConns) /\ Cardinality(socksConns) \in Nat
  BY ClientAssumption, FS_Subset, FS_CardinalityType DEF TypeOK
<1>1. CASE UNCHANGED socksVars /\ (main' \in {"wait", "done"} => main \in {"wait", "done"})
  BY <1>1 DEF SocksInv, socksVars
<1>2. ASSUME NEW h \in Handlers, Accept(h) PROVE SocksInv'
  <2>1. /\ socks[h] = "idle" /\ socks' = [socks EXCEPT ![h] = "accepted"] /\ open' = open \cup {h}
        /\ UNCHANGED <<main, socksConns, socksClosed>>
    BY <1>2 DEF Accept, SocksStep, restVars, endVars
  <2> QED BY <2>1 DEF SocksInv, TypeOK
<1>3. ASSUME NEW h \in Handlers, RegisterSocksConn(h) PROVE SocksInv'
  <2>1. CASE MayRegister
    <3>1. /\ socks' = [socks EXCEPT ![h] = "asking"] /\ socksConns' = socksConns \cup {h}
          /\ UNCHANGED <<open, main, socksClosed>>
      BY <1>3, <2>1 DEF RegisterSocksConn, SocksStep, restVars, endVars
    <3>2. Cardinality(socksConns') <= MaxSocksConns
      <4>1. Cardinality(socksConns) < MaxSocksConns /\ MaxSocksConns \in Nat
        BY <2>1, ClientAssumption DEF MayRegister
      <4>2. Cardinality(socksConns \cup {h}) <= Cardinality(socksConns) + 1
        BY <1>0, FS_AddElement
      <4>3. Cardinality(socksConns \cup {h}) \in Nat
        BY <1>0, FS_AddElement, FS_CardinalityType
      <4> QED BY <1>0, <3>1, <4>1, <4>2, <4>3
    <3>3. ~socksClosed
      BY <2>1 DEF MayRegister
    <3>4. \A g \in open' : /\ socks'[g] \notin {"idle", "ending"}
                           /\ socks'[g] # "accepted" => g \in socksConns'
      BY <3>1 DEF SocksInv, TypeOK
    <3> QED BY <3>1, <3>2, <3>3, <3>4 DEF SocksInv
  <2>2. CASE ~MayRegister
    <3>1. /\ socks' = [socks EXCEPT ![h] = "idle"] /\ open' = open \ {h} /\ UNCHANGED <<socksConns, main, socksClosed>>
      BY <1>3, <2>2 DEF RegisterSocksConn, SocksStep, restVars, endVars
    <3> QED BY <3>1 DEF SocksInv, TypeOK
  <2> QED BY <2>1, <2>2
<1>4. ASSUME NEW h \in Handlers, Request(h) \/ SessionSnapshot(h) \/ Tunnel(h) \/ WaitReady(h) \/ WakeUp(h)
      PROVE  SocksInv'
  <2>1. /\ socks[h] \notin {"idle", "ending", "accepted"}
        /\ \E to \in {"asked", "picked", "tunnel", "waiting"} : socks' = [socks EXCEPT ![h] = to]
        /\ UNCHANGED <<open, socksConns, main, socksClosed>>
    BY <1>4 DEF Request, SessionSnapshot, Tunnel, WaitReady, WakeUp, SocksStep, restVars, endVars
  <2> QED BY <2>1 DEF SocksInv, TypeOK
<1>5. ASSUME NEW h \in Handlers, HandlerEnds(h) PROVE SocksInv'
  <2>1. /\ socks' = [socks EXCEPT ![h] = "ending"] /\ open' = open \ {h} /\ UNCHANGED <<socksConns, main, socksClosed>>
    BY <1>5 DEF HandlerEnds, SocksStep, restVars, endVars
  <2> QED BY <2>1 DEF SocksInv, TypeOK
<1>6. ASSUME NEW h \in Handlers, UnregisterSocksConn(h) PROVE SocksInv'
  <2>1. /\ socks[h] = "ending" /\ socks' = [socks EXCEPT ![h] = "idle"] /\ socksConns' = socksConns \ {h}
        /\ UNCHANGED <<open, main, socksClosed>>
    BY <1>6 DEF UnregisterSocksConn, SocksStep, restVars, endVars
  <2>2. Cardinality(socksConns') <= MaxSocksConns
    <3>1. Cardinality(socksConns') <= Cardinality(socksConns) /\ IsFiniteSet(socksConns')
      BY <1>0, <2>1, FS_Subset
    <3>2. Cardinality(socksConns') \in Nat
      BY <3>1, FS_CardinalityType
    <3> QED BY <1>0, <3>1, <3>2, ClientAssumption DEF SocksInv
  <2>3. h \notin open
    BY <2>1 DEF SocksInv
  <2> QED BY <2>1, <2>2, <2>3 DEF SocksInv, TypeOK
<1>7. CASE CloseSocksConns
  <2>1. /\ open' = open \ socksConns /\ socksConns' = {} /\ socksClosed' /\ UNCHANGED socks
    BY <1>7 DEF CloseSocksConns
  <2>2. Cardinality(socksConns') = 0
    BY <2>1, FS_EmptySet
  <2> QED BY <2>1, <2>2, ClientAssumption DEF SocksInv
<1>8. CASE Rebuild
  <2>1. UNCHANGED socksVars /\ main' \in {main, "failed", "serve"}
    BY <1>8 DEF Rebuild, CutConns, Detach, CloseOld, Dispatch, AttemptStops, Attempt, HandshakeSucceeds,
       HandshakeFails, Install, SwapReady, FireReady, StartControlLoop, endVars
  <2> QED BY <1>1, <2>1
<1>9. CASE ShutdownTakes \/ ShutdownCloses \/ WaitGoroutines
  <2>1. UNCHANGED socksVars /\ (main' \in {"wait", "done"} => main \in {"wait", "done"})
    BY <1>9 DEF ShutdownTakes, ShutdownCloses, WaitGoroutines
  <2> QED BY <1>1, <2>1
<1>10. CASE \/ FallbackWakes \/ FallbackLocks \/ FallbackClears \/ Cancel \/ ProviderCalls \/ ProviderReports
            \/ DataSessionDies \/ UNCHANGED vars
  <2>1. UNCHANGED socksVars /\ main' = main
    BY <1>10 DEF FallbackWakes, FallbackLocks, FallbackClears, Cancel, ProviderCalls, ProviderReports,
       DataSessionDies, vars, endVars
  <2> QED BY <1>1, <2>1
<1>11. ASSUME NEW i \in Pairs, ControlLoop(i) PROVE SocksInv'
  <2>1. UNCHANGED socksVars /\ main' = main
    BY <1>11 DEF ControlLoop, ControlDies, ControlStops, ControlReports, endVars
  <2> QED BY <1>1, <2>1
<1> QED
  BY <1>2, <1>3, <1>4, <1>5, <1>6, <1>7, <1>8, <1>9, <1>10, <1>11
  DEF Next, Fallback, Shutdown, Socks

-----------------------------------------------------------------------------
(***************************************************************************)
(* The theorems.                                                           *)
(***************************************************************************)

LEMMA InvInit == Init => Inv
<1> SUFFICES ASSUME Init PROVE Inv
  OBVIOUS
<1>1. TypeOK
  BY TypeInit
<1>2. mu.pc = "attempt" /\ mu.old = None /\ mu.oldStop = None
  BY DEF Init, Taking, Free
<1>3. PairInv /\ NothingIsOrphaned /\ ConnInv
  BY <1>2 DEF Init, PairInv, NothingIsOrphaned, ConnInv, Building, Installing, Detached
<1>4. ReadyInv
  BY <1>2 DEF Init, ReadyInv, Established
<1>5. SocksInv
  BY FS_EmptySet, ClientAssumption DEF Init, SocksInv
<1> QED BY <1>1, <1>3, <1>4, <1>5 DEF Inv

LEMMA InvStep == Inv /\ [Next]_vars => Inv'
  BY TypeStep, LinkStep, ReadyStep, SocksStepInv DEF Inv, LinkInv

\* The strengthening is an invariant of every instance.
THEOREM ClientInvariance == Spec => []Inv
  BY InvInit, InvStep, PTL DEF Spec

\* However the provider, the control loop and the fallback race for reconnectMu, the Client's
\* fields and the goroutines agree on one session: no live pair is orphaned, and frames are
\* not pushed into conns nobody reads (link.go, handleReconnect and retryHandshake).
THEOREM LinkStaysWhole == Spec => []LinkIsWhole
<1>1. Inv => LinkIsWhole
  <2> SUFFICES ASSUME Inv PROVE LinkIsWhole
    OBVIOUS
  <2>1. NoReaderlessConn
    BY FreeFields DEF Inv, ConnInv, NoReaderlessConn, Building
  <2> QED BY <2>1 DEF Inv, LinkIsWhole
<1> QED BY <1>1, ClientInvariance, PTL

\* A SOCKS request never sleeps through signalSessionReady, which replaces the channel before
\* it closes the old one (link.go, signalSessionReady and sessionSnapshot).
THEOREM ReadyIsNeverMissed == Spec => []NoMissedReady
<1>1. Inv => NoMissedReady
  <2> SUFFICES ASSUME Inv, NEW h \in Handlers, socks[h] = "waiting", Established,
                      mu.pc \notin {"swap", "fire"}
               PROVE  view[h].gen <= fired
    BY DEF NoMissedReady
  <2>1. view[h].gen \in Nat /\ ready \in Nat /\ fired \in Nat
    BY DEF Inv, TypeOK
  <2>2. view[h].gen <= ready /\ view[h].gen # ready /\ ready = fired + 1
    BY DEF Inv, ReadyInv
  <2> QED BY <2>1, <2>2
<1> QED BY <1>1, ClientInvariance, PTL

\* At most maxSocksConns connections are served at a time, and none is left open once
\* shutdown has closed the registered ones (socks.go, registerSocksConn; client.go).
THEOREM SocksConnsStayBounded == Spec => []SocksConnsAreBounded
<1>1. Inv => SocksConnsAreBounded
  <2> SUFFICES ASSUME Inv PROVE SocksConnsAreBounded
    OBVIOUS
  <2> DEFINE served == {h \in open : socks[h] # "accepted"}
  <2>1. served \subseteq socksConns
    BY DEF Inv, SocksInv
  <2>2. IsFiniteSet(socksConns) /\ Cardinality(socksConns) \in Nat
    BY ClientAssumption, FS_Subset, FS_CardinalityType DEF Inv, TypeOK
  <2>3. Cardinality(served) <= Cardinality(socksConns) /\ Cardinality(served) \in Nat
    BY <2>1, <2>2, FS_Subset, FS_CardinalityType
  <2>4. Cardinality(served) <= MaxSocksConns
    BY <2>2, <2>3, ClientAssumption DEF Inv, SocksInv
  <2>5. main \in {"wait", "done"} => served = {}
    BY <2>1 DEF Inv, SocksInv
  <2> QED BY <2>4, <2>5 DEF SocksConnsAreBounded
<1> QED BY <1>1, ClientInvariance, PTL
=============================================================================
