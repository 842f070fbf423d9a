-------------------------- MODULE ServerSingleProofs --------------------------
(***************************************************************************)
(* Proofs about the server over a transport that cannot tell peers apart.  *)
(*                                                                         *)
(* Two counting arguments carry the proofs.  The session ID that onOpen    *)
(* announced is carried by one place at a time until onClose reports it;   *)
(* and every session a caller of reinstallSession may still cost is paid   *)
(* for in advance, by a failure or by a handshake.                         *)
(***************************************************************************)
EXTENDS ServerSingle, FiniteSetTheorems, TLAPS

\* Sessions are numbered in the order they are installed, whoever holds reinstallMu has
\* closed the pair that is current, and a pair that was taken out is not current again.
LinkInv ==
    /\ cur <= made /\ at <= made
    /\ mutex.phase = "closed" /\ cur # None => sess[cur] = "shut"
    /\ mutex.phase = "swapped" => mutex.old <= made /\ (mutex.old = None \/ mutex.old # cur)
    /\ \A c \in Closers : closers[c].phase = "taken" =>
            closers[c].pair <= made /\ (closers[c].pair = None \/ closers[c].pair # cur)

\* serveSingle runs a handshake only when the server has no session ID, and never twice
\* over one session.
ServeInv ==
    /\ serve \notin {"top", "returned"} => at # None
    /\ serve \in {"hs", "opened"} => sid = None
    /\ serve = "hs" => at \notin opened
    /\ serve \in {"opened", "startControl"} => at \in opened /\ ctl[at] = "none"
    /\ cur \in opened /\ sid = None => serve = "opened" /\ at = cur
    /\ \A g \in opened : g <= made
    /\ \A g \in Sessions \ opened : ctl[g] = "none"

\* The holder of reinstallMu is a caller that still waits for reinstallSession.
MutexInv ==
    mutex.phase # "free" =>
        /\ Waiting(mutex.by)
        /\ mutex.by = Serve => mutex.dead = at
        /\ \A g \in Sessions : mutex.by = ControlLoop(g) => mutex.dead = g

\* The end of Run.
EndInv ==
    /\ serve = "returned" => ctxDone
    /\ run # "serve" => serve = "returned" /\ sid = None
    /\ run = "serve" <=> closers["shutdown"].phase = "idle"
    /\ run = "closing" <=> closers["shutdown"].phase = "taken"
    /\ run = "returned" => provider = "idle" /\ \A g \in Sessions : ctl[g] \in {"none", "off"}

\* The places a session ID can be in between onOpen and onClose: serveSingle, the server,
\* and the local variables of reinstallSession and of the two closeSessions.
Places == {"serve", "server", "mutex"} \cup Closers
Carries(p) ==
    IF p = "serve" THEN (IF serve = "opened" THEN at ELSE None)
    ELSE IF p = "server" THEN sid
    ELSE IF p = "mutex" THEN (IF mutex.phase = "swapped" THEN mutex.oldSid ELSE None)
    ELSE IF closers[p].phase = "taken" THEN closers[p].sid ELSE None

ReportInv ==
    /\ CallbacksPair
    /\ \A p \in Places : Carries(p) # None => Carries(p) \in opened /\ closed[Carries(p)] = 0
    /\ \A p, q \in Places : Carries(p) = Carries(q) /\ Carries(p) # None => p = q
    /\ \A g \in opened : closed[g] = 1 \/ \E p \in Places : Carries(p) = g

\* What the sessions installed so far may still cost.  The current session will have to be
\* replaced when it is shut or a caller waits to close it; serveSingle, when the session it
\* waits on is no longer current, closes the one that is; so does a control loop that ends
\* after its session was replaced; and the provider may do both.
Holds(who) == mutex.phase # "free" /\ mutex.by = who
Doomed ==
    /\ cur # None
    /\ \/ sess[cur] = "shut"
       \/ serve = "reinstall" /\ at = cur
       \/ ctl[cur] = "reinstall"
ServeBehind == cur # None /\ serve \notin {"top", "returned"} /\ at # cur /\ ~Holds(Serve)
Unspent ==
    {g \in opened : /\ ctl[g] # "off"
                    /\ ~(Holds(ControlLoop(g)) /\ (mutex.phase = "swapped" \/ g # cur))}
ProviderDebt ==
    IF provider = "idle" \/ (Holds(Provider) /\ mutex.phase = "swapped") THEN 0
    ELSE IF Holds(Provider) /\ cur # None THEN 1 ELSE 2
Count(b) == IF b THEN 1 ELSE 0
Debt == Count(Doomed) + Count(ServeBehind) + Cardinality(Unspent) + ProviderDebt

BudgetInv == made + Debt <= 1 + 2 * faults + Cardinality(opened)

Inv ==
    /\ TypeOK /\ LinkInv /\ NoSessionLeaks /\ ServeInv /\ MutexInv /\ EndInv
    /\ ReportInv /\ BudgetInv

-----------------------------------------------------------------------------
(***************************************************************************)
(* The actions that matter to a part of the invariant, and the rest.       *)
(***************************************************************************)

LEMMA OwnersDiffer ==
  /\ Serve # Provider
  /\ \A g : ControlLoop(g) # Serve /\ ControlLoop(g) # Provider
  /\ \A g, h : ControlLoop(g) = ControlLoop(h) => g = h
  BY DEF Serve, Provider, ControlLoop

LEMMA SessionsAreNumbers == Sessions \subseteq Nat \ {0} /\ 1 \in Sessions /\ None = 0
  BY BoundsAssumption DEF Sessions, None

\* Each step is one of the actions.
LEMMA Steps ==
  ASSUME [Next]_vars
  PROVE  \/ HandshakeAccepted \/ HandshakeRejected \/ StreamAccepted
         \/ SessionDies \/ ProviderReconnects \/ Cancel
         \/ \E g \in Sessions : ControlDeath(g)
         \/ ServeTop \/ HandshakeAborted \/ StoreSessionID \/ StartControlLoop \/ AcceptError
         \/ SwapRefused \/ Swap \/ SwapFinish
         \/ HandleReconnect
         \/ CtxCloseSession \/ ShutdownCloseSession \/ (\E c \in Closers : CloseTaken(c)) \/ RunReturns
         \/ \E who \in Owners : ReinstallStart(who)
         \/ \E g \in Sessions : ControlEnds(g)
         \/ UNCHANGED vars
  BY DEF Next, Environment, ServeStep, ReinstallStep, EndStep

LEMMA TypeInit == Init => TypeOK
<1> SUFFICES ASSUME Init PROVE TypeOK
  OBVIOUS
<1>1. mutex \in [phase : {"free", "closed", "swapped"}, by : Owners, dead : Sessions \cup {None},
                  old : Sessions \cup {None}, oldSid : Sessions \cup {None}, oldStop : Sessions \cup {None}]
  BY DEF Init, Free, Owners
<1>2. closers \in [Closers -> [phase : {"idle", "taken", "done"}, pair : Sessions \cup {None},
                                sid : Sessions \cup {None}, stop : Sessions \cup {None}]]
  BY DEF Init, Idle
<1>3. closed \in [Sessions -> Nat] /\ sess \in [Sessions -> {"none", "open", "shut"}]
      /\ ctl \in [Sessions -> {"none", "run", "reinstall", "off"}]
  BY DEF Init
<1>4. made \in Sessions /\ cur \in Sessions \cup {None} /\ faults \in 0 .. MaxFaults
  BY SessionsAreNumbers, BoundsAssumption DEF Init
<1> QED BY <1>1, <1>2, <1>3, <1>4 DEF Init, TypeOK

LEMMA ReleasedType ==
  ASSUME TypeOK, NEW who \in Owners, Released(who)
  PROVE  /\ serve' \in {"top", "hs", "opened", "startControl", "accept", "reinstall", "returned"}
         /\ provider' \in {"idle", "called", "reinstall"}
         /\ ctl' \in [Sessions -> {"none", "run", "reinstall", "off"}]
         /\ mutex' \in [phase : {"free", "closed", "swapped"}, by : Owners, dead : Sessions \cup {None},
                  old : Sessions \cup {None}, oldSid : Sessions \cup {None}, oldStop : Sessions \cup {None}]
  BY DEF TypeOK, Released, Free, Owners

LEMMA ReportType ==
  ASSUME TypeOK, NEW g \in Sessions \cup {None}, Report(g)
  PROVE  closed' \in [Sessions -> Nat]
  BY DEF TypeOK, Report

LEMMA TakeType ==
  ASSUME TypeOK, NEW c \in Closers, TakeSession(c),
         run' \in {"serve", "closing", "wait", "returned"}
  PROVE  TypeOK'
  BY DEF TypeOK, TakeSession, linkVars, logVars, endVars

LEMMA TypeStep == TypeOK /\ ServeInv /\ [Next]_vars => TypeOK'
<1> SUFFICES ASSUME TypeOK, ServeInv, [Next]_vars PROVE TypeOK'
  OBVIOUS
<1>1. CASE HandshakeAccepted
  BY <1>1 DEF TypeOK, ServeInv, HandshakeAccepted, linkVars, logVars, endVars
<1>2. CASE HandshakeRejected
  BY <1>2, BoundsAssumption DEF TypeOK, HandshakeRejected, Fault, linkVars, logVars, endVars
<1>3. CASE StreamAccepted
  BY <1>3 DEF TypeOK, StreamAccepted, linkVars, logVars, endVars
<1>4. CASE SessionDies
  BY <1>4, BoundsAssumption DEF TypeOK, SessionDies, Fault, linkVars, logVars, endVars
<1>5. CASE ProviderReconnects
  BY <1>5, BoundsAssumption DEF TypeOK, ProviderReconnects, Fault, linkVars, logVars, endVars
<1>6. CASE Cancel
  BY <1>6 DEF TypeOK, Cancel, linkVars, logVars, endVars
<1>7. ASSUME NEW g \in Sessions, ControlDeath(g) PROVE TypeOK'
  BY <1>7, BoundsAssumption DEF TypeOK, ControlDeath, Fault, linkVars, logVars, endVars
<1>8. CASE ServeTop
  BY <1>8 DEF TypeOK, ServeTop, linkVars, logVars, endVars
<1>9. CASE HandshakeAborted
  BY <1>9 DEF TypeOK, HandshakeAborted, linkVars, logVars, endVars
<1>10. CASE StoreSessionID
  BY <1>10 DEF TypeOK, StoreSessionID, linkVars, logVars, endVars
<1>11. CASE StartControlLoop
  BY <1>11 DEF TypeOK, ServeInv, StartControlLoop, linkVars, logVars, endVars
<1>12. CASE AcceptError
  BY <1>12 DEF TypeOK, AcceptError, linkVars, logVars, endVars
<1>13. CASE SwapRefused
  <2>1. mutex.by \in Owners
    BY DEF TypeOK
  <2> QED BY <1>13, <2>1, ReleasedType DEF TypeOK, SwapRefused, linkVars, logVars, endVars
<1>14. CASE Swap
  <2>1. made + 1 \in Sessions
    BY <1>14, BoundsAssumption DEF Swap, TypeOK, Sessions
  <2> QED BY <1>14, <2>1, ZenonT(30) DEF TypeOK, Swap, linkVars, logVars, endVars
<1>15. CASE SwapFinish
  <2>1. mutex.by \in Owners /\ mutex.oldSid \in Sessions \cup {None}
        /\ mutex.oldStop \in Sessions \cup {None}
    BY DEF TypeOK
  <2>2. stopped' \subseteq Sessions /\ sess' \in [Sessions -> {"none", "open", "shut"}]
    BY <1>15, <2>1 DEF TypeOK, SwapFinish
  <2>3. closed' \in [Sessions -> Nat]
    BY <1>15, <2>1, ReportType DEF SwapFinish
  <2> QED BY <1>15, <2>1, <2>2, <2>3, ReleasedType DEF TypeOK, SwapFinish, linkVars, logVars, endVars
<1>16. CASE HandleReconnect
  BY <1>16 DEF TypeOK, HandleReconnect, linkVars, logVars, endVars
<1>17. CASE CtxCloseSession
  BY <1>17, TakeType DEF TypeOK, CtxCloseSession, Closers
<1>18. CASE ShutdownCloseSession
  BY <1>18, TakeType DEF ShutdownCloseSession, Closers
<1>19. ASSUME NEW c \in Closers, CloseTaken(c) PROVE TypeOK'
  <2>1. closers[c].sid \in Sessions \cup {None} /\ closers[c].stop \in Sessions \cup {None}
    BY DEF TypeOK
  <2>2. stopped' \subseteq Sessions /\ sess' \in [Sessions -> {"none", "open", "shut"}]
    BY <1>19, <2>1 DEF TypeOK, CloseTaken
  <2>3. closed' \in [Sessions -> Nat]
    BY <1>19, <2>1, ReportType DEF CloseTaken
  <2> QED BY <1>19, <2>1, <2>2, <2>3 DEF TypeOK, CloseTaken, linkVars, logVars, endVars
<1>20. CASE RunReturns
  BY <1>20 DEF TypeOK, RunReturns, linkVars, logVars, endVars
<1>21. ASSUME NEW who \in Owners, ReinstallStart(who) PROVE TypeOK'
  <2>1. Dead(who) \in Sessions \cup {None}
    BY DEF Dead, TypeOK, Owners, ControlLoop, Serve, Provider
  <2> QED BY <1>21, <2>1 DEF TypeOK, ReinstallStart, linkVars, logVars, endVars
<1>22. ASSUME NEW g \in Sessions, ControlEnds(g) PROVE TypeOK'
  BY <1>22 DEF TypeOK, ControlEnds, linkVars, logVars, endVars
<1>23. CASE UNCHANGED vars
  BY <1>23 DEF TypeOK, vars, linkVars, logVars, endVars
<1> QED
  BY Steps, <1>1, <1>2, <1>3, <1>4, <1>5, <1>6, <1>7, <1>8, <1>9, <1>10, <1>11, <1>12, <1>13,
     <1>14, <1>15, <1>16, <1>17, <1>18, <1>19, <1>20, <1>21, <1>22, <1>23

-----------------------------------------------------------------------------
(***************************************************************************)
(* The sessions: no open session is lost sight of.                         *)
(***************************************************************************)

LEMMA LinkStep ==
  ASSUME TypeOK, TypeOK', LinkInv, NoSessionLeaks, EndInv, [Next]_vars
  PROVE  LinkInv' /\ NoSessionLeaks'
<1> USE SessionsAreNumbers DEF LinkInv, NoSessionLeaks
<1>1. CASE UNCHANGED <<made, cur, at, sess, mutex, closers>>
  BY <1>1
<1>2. CASE SessionDies
  BY <1>2 DEF SessionDies, TypeOK, endVars
<1>3. CASE ServeTop
  BY <1>3 DEF ServeTop, TypeOK, linkVars, endVars
<1>4. CASE SwapRefused
  BY <1>4 DEF SwapRefused, Released, Free, TypeOK, linkVars, endVars
<1>5. CASE Swap
  <2>1. /\ made' = made + 1 /\ cur' = made + 1 /\ mutex'.phase = "swapped" /\ mutex'.old = cur
        /\ sess' = [sess EXCEPT ![made + 1] = "open"] /\ at' = at /\ closers' = closers
    BY <1>5 DEF Swap, TypeOK, endVars
  <2>2. made \in Nat /\ made + 1 \in Sessions
    BY <2>1 DEF TypeOK
  <2>3. LinkInv'
    <3>1. cur \in Sessions \cup {None} /\ at \in Sessions \cup {None}
          /\ \A c \in Closers : closers[c].pair \in Sessions \cup {None}
      BY DEF TypeOK
    <3>2. \A x \in Sessions \cup {None} : x \in Nat
      OBVIOUS
    <3>3. cur \in Nat /\ at \in Nat /\ \A c \in Closers : closers[c].pair \in Nat
      BY <3>1, <3>2
    <3> QED BY <2>1, <2>2, <3>3
  <2>4. \A g \in Sessions : sess[g] = "open" => g # cur
    BY <1>5 DEF Swap
  <2> QED BY <2>1, <2>2, <2>3, <2>4 DEF TypeOK
<1>6. CASE SwapFinish
  BY <1>6 DEF SwapFinish, Released, Free, TypeOK, endVars
<1>7. ASSUME NEW c \in Closers, TakeSession(c), closers[c].phase = "idle" PROVE LinkInv' /\ NoSessionLeaks'
  <2>1. /\ closers' = [closers EXCEPT ![c] = [phase |-> "taken", pair |-> cur, sid |-> sid, stop |-> stop]]
        /\ cur' = None /\ UNCHANGED <<made, sess, at, mutex>>
    BY <1>7 DEF TakeSession
  <2>2. closers'[c].phase = "taken" /\ closers'[c].pair = cur
        /\ \A d \in Closers \ {c} : closers'[d] = closers[d]
    BY <2>1 DEF TypeOK
  <2> QED BY <1>7, <2>1, <2>2 DEF TypeOK
<1>8. CASE CtxCloseSession
  BY <1>7, <1>8 DEF CtxCloseSession, Closers
<1>9. CASE ShutdownCloseSession
  BY <1>7, <1>9 DEF ShutdownCloseSession, Closers, EndInv
<1>10. ASSUME NEW c \in Closers, CloseTaken(c) PROVE LinkInv' /\ NoSessionLeaks'
  <2>1. /\ sess' = [g \in Sessions |-> IF g = closers[c].pair THEN "shut" ELSE sess[g]]
        /\ UNCHANGED <<made, cur, at, mutex>>
        /\ closers'[c].phase = "done"
        /\ \A d \in Closers \ {c} : closers'[d] = closers[d]
    BY <1>10 DEF CloseTaken, TypeOK
  <2>2. LinkInv'
    BY <2>1 DEF TypeOK
  <2>3. NoSessionLeaks'
    BY <2>1 DEF TypeOK
  <2> QED BY <2>2, <2>3
<1>11. ASSUME NEW who \in Owners, ReinstallStart(who) PROVE LinkInv' /\ NoSessionLeaks'
  BY <1>11 DEF ReinstallStart, TypeOK, endVars
<1> QED
  BY Steps, <1>1, <1>2, <1>3, <1>4, <1>5, <1>6, <1>8, <1>9, <1>10, <1>11
  DEF HandshakeAccepted, HandshakeRejected, StreamAccepted, ProviderReconnects, Cancel, ControlDeath,
      HandshakeAborted, StoreSessionID, StartControlLoop, AcceptError, HandleReconnect, RunReturns,
      ControlEnds, vars, linkVars, endVars

-----------------------------------------------------------------------------
(***************************************************************************)
(* serveSingle, the callers of reinstallSession and the end of Run.        *)
(***************************************************************************)

\* The holder of the mutex, and it alone, goes on when the mutex is released.
LEMMA ReleasedCaller ==
  ASSUME TypeOK, MutexInv, mutex.phase # "free", Released(mutex.by)
  PROVE  /\ mutex' = Free
         /\ \/ serve = "reinstall" /\ serve' = "top" /\ mutex.by = Serve /\ UNCHANGED <<provider, ctl>>
            \/ provider = "reinstall" /\ provider' = "idle" /\ mutex.by = Provider /\ UNCHANGED <<serve, ctl>>
            \/ \E g \in Sessions : /\ ctl[g] = "reinstall" /\ ctl' = [ctl EXCEPT ![g] = "off"]
                                   /\ mutex.by = ControlLoop(g) /\ UNCHANGED <<serve, provider>>
<1>1. Waiting(mutex.by)
  BY DEF MutexInv
<1>2. CASE mutex.by = Serve
  <2>1. ctl' = ctl
    BY <1>2, OwnersDiffer DEF Released, TypeOK
  <2> QED BY <1>1, <1>2, <2>1, OwnersDiffer DEF Released, Waiting
<1>3. CASE mutex.by = Provider
  <2>1. ctl' = ctl
    BY <1>3, OwnersDiffer DEF Released, TypeOK
  <2> QED BY <1>1, <1>3, <2>1, OwnersDiffer DEF Released, Waiting
<1>4. ASSUME NEW g \in Sessions, mutex.by = ControlLoop(g), ctl[g] = "reinstall"
      PROVE  ctl' = [ctl EXCEPT ![g] = "off"] /\ UNCHANGED <<serve, provider>>
  BY <1>4, OwnersDiffer, ZenonT(30) DEF Released, TypeOK
<1> QED BY <1>1, <1>2, <1>3, <1>4 DEF Waiting, Released

LEMMA ServeStepInv ==
  ASSUME TypeOK, TypeOK', LinkInv, ServeInv, MutexInv, [Next]_vars
  PROVE  ServeInv'
<1> USE SessionsAreNumbers DEF ServeInv
<1>1. CASE UNCHANGED <<serve, at, sid, opened, ctl, cur, made>>
  BY <1>1
<1>2. CASE HandshakeAccepted
  BY <1>2 DEF HandshakeAccepted, TypeOK, LinkInv, linkVars
<1>3. CASE HandshakeRejected \/ StreamAccepted \/ HandshakeAborted \/ AcceptError
  BY <1>3 DEF HandshakeRejected, StreamAccepted, HandshakeAborted, AcceptError, linkVars, logVars
<1>4. ASSUME NEW g \in Sessions, ControlDeath(g) \/ ControlEnds(g) PROVE ServeInv'
  BY <1>4 DEF ControlDeath, ControlEnds, TypeOK, linkVars, logVars
<1>5. CASE ServeTop
  BY <1>5 DEF ServeTop, TypeOK, linkVars, logVars
<1>6. CASE StoreSessionID
  BY <1>6 DEF StoreSessionID, TypeOK, logVars
<1>7. CASE StartControlLoop
  BY <1>7 DEF StartControlLoop, TypeOK, logVars
<1>8. CASE (SwapRefused \/ SwapFinish)
  <2>1. /\ mutex.phase # "free" /\ Released(mutex.by)
        /\ UNCHANGED <<at, sid, opened, cur, made>>
    BY <1>8 DEF SwapRefused, SwapFinish, linkVars, logVars
  <2> QED BY <2>1, ReleasedCaller DEF TypeOK
<1>9. CASE Swap
  <2>1. /\ made' = made + 1 /\ cur' = made + 1 /\ sid' = None /\ UNCHANGED <<serve, at, ctl, opened>>
    BY <1>9 DEF Swap, logVars
  <2>2. made \in Nat /\ made + 1 \notin opened
    BY DEF TypeOK
  <2> QED BY <2>1, <2>2 DEF TypeOK
<1>10. CASE CtxCloseSession \/ ShutdownCloseSession
  <2>1. cur' = None /\ sid' = None /\ UNCHANGED <<made, serve, at, ctl, opened>>
    BY <1>10 DEF CtxCloseSession, ShutdownCloseSession, TakeSession, logVars
  <2> QED BY <2>1 DEF TypeOK
<1> QED
  BY Steps, <1>1, <1>2, <1>3, <1>4, <1>5, <1>6, <1>7, <1>8, <1>9, <1>10
  DEF SessionDies, ProviderReconnects, Cancel, HandleReconnect, RunReturns, CloseTaken,
      ReinstallStart, vars, linkVars, logVars

LEMMA MutexStep ==
  ASSUME TypeOK, TypeOK', ServeInv, MutexInv, [Next]_vars
  PROVE  MutexInv'
<1> USE DEF MutexInv, Waiting
<1>1. CASE UNCHANGED <<serve, at, provider, ctl, mutex>>
  BY <1>1
<1>2. CASE \/ HandshakeAccepted \/ HandshakeRejected \/ StreamAccepted \/ HandshakeAborted
           \/ AcceptError \/ StoreSessionID \/ ServeTop
  <2>1. serve # "reinstall" /\ UNCHANGED <<provider, ctl, mutex>>
    BY <1>2 DEF HandshakeAccepted, HandshakeRejected, StreamAccepted, HandshakeAborted,
                AcceptError, StoreSessionID, ServeTop
  <2> QED BY <2>1, OwnersDiffer
<1>3. CASE StartControlLoop
  <2>1. /\ serve # "reinstall" /\ ctl[at] # "reinstall" /\ UNCHANGED <<provider, mutex, at>>
        /\ ctl' = [ctl EXCEPT ![at] = "run"]
    BY <1>3 DEF StartControlLoop, ServeInv
  <2> QED BY <2>1, OwnersDiffer DEF TypeOK
<1>4. ASSUME NEW g \in Sessions, ControlDeath(g) \/ ControlEnds(g) PROVE MutexInv'
  <2>1. /\ ctl[g] = "run" /\ \A h \in Sessions \ {g} : ctl'[h] = ctl[h]
        /\ UNCHANGED <<serve, at, provider, mutex>>
    BY <1>4 DEF ControlDeath, ControlEnds, TypeOK
  <2> QED BY <2>1, OwnersDiffer DEF TypeOK
<1>5. CASE ProviderReconnects \/ HandleReconnect
  <2>1. provider # "reinstall" /\ UNCHANGED <<serve, at, ctl, mutex>>
    BY <1>5 DEF ProviderReconnects, HandleReconnect
  <2> QED BY <2>1, OwnersDiffer
<1>6. CASE SwapRefused \/ SwapFinish
  BY <1>6 DEF SwapRefused, SwapFinish, Released, Free
<1>7. CASE Swap
  <2>1. /\ mutex'.by = mutex.by /\ mutex'.dead = mutex.dead /\ mutex.phase # "free"
        /\ UNCHANGED <<serve, at, provider, ctl>>
    BY <1>7 DEF Swap, TypeOK
  <2> QED BY <2>1
<1>8. ASSUME NEW who \in Owners, ReinstallStart(who) PROVE MutexInv'
  <2>1. /\ mutex'.by = who /\ mutex'.dead = Dead(who) /\ Waiting(who)
        /\ UNCHANGED <<serve, at, provider, ctl>>
    BY <1>8 DEF ReinstallStart
  <2>2. \A g \in Sessions : Dead(ControlLoop(g)) = g
    BY OwnersDiffer DEF Dead, ControlLoop, Serve, Provider
  <2> QED BY <2>1, <2>2 DEF Dead
<1> QED
  BY Steps, <1>1, <1>2, <1>3, <1>4, <1>5, <1>6, <1>7, <1>8
  DEF SessionDies, Cancel, CtxCloseSession, ShutdownCloseSession, TakeSession, CloseTaken,
      RunReturns, vars

LEMMA EndStepInv ==
  ASSUME TypeOK, TypeOK', ServeInv, MutexInv, EndInv, [Next]_vars
  PROVE  EndInv'
<1> USE DEF EndInv
<1>1. CASE UNCHANGED <<serve, sid, ctxDone, run, closers, provider, ctl>>
  BY <1>1
<1>2. CASE \/ HandshakeAccepted \/ HandshakeRejected \/ StreamAccepted \/ HandshakeAborted
           \/ AcceptError \/ StoreSessionID \/ ServeTop \/ StartControlLoop
  <2>1. /\ serve # "returned" /\ UNCHANGED <<ctxDone, run, closers, provider>>
        /\ serve' = "returned" => ctxDone
    BY <1>2 DEF HandshakeAccepted, HandshakeRejected, StreamAccepted, HandshakeAborted,
                AcceptError, StoreSessionID, ServeTop, StartControlLoop, endVars
  <2> QED BY <2>1
<1>3. CASE ProviderReconnects
  BY <1>3 DEF ProviderReconnects, linkVars, endVars
<1>4. CASE HandleReconnect
  BY <1>4 DEF HandleReconnect, linkVars, endVars
<1>5. CASE Cancel
  BY <1>5 DEF Cancel, linkVars
<1>6. ASSUME NEW g \in Sessions, ControlDeath(g) \/ ControlEnds(g) PROVE EndInv'
  BY <1>6 DEF ControlDeath, ControlEnds, TypeOK, linkVars, endVars
<1>7. CASE SwapRefused \/ SwapFinish
  <2>1. /\ mutex.phase # "free" /\ Released(mutex.by) /\ UNCHANGED <<sid, ctxDone, run, closers>>
    BY <1>7 DEF SwapRefused, SwapFinish, linkVars, endVars
  <2> QED BY <2>1, ReleasedCaller DEF TypeOK
<1>8. CASE Swap
  BY <1>8 DEF Swap, endVars
<1>9. CASE CtxCloseSession
  BY <1>9 DEF CtxCloseSession, TakeSession, TypeOK, Closers
<1>10. CASE ShutdownCloseSession
  BY <1>10 DEF ShutdownCloseSession, TakeSession, TypeOK, Closers
<1>11. ASSUME NEW c \in Closers, CloseTaken(c) PROVE EndInv'
  BY <1>11 DEF CloseTaken, TypeOK, Closers
<1>12. CASE RunReturns
  BY <1>12 DEF RunReturns, TypeOK, linkVars
<1> QED
  BY Steps, <1>1, <1>2, <1>3, <1>4, <1>5, <1>6, <1>7, <1>8, <1>9, <1>10, <1>11, <1>12
  DEF SessionDies, ReinstallStart, vars, linkVars, endVars

-----------------------------------------------------------------------------
(***************************************************************************)
(* onOpen and onClose: a session ID moves from place to place.             *)
(***************************************************************************)

LEMMA CarryMoves ==
  ASSUME TypeOK, ReportInv, NEW p \in Places, NEW q \in Places,
         p # q, Carries(q) = None, Carries(q)' = Carries(p), Carries(p)' = None,
         \A r \in Places \ {p, q} : Carries(r)' = Carries(r),
         UNCHANGED <<opened, closed>>
  PROVE  ReportInv'
<1>1. CallbacksPair'
  BY DEF ReportInv, CallbacksPair
<1>2. \A r \in Places : Carries(r)' # None =>
         \E s \in Places : /\ Carries(r)' = Carries(s)
                           /\ IF r = q THEN s = p ELSE s = r /\ r # p
  OBVIOUS
<1>3. \A g \in Sessions : (\E r \in Places : Carries(r) = g) => \E r \in Places : Carries(r)' = g
  <2> SUFFICES ASSUME NEW g \in Sessions, NEW r \in Places, Carries(r) = g
               PROVE  \E s \in Places : Carries(s)' = g
    OBVIOUS
  <2>1. r # q
    BY SessionsAreNumbers
  <2> QED BY <2>1
<1>4. \A r \in Places : Carries(r)' # None => Carries(r)' \in opened' /\ closed'[Carries(r)'] = 0
  BY <1>2 DEF ReportInv
<1>5. \A r, s \in Places : Carries(r)' = Carries(s)' /\ Carries(r)' # None => r = s
  BY <1>2 DEF ReportInv
<1>6. \A g \in opened' : closed'[g] = 1 \/ \E r \in Places : Carries(r)' = g
  BY <1>3 DEF ReportInv, TypeOK
<1> QED BY <1>1, <1>4, <1>5, <1>6 DEF ReportInv

LEMMA CarryReported ==
  ASSUME TypeOK, ReportInv, NEW p \in Places, Report(Carries(p)), Carries(p)' = None,
         \A r \in Places \ {p} : Carries(r)' = Carries(r),
         UNCHANGED opened
  PROVE  ReportInv'
<1>1. \A g \in Sessions : closed'[g] = IF g = Carries(p) THEN closed[g] + 1 ELSE closed[g]
  BY DEF Report
<1>2. \A g \in Sessions : closed[g] \in Nat /\ (g = Carries(p) => g \in opened /\ closed[g] = 0)
  BY SessionsAreNumbers DEF ReportInv, TypeOK
<1>3. CallbacksPair'
  BY <1>1, <1>2 DEF ReportInv, CallbacksPair
<1>4. ASSUME NEW r \in Places, Carries(r)' # None
      PROVE  r # p /\ Carries(r)' = Carries(r) /\ Carries(r) # Carries(p) /\ Carries(r) \in opened
             /\ closed[Carries(r)] = 0
  <2>1. r # p /\ Carries(r)' = Carries(r) /\ Carries(r) # None
    BY <1>4
  <2> QED BY <2>1 DEF ReportInv
<1>5. \A r \in Places : Carries(r)' # None => Carries(r)' \in opened' /\ closed'[Carries(r)'] = 0
  <2> SUFFICES ASSUME NEW r \in Places, Carries(r)' # None
               PROVE  Carries(r)' \in opened' /\ closed'[Carries(r)'] = 0
    OBVIOUS
  <2>1. Carries(r) \in Sessions
    BY <1>4 DEF TypeOK
  <2> QED BY <1>1, <1>4, <2>1
<1>6. \A r, s \in Places : Carries(r)' = Carries(s)' /\ Carries(r)' # None => r = s
  BY <1>4 DEF ReportInv
<1>7. \A g \in opened' : closed'[g] = 1 \/ \E r \in Places : Carries(r)' = g
  <2> SUFFICES ASSUME NEW g \in opened PROVE closed'[g] = 1 \/ \E r \in Places : Carries(r)' = g
    OBVIOUS
  <2>1. g \in Sessions
    BY DEF TypeOK
  <2>2. CASE g = Carries(p)
    BY <1>1, <1>2, <2>1, <2>2
  <2>3. CASE g # Carries(p)
    <3>1. CASE closed[g] = 1
      BY <1>1, <2>1, <2>3, <3>1
    <3>2. CASE closed[g] # 1
      <4>1. PICK r \in Places : Carries(r) = g
        BY <3>2 DEF ReportInv
      <4> QED BY <4>1, <2>3
    <3> QED BY <3>1, <3>2
  <2> QED BY <2>2, <2>3
<1> QED BY <1>3, <1>5, <1>6, <1>7 DEF ReportInv

LEMMA CarryStays ==
  ASSUME ReportInv, \A r \in Places : Carries(r)' = Carries(r), UNCHANGED <<opened, closed>>
  PROVE  ReportInv'
  BY DEF ReportInv, CallbacksPair

LEMMA ReportStep ==
  ASSUME TypeOK, TypeOK', ServeInv, MutexInv, EndInv, ReportInv, [Next]_vars
  PROVE  ReportInv'
<1>0. /\ Places = {"serve", "server", "mutex", "ctx", "shutdown"}
      /\ Carries("serve") = (IF serve = "opened" THEN at ELSE None)
      /\ Carries("server") = sid
      /\ Carries("mutex") = (IF mutex.phase = "swapped" THEN mutex.oldSid ELSE None)
      /\ \A c \in Closers : Carries(c) = (IF closers[c].phase = "taken" THEN closers[c].sid ELSE None)
  BY DEF Places, Carries, Closers
<1>1. /\ Carries("serve")' = (IF serve' = "opened" THEN at' ELSE None)
      /\ Carries("server")' = sid'
      /\ Carries("mutex")' = (IF mutex'.phase = "swapped" THEN mutex'.oldSid ELSE None)
      /\ \A c \in Closers : Carries(c)' = (IF closers'[c].phase = "taken" THEN closers'[c].sid ELSE None)
  BY DEF Carries, Closers
<1>2. CASE /\ UNCHANGED <<sid, closers, opened, closed>>
           /\ serve # "opened" /\ serve' # "opened"
           /\ (mutex.phase # "swapped" /\ mutex'.phase # "swapped") \/ UNCHANGED mutex
  <2>1. \A r \in Places : Carries(r)' = Carries(r)
    BY <1>0, <1>1, <1>2 DEF Closers
  <2> QED BY <2>1, <1>2, CarryStays
<1>3. CASE /\ UNCHANGED <<sid, closers, opened, closed, serve, at>>
           /\ (mutex.phase # "swapped" /\ mutex'.phase # "swapped") \/ UNCHANGED mutex
  <2>1. \A r \in Places : Carries(r)' = Carries(r)
    BY <1>0, <1>1, <1>3 DEF Closers
  <2> QED BY <2>1, <1>3, CarryStays
<1>4. CASE HandshakeAccepted
  <2>1. /\ serve = "hs" /\ serve' = "opened" /\ opened' = opened \cup {at}
        /\ UNCHANGED <<sid, at, mutex, closers, closed>> /\ at \notin opened /\ at \in Sessions
    BY <1>4 DEF HandshakeAccepted, ServeInv, TypeOK, linkVars, endVars
  <2>2. /\ Carries("serve") = None /\ Carries("serve")' = at
        /\ \A r \in Places \ {"serve"} : Carries(r)' = Carries(r)
    BY <1>0, <1>1, <2>1 DEF Closers
  <2>3. closed[at] = 0
    BY <2>1 DEF ReportInv, CallbacksPair, TypeOK
  <2>4. CallbacksPair'
    BY <2>1, <2>3 DEF ReportInv, CallbacksPair, TypeOK
  <2>5. \A r \in Places \ {"serve"} : Carries(r)' # None => Carries(r) \in opened /\ closed[Carries(r)] = 0
    BY <2>2 DEF ReportInv
  <2>6. \A r \in Places : Carries(r)' # None => Carries(r)' \in opened' /\ closed'[Carries(r)'] = 0
    BY <2>1, <2>2, <2>3, <2>5
  <2>7. \A r, s \in Places : Carries(r)' = Carries(s)' /\ Carries(r)' # None => r = s
    BY <2>1, <2>2, <2>5 DEF ReportInv
  <2>8. \A g \in opened' : closed'[g] = 1 \/ \E r \in Places : Carries(r)' = g
    BY <1>0, <2>1, <2>2, SessionsAreNumbers DEF ReportInv, TypeOK
  <2> QED BY <2>4, <2>6, <2>7, <2>8 DEF ReportInv
<1>5. CASE StoreSessionID
  <2>1. /\ serve = "opened" /\ serve' # "opened" /\ sid = None /\ sid' = at
        /\ UNCHANGED <<mutex, closers, opened, closed>>
    BY <1>5 DEF StoreSessionID, ServeInv, logVars, endVars
  <2>2. /\ Carries("server") = None /\ Carries("server")' = Carries("serve") /\ Carries("serve")' = None
        /\ \A r \in Places \ {"serve", "server"} : Carries(r)' = Carries(r)
    BY <1>0, <1>1, <2>1 DEF Closers
  <2> QED BY <1>0, <2>1, <2>2, CarryMoves
<1>6. CASE Swap
  <2>1. /\ mutex.phase # "swapped" /\ mutex'.phase = "swapped" /\ mutex'.oldSid = sid /\ sid' = None
        /\ UNCHANGED <<serve, at, closers, opened, closed>>
    BY <1>6 DEF Swap, TypeOK, logVars, endVars
  <2>2. /\ Carries("mutex") = None /\ Carries("mutex")' = Carries("server") /\ Carries("server")' = None
        /\ \A r \in Places \ {"server", "mutex"} : Carries(r)' = Carries(r)
    BY <1>0, <1>1, <2>1 DEF Closers
  <2> QED BY <1>0, <2>1, <2>2, CarryMoves
<1>7. CASE SwapFinish
  <2>1. /\ mutex.phase = "swapped" /\ mutex' = Free /\ Report(mutex.oldSid)
        /\ UNCHANGED <<sid, at, closers, opened>> /\ (UNCHANGED serve \/ (serve = "reinstall" /\ serve' = "top"))
    <3>1. mutex.phase = "swapped" /\ Released(mutex.by) /\ Report(mutex.oldSid)
          /\ UNCHANGED <<sid, at, closers, opened>>
      BY <1>7 DEF SwapFinish, endVars
    <3> QED BY <3>1, ReleasedCaller
  <2>2. /\ Carries("mutex") = mutex.oldSid /\ Carries("mutex")' = None
        /\ \A r \in Places \ {"mutex"} : Carries(r)' = Carries(r)
    BY <1>0, <1>1, <2>1 DEF Closers, Free
  <2> QED BY <1>0, <2>1, <2>2, CarryReported
<1>8. ASSUME NEW c \in Closers, TakeSession(c), closers[c].phase = "idle" PROVE ReportInv'
  <2>1. /\ closers'[c].phase = "taken" /\ closers'[c].sid = sid /\ sid' = None
        /\ \A d \in Closers \ {c} : closers'[d] = closers[d]
        /\ UNCHANGED <<serve, at, mutex, opened, closed>>
    BY <1>8 DEF TakeSession, TypeOK, logVars
  <2>2. /\ Carries(c) = None /\ Carries(c)' = Carries("server") /\ Carries("server")' = None
        /\ \A r \in Places \ {"server", c} : Carries(r)' = Carries(r)
    BY <1>0, <1>1, <1>8, <2>1 DEF Closers
  <2> QED BY <1>0, <2>1, <2>2, CarryMoves DEF Closers
<1>9. CASE CtxCloseSession
  BY <1>8, <1>9 DEF CtxCloseSession, Closers
<1>10. CASE ShutdownCloseSession
  BY <1>8, <1>10 DEF ShutdownCloseSession, EndInv, Closers
<1>11. ASSUME NEW c \in Closers, CloseTaken(c) PROVE ReportInv'
  <2>1. /\ closers[c].phase = "taken" /\ closers'[c].phase = "done" /\ Report(closers[c].sid)
        /\ \A d \in Closers \ {c} : closers'[d] = closers[d]
        /\ UNCHANGED <<sid, serve, at, mutex, opened>>
    BY <1>11 DEF CloseTaken, TypeOK
  <2>2. /\ Carries(c) = closers[c].sid /\ Carries(c)' = None
        /\ \A r \in Places \ {c} : Carries(r)' = Carries(r)
    BY <1>0, <1>1, <2>1 DEF Closers
  <2> QED BY <1>0, <2>1, <2>2, CarryReported DEF Closers
<1>12. CASE SwapRefused
  <2>1. /\ mutex.phase # "swapped" /\ mutex'.phase # "swapped" /\ UNCHANGED <<sid, closers, opened, closed, at>>
        /\ (UNCHANGED serve \/ (serve = "reinstall" /\ serve' = "top"))
    <3>1. mutex.phase = "closed" /\ Released(mutex.by) /\ UNCHANGED <<sid, closers, opened, closed, at>>
      BY <1>12 DEF SwapRefused, linkVars, logVars, endVars
    <3> QED BY <3>1, ReleasedCaller DEF Free
  <2> QED BY <1>2, <1>3, <2>1
<1>13. ASSUME NEW who \in Owners, ReinstallStart(who) PROVE ReportInv'
  BY <1>3, <1>13 DEF ReinstallStart, logVars, endVars
<1>14. CASE \/ HandshakeRejected \/ StreamAccepted \/ HandshakeAborted \/ AcceptError \/ ServeTop
            \/ StartControlLoop
  BY <1>2, <1>14 DEF HandshakeRejected, StreamAccepted, HandshakeAborted, AcceptError, ServeTop,
                     StartControlLoop, linkVars, logVars, endVars
<1> QED
  BY Steps, <1>3, <1>4, <1>5, <1>6, <1>7, <1>9, <1>10, <1>11, <1>12, <1>13, <1>14
  DEF SessionDies, ProviderReconnects, Cancel, ControlDeath, ControlEnds, HandleReconnect, RunReturns,
      vars, linkVars, logVars, endVars

-----------------------------------------------------------------------------
(***************************************************************************)
(* The sessions a failure may cost are paid for when it happens.           *)
(***************************************************************************)

LEMMA OpenedIsFinite ==
  ASSUME TypeOK
  PROVE  /\ IsFiniteSet(opened) /\ Cardinality(opened) \in Nat
         /\ IsFiniteSet(Unspent) /\ Cardinality(Unspent) \in Nat
<1>1. IsFiniteSet(Sessions)
  BY BoundsAssumption, FS_Interval DEF Sessions
<1>2. IsFiniteSet(opened) /\ IsFiniteSet(Unspent)
  BY <1>1, FS_Subset DEF TypeOK, Unspent
<1> QED BY <1>2, FS_CardinalityType

\* A step within the budget: what it adds to the debt and to the sessions is covered by
\* the failure or by the handshake it is.
LEMMA WithinBudget ==
  ASSUME TypeOK, TypeOK', BudgetInv,
         NEW d \in Int, made' = made + d,
         NEW f \in Nat, faults' = faults + f,
         NEW o \in Nat, Cardinality(opened') = Cardinality(opened) + o,
         NEW u \in Int, Cardinality(Unspent') <= Cardinality(Unspent) + u,
         NEW x \in Int, Count(Doomed)' <= Count(Doomed) + x,
         NEW y \in Int, Count(ServeBehind)' <= Count(ServeBehind) + y,
         NEW z \in Int, ProviderDebt' <= ProviderDebt + z,
         d + u + x + y + z <= 2 * f + o
  PROVE  BudgetInv'
<1>1. /\ made \in Nat /\ faults \in Nat /\ made' \in Nat /\ faults' \in Nat
  BY BoundsAssumption, SessionsAreNumbers DEF TypeOK
<1>2. /\ Cardinality(opened) \in Nat /\ Cardinality(Unspent) \in Nat
      /\ Cardinality(opened') \in Nat /\ Cardinality(Unspent') \in Nat
  <2>1. IsFiniteSet(Sessions)
    BY BoundsAssumption, FS_Interval DEF Sessions
  <2>2. IsFiniteSet(opened') /\ IsFiniteSet(Unspent')
    BY <2>1, FS_Subset DEF TypeOK, Unspent
  <2> QED BY <2>2, OpenedIsFinite, FS_CardinalityType
<1>3. /\ Count(Doomed) \in Nat /\ Count(Doomed)' \in Nat
      /\ Count(ServeBehind) \in Nat /\ Count(ServeBehind)' \in Nat
      /\ ProviderDebt \in Nat /\ ProviderDebt' \in Nat
  BY DEF Count, ProviderDebt
<1> QED BY <1>1, <1>2, <1>3 DEF BudgetInv, Debt

\* A step that costs nothing.
LEMMA NothingSpent ==
  ASSUME TypeOK, TypeOK', BudgetInv, UNCHANGED <<made, faults, opened>>,
         Unspent' \subseteq Unspent, Doomed' => Doomed, ServeBehind' => ServeBehind,
         ProviderDebt' = ProviderDebt
  PROVE  BudgetInv'
<1>1. Cardinality(Unspent') <= Cardinality(Unspent) + 0
  BY OpenedIsFinite, FS_Subset
<1>2. Count(Doomed)' <= Count(Doomed) + 0 /\ Count(ServeBehind)' <= Count(ServeBehind) + 0
  BY DEF Count
<1>3. ProviderDebt' <= ProviderDebt + 0 /\ made' = made + 0 /\ faults' = faults + 0
      /\ Cardinality(opened') = Cardinality(opened) + 0
  BY BoundsAssumption, OpenedIsFinite, SessionsAreNumbers DEF TypeOK, ProviderDebt
<1> QED BY <1>1, <1>2, <1>3, WithinBudget

\* A failure: at most two more sessions are owed.
LEMMA FaultSpends ==
  ASSUME TypeOK, TypeOK', BudgetInv, UNCHANGED <<made, opened>>, Fault,
         Unspent' \subseteq Unspent, ServeBehind' => ServeBehind,
         \/ ProviderDebt' = ProviderDebt
         \/ ProviderDebt = 0 /\ ProviderDebt' = 2 /\ (Doomed' => Doomed)
  PROVE  BudgetInv'
<1>1. Cardinality(Unspent') <= Cardinality(Unspent) + 0
  BY OpenedIsFinite, FS_Subset
<1>2. Count(ServeBehind)' <= Count(ServeBehind) + 0
  BY DEF Count
<1>3. made' = made + 0 /\ faults' = faults + 1 /\ Cardinality(opened') = Cardinality(opened) + 0
  BY BoundsAssumption, OpenedIsFinite, SessionsAreNumbers DEF TypeOK, Fault
<1>4. CASE ProviderDebt' = ProviderDebt
  <2>1. Count(Doomed)' <= Count(Doomed) + 1 /\ ProviderDebt' <= ProviderDebt + 0
    BY <1>4 DEF Count, ProviderDebt
  <2>2. 0 + 0 + 1 + 0 + 0 <= 2 * 1 + 0
    OBVIOUS
  <2> QED BY <1>1, <1>2, <1>3, <2>1, <2>2, WithinBudget
<1>5. CASE ProviderDebt = 0 /\ ProviderDebt' = 2 /\ (Doomed' => Doomed)
  <2>1. Count(Doomed)' <= Count(Doomed) + 0 /\ ProviderDebt' <= ProviderDebt + 2
    BY <1>5 DEF Count
  <2>2. 0 + 0 + 0 + 0 + 2 <= 2 * 1 + 0
    OBVIOUS
  <2> QED BY <1>1, <1>2, <1>3, <2>1, <2>2, WithinBudget
<1> QED BY <1>4, <1>5

LEMMA BudgetServe ==
  ASSUME TypeOK, TypeOK', LinkInv, ServeInv, BudgetInv,
         \/ HandshakeAccepted \/ HandshakeRejected \/ HandshakeAborted
         \/ StreamAccepted \/ AcceptError \/ ServeTop \/ StoreSessionID \/ StartControlLoop
  PROVE  BudgetInv'
<1>1. CASE HandshakeAccepted
  <2>1. /\ serve = "hs" /\ serve' = "opened" /\ opened' = opened \cup {at} /\ at \notin opened
        /\ UNCHANGED <<made, cur, sess, at, ctl, provider, mutex, faults>>
    BY <1>1 DEF HandshakeAccepted, ServeInv, linkVars
  <2>2. Unspent' \subseteq Unspent \cup {at}
    BY <2>1 DEF Unspent, Holds
  <2>3. Cardinality(Unspent') <= Cardinality(Unspent) + 1
    <3>1. IsFiniteSet(Unspent \cup {at}) /\ Cardinality(Unspent \cup {at}) <= Cardinality(Unspent) + 1
          /\ Cardinality(Unspent \cup {at}) \in Nat
      BY OpenedIsFinite, FS_AddElement, FS_CardinalityType
    <3>2. Cardinality(Unspent') <= Cardinality(Unspent \cup {at}) /\ Cardinality(Unspent') \in Nat
      BY <2>2, <3>1, FS_Subset, FS_CardinalityType
    <3> QED BY <3>1, <3>2, OpenedIsFinite
  <2>4. Cardinality(opened') = Cardinality(opened) + 1
    BY <2>1, OpenedIsFinite, FS_AddElement
  <2>5. Count(Doomed)' <= Count(Doomed) + 0 /\ Count(ServeBehind)' <= Count(ServeBehind) + 0
    BY <2>1 DEF Count, Doomed, ServeBehind, Holds
  <2>6. ProviderDebt' <= ProviderDebt + 0 /\ made' = made + 0 /\ faults' = faults + 0
    BY <2>1, BoundsAssumption, SessionsAreNumbers DEF TypeOK, ProviderDebt, Holds
  <2>7. 0 + 1 + 0 + 0 + 0 <= 2 * 0 + 1
    OBVIOUS
  <2> QED BY <2>3, <2>4, <2>5, <2>6, <2>7, WithinBudget
<1>2. CASE HandshakeRejected
  <2>1. /\ serve = "hs" /\ serve' = "reinstall" /\ Fault
        /\ UNCHANGED <<made, cur, sess, at, ctl, provider, mutex, opened>>
    BY <1>2 DEF HandshakeRejected, linkVars, logVars
  <2> QED BY <2>1, FaultSpends DEF Unspent, ServeBehind, ProviderDebt, Holds
<1>3. CASE HandshakeAborted \/ StreamAccepted \/ AcceptError
  <2>1. /\ serve \in {"hs", "accept"} /\ (serve' = "reinstall" => sess[at] = "shut")
        /\ UNCHANGED <<made, cur, sess, at, ctl, provider, mutex, opened, faults>>
    BY <1>3 DEF HandshakeAborted, StreamAccepted, AcceptError, linkVars, logVars
  <2>2. Doomed' => Doomed
    BY <2>1 DEF Doomed
  <2> QED BY <2>1, <2>2, NothingSpent DEF Unspent, ServeBehind, ProviderDebt, Holds
<1>4. CASE ServeTop
  <2>1. /\ serve' # "reinstall" /\ (serve' # "returned" => at' = cur)
        /\ UNCHANGED <<made, cur, sess, ctl, provider, mutex, opened, faults>>
    BY <1>4 DEF ServeTop, linkVars, logVars
  <2> QED BY <2>1, NothingSpent DEF Unspent, Doomed, ServeBehind, ProviderDebt, Holds
<1>5. CASE StoreSessionID
  <2>1. /\ serve = "opened" /\ serve' = "startControl"
        /\ UNCHANGED <<made, cur, sess, at, ctl, provider, mutex, opened, faults>>
    BY <1>5 DEF StoreSessionID, logVars
  <2> QED BY <2>1, NothingSpent DEF Unspent, Doomed, ServeBehind, ProviderDebt, Holds
<1>6. CASE StartControlLoop
  <2>1. /\ serve = "startControl" /\ serve' = "accept" /\ ctl[at] = "none"
        /\ ctl' = [ctl EXCEPT ![at] = "run"]
        /\ UNCHANGED <<made, cur, sess, at, provider, mutex, opened, faults>>
    BY <1>6 DEF StartControlLoop, ServeInv, logVars
  <2>2. Unspent' \subseteq Unspent /\ (Doomed' => Doomed)
    BY <2>1, SessionsAreNumbers DEF Unspent, Doomed, Holds, TypeOK
  <2> QED BY <2>1, <2>2, NothingSpent DEF ServeBehind, ProviderDebt, Holds
<1> QED BY <1>1, <1>2, <1>3, <1>4, <1>5, <1>6

LEMMA BudgetNetwork ==
  ASSUME TypeOK, TypeOK', LinkInv, MutexInv, BudgetInv,
         \/ SessionDies \/ ProviderReconnects \/ HandleReconnect
         \/ \E g \in Sessions : ControlDeath(g) \/ ControlEnds(g)
  PROVE  BudgetInv'
<1>1. CASE SessionDies
  <2>1. /\ Fault /\ UNCHANGED <<made, cur, serve, at, ctl, provider, mutex, opened>>
    BY <1>1 DEF SessionDies, logVars
  <2> QED BY <2>1, FaultSpends DEF Unspent, ServeBehind, ProviderDebt, Holds
<1>2. CASE ProviderReconnects
  <2>1. /\ Fault /\ provider = "idle" /\ provider' = "called"
        /\ UNCHANGED <<made, cur, sess, serve, at, ctl, mutex, opened>>
    BY <1>2 DEF ProviderReconnects, linkVars, logVars
  <2>2. ~Holds(Provider)
    BY <2>1, OwnersDiffer DEF Holds, MutexInv, Waiting
  <2>3. ProviderDebt = 0 /\ ProviderDebt' = 2
    BY <2>1, <2>2 DEF ProviderDebt, Holds
  <2> QED BY <2>1, <2>3, FaultSpends DEF Unspent, Doomed, ServeBehind, Holds
<1>3. CASE HandleReconnect
  <2>1. /\ provider = "called" /\ provider' = "reinstall"
        /\ UNCHANGED <<made, cur, sess, serve, at, ctl, mutex, opened, faults>>
    BY <1>3 DEF HandleReconnect, linkVars, logVars
  <2> QED BY <2>1, NothingSpent DEF Unspent, Doomed, ServeBehind, ProviderDebt, Holds
<1>4. ASSUME NEW g \in Sessions, ControlDeath(g) PROVE BudgetInv'
  <2>1. /\ Fault /\ ctl[g] = "run" /\ ctl' = [ctl EXCEPT ![g] = "reinstall"]
        /\ UNCHANGED <<made, cur, sess, serve, at, provider, mutex, opened>>
    BY <1>4 DEF ControlDeath, linkVars, logVars
  <2>2. Unspent' \subseteq Unspent
    BY <2>1 DEF Unspent, Holds, TypeOK
  <2> QED BY <2>1, <2>2, FaultSpends DEF ServeBehind, ProviderDebt, Holds
<1>5. ASSUME NEW g \in Sessions, ControlEnds(g) PROVE BudgetInv'
  <2>1. /\ ctl[g] = "run" /\ \A h \in Sessions \ {g} : ctl'[h] = ctl[h]
        /\ ctl'[g] = "reinstall" => sess[g] = "shut"
        /\ UNCHANGED <<made, cur, sess, serve, at, provider, mutex, opened, faults>>
    BY <1>5 DEF ControlEnds, TypeOK, linkVars, logVars
  <2>2. Unspent' \subseteq Unspent /\ (Doomed' => Doomed)
    BY <2>1, SessionsAreNumbers DEF Unspent, Doomed, Holds, TypeOK
  <2> QED BY <2>1, <2>2, NothingSpent DEF ServeBehind, ProviderDebt, Holds
<1> QED BY <1>1, <1>2, <1>3, <1>4, <1>5

LEMMA BudgetStart ==
  ASSUME TypeOK, TypeOK', ServeInv, MutexInv, BudgetInv, NEW who \in Owners, ReinstallStart(who)
  PROVE  BudgetInv'
<1>1. /\ mutex.phase = "free" /\ mutex'.phase = "closed" /\ mutex'.by = who /\ Waiting(who)
      /\ sess' = [g \in Sessions |-> IF g = cur THEN "shut" ELSE sess[g]]
      /\ UNCHANGED <<made, cur, serve, at, ctl, provider, opened, faults>>
  BY DEF ReinstallStart, logVars
<1>2. /\ made' = made + 0 /\ faults' = faults + 0 /\ Cardinality(opened') = Cardinality(opened) + 0
  BY <1>1, BoundsAssumption, OpenedIsFinite, SessionsAreNumbers DEF TypeOK
<1>3. Unspent' \subseteq Unspent
  BY <1>1 DEF Unspent, Holds
<1>4. Cardinality(Unspent') <= Cardinality(Unspent) + 0
  BY <1>3, OpenedIsFinite, FS_Subset
<1>5. Count(ServeBehind)' <= Count(ServeBehind) + 0
  BY <1>1 DEF Count, ServeBehind, Holds
<1>6. CASE who = Serve
  <2>1. serve = "reinstall" /\ ProviderDebt' = ProviderDebt /\ ~ServeBehind'
    BY <1>1, <1>6, OwnersDiffer DEF Waiting, ProviderDebt, Holds, ServeBehind
  <2>2. CASE cur = None \/ at = cur
    <3>1. Doomed' => Doomed
      BY <1>1, <2>1, <2>2 DEF Doomed
    <3> QED BY <1>1, <1>3, <2>1, <3>1, NothingSpent
  <2>3. CASE cur # None /\ at # cur
    <3>1. ServeBehind
      BY <1>1, <2>1, <2>3 DEF ServeBehind, Holds
    <3>2. Count(Doomed)' <= Count(Doomed) + 1 /\ Count(ServeBehind)' <= Count(ServeBehind) + (-1)
          /\ ProviderDebt' <= ProviderDebt + 0
      BY <2>1, <3>1 DEF Count, ProviderDebt
    <3>3. 0 + 0 + 1 + (-1) + 0 <= 2 * 0 + 0
      OBVIOUS
    <3> QED BY <1>2, <1>4, <3>2, <3>3, WithinBudget
  <2> QED BY <2>2, <2>3
<1>7. CASE who = Provider
  <2>1. provider = "reinstall" /\ ProviderDebt = 2
    BY <1>1, <1>7, OwnersDiffer DEF Waiting, ProviderDebt, Holds
  <2>2. CASE cur = None
    <3>1. ~Doomed' /\ ProviderDebt' = ProviderDebt
      BY <1>1, <2>1, <2>2 DEF Doomed, ProviderDebt, Holds
    <3>2. ServeBehind' => ServeBehind
      BY <1>1, <2>2 DEF ServeBehind
    <3> QED BY <1>1, <1>3, <3>1, <3>2, NothingSpent
  <2>3. CASE cur # None
    <3>1. ProviderDebt' = 1
      BY <1>1, <1>7, <2>1, <2>3 DEF ProviderDebt, Holds
    <3>2. Count(Doomed)' <= Count(Doomed) + 1 /\ ProviderDebt' <= ProviderDebt + (-1)
      BY <2>1, <3>1 DEF Count
    <3>3. 0 + 0 + 1 + 0 + (-1) <= 2 * 0 + 0
      OBVIOUS
    <3> QED BY <1>2, <1>4, <1>5, <3>2, <3>3, WithinBudget
  <2> QED BY <2>2, <2>3
<1>8. ASSUME NEW g \in Sessions, who = ControlLoop(g), ctl[g] = "reinstall" PROVE BudgetInv'
  <2>1. g \in Unspent /\ ProviderDebt' = ProviderDebt
    BY <1>1, <1>8, OwnersDiffer DEF Unspent, Holds, ProviderDebt, ServeInv
  <2>2. CASE g = cur \/ cur = None
    <3>1. Doomed' => Doomed
      BY <1>1, <1>8, <2>2, SessionsAreNumbers DEF Doomed
    <3>2. ServeBehind' => ServeBehind
      BY <1>1 DEF ServeBehind, Holds
    <3> QED BY <1>1, <1>3, <2>1, <3>1, <3>2, NothingSpent
  <2>3. CASE g # cur /\ cur # None
    <3>1. Unspent' \subseteq Unspent \ {g}
      BY <1>1, <1>3, <1>8, <2>3 DEF Unspent, Holds
    <3>2. Cardinality(Unspent') <= Cardinality(Unspent) + (-1)
      <4>1. IsFiniteSet(Unspent \ {g}) /\ Cardinality(Unspent \ {g}) = Cardinality(Unspent) - 1
        BY <2>1, OpenedIsFinite, FS_RemoveElement
      <4>2. Cardinality(Unspent') <= Cardinality(Unspent \ {g})
        BY <3>1, <4>1, FS_Subset
      <4> QED BY <4>1, <4>2, OpenedIsFinite
    <3>3. Count(Doomed)' <= Count(Doomed) + 1 /\ ProviderDebt' <= ProviderDebt + 0
      BY <2>1 DEF Count, ProviderDebt
    <3>4. 0 + (-1) + 1 + 0 + 0 <= 2 * 0 + 0
      OBVIOUS
    <3> QED BY <1>2, <1>5, <3>2, <3>3, <3>4, WithinBudget
  <2> QED BY <2>2, <2>3
<1> QED BY <1>1, <1>6, <1>7, <1>8 DEF Waiting

LEMMA BudgetRelease ==
  ASSUME TypeOK, TypeOK', LinkInv, ServeInv, MutexInv, BudgetInv, SwapRefused \/ SwapFinish
  PROVE  BudgetInv'
<1>1. /\ mutex.phase # "free" /\ Released(mutex.by) /\ UNCHANGED <<made, cur, at, opened, faults>>
      /\ \A g \in Sessions : sess'[g] = sess[g] \/ (g # cur /\ sess'[g] = "shut")
      /\ mutex.phase = "closed" => mutex.dead # None /\ mutex.dead # cur
      /\ mutex.phase \in {"closed", "swapped"}
  <2>1. CASE SwapRefused
    BY <2>1 DEF SwapRefused, StaleReinstall, linkVars, logVars
  <2>2. CASE SwapFinish
    <3>1. /\ mutex.phase = "swapped" /\ Released(mutex.by) /\ UNCHANGED <<made, cur, at, opened, faults>>
          /\ sess' = [g \in Sessions |-> IF g = mutex.old THEN "shut" ELSE sess[g]]
      BY <2>2 DEF SwapFinish
    <3> QED BY <3>1, SessionsAreNumbers DEF LinkInv
  <2> QED BY <2>1, <2>2
<1>2. cur = None \/ cur \in Sessions
  BY DEF TypeOK
<1>3. mutex'.phase = "free" /\ \A who : ~Holds(who)'
  BY <1>1, ReleasedCaller DEF Free, Holds
<1>4. CASE serve = "reinstall" /\ serve' = "top" /\ mutex.by = Serve /\ UNCHANGED <<provider, ctl>>
  <2>1. Doomed' => Doomed
    BY <1>1, <1>2, <1>4 DEF Doomed
  <2>2. Unspent' \subseteq Unspent /\ ~ServeBehind' /\ ProviderDebt' = ProviderDebt
    BY <1>1, <1>3, <1>4, OwnersDiffer DEF Unspent, Holds, ServeBehind, ProviderDebt
  <2> QED BY <1>1, <2>1, <2>2, NothingSpent
<1>5. CASE provider = "reinstall" /\ provider' = "idle" /\ mutex.by = Provider /\ UNCHANGED <<serve, ctl>>
  <2>1. Doomed' => Doomed
    BY <1>1, <1>2, <1>5 DEF Doomed
  <2>2. Unspent' \subseteq Unspent /\ (ServeBehind' => ServeBehind)
    BY <1>1, <1>3, <1>5, OwnersDiffer DEF Unspent, Holds, ServeBehind
  <2>3. ProviderDebt' = 0 /\ ProviderDebt \in Nat
    BY <1>5 DEF ProviderDebt
  <2>4. /\ made' = made + 0 /\ faults' = faults + 0 /\ Cardinality(opened') = Cardinality(opened) + 0
        /\ Cardinality(Unspent') <= Cardinality(Unspent) + 0
    BY <1>1, <2>2, BoundsAssumption, OpenedIsFinite, FS_Subset, SessionsAreNumbers DEF TypeOK
  <2>5. Count(Doomed)' <= Count(Doomed) + 0 /\ Count(ServeBehind)' <= Count(ServeBehind) + 0
        /\ ProviderDebt' <= ProviderDebt + 0
    BY <2>1, <2>2, <2>3 DEF Count
  <2> QED BY <2>4, <2>5, WithinBudget
<1>6. ASSUME NEW g \in Sessions, ctl[g] = "reinstall", ctl' = [ctl EXCEPT ![g] = "off"],
             mutex.by = ControlLoop(g), UNCHANGED <<serve, provider>>
      PROVE  BudgetInv'
  <2>1. Doomed' => Doomed
    BY <1>1, <1>2, <1>6 DEF Doomed, TypeOK
  <2>2. \A h \in Sessions \ {g} : ~Holds(ControlLoop(h))
    BY <1>6, OwnersDiffer DEF Holds
  <2>3. Unspent' \subseteq Unspent
    BY <1>1, <1>3, <1>6, <2>2 DEF Unspent, TypeOK
  <2>4. (ServeBehind' => ServeBehind) /\ ProviderDebt' = ProviderDebt
    BY <1>1, <1>3, <1>6, OwnersDiffer DEF ServeBehind, ProviderDebt, Holds
  <2> QED BY <1>1, <2>1, <2>3, <2>4, NothingSpent
<1> QED BY <1>1, <1>4, <1>5, <1>6, ReleasedCaller

LEMMA BudgetSwap ==
  ASSUME TypeOK, TypeOK', LinkInv, ServeInv, MutexInv, BudgetInv, Swap
  PROVE  BudgetInv'
<1>1. /\ mutex.phase = "closed" /\ (mutex.dead = None \/ mutex.dead = cur)
      /\ mutex'.phase = "swapped" /\ mutex'.by = mutex.by
      /\ made' = made + 1 /\ cur' = made + 1 /\ sess' = [sess EXCEPT ![made + 1] = "open"]
      /\ UNCHANGED <<serve, at, ctl, provider, opened, faults>>
  BY DEF Swap, StaleReinstall, TypeOK, logVars
<1>2. made \in Nat /\ made + 1 \in Sessions /\ made + 1 # at /\ made + 1 \notin opened
      /\ ctl[made + 1] = "none"
  BY <1>1, SessionsAreNumbers DEF TypeOK, LinkInv, ServeInv
<1>3. ~Doomed'
  BY <1>1, <1>2 DEF Doomed, TypeOK
<1>4. cur # None => Doomed
  BY <1>1 DEF Doomed, LinkInv
<1>5. Unspent' \subseteq Unspent
  BY <1>1, <1>2 DEF Unspent, Holds
<1>6. Cardinality(Unspent') <= Cardinality(Unspent) + 0
  BY <1>5, OpenedIsFinite, FS_Subset
<1>7. made' = made + 1 /\ faults' = faults + 0 /\ Cardinality(opened') = Cardinality(opened) + 0
  BY <1>1, BoundsAssumption, OpenedIsFinite DEF TypeOK
<1>8. CASE mutex.by = Serve
  <2>1. at # None /\ mutex.dead = at /\ cur # None
    BY <1>1, <1>8, OwnersDiffer DEF MutexInv, Waiting, ServeInv
  <2>2. ~ServeBehind' /\ ProviderDebt' = ProviderDebt
    BY <1>1, <1>8, OwnersDiffer DEF ServeBehind, ProviderDebt, Holds
  <2>3. Count(Doomed)' <= Count(Doomed) + (-1) /\ Count(ServeBehind)' <= Count(ServeBehind) + 0
        /\ ProviderDebt' <= ProviderDebt + 0
    BY <1>3, <1>4, <2>1, <2>2 DEF Count, ProviderDebt
  <2>4. 1 + 0 + (-1) + 0 + 0 <= 2 * 0 + 0
    OBVIOUS
  <2> QED BY <1>6, <1>7, <2>3, <2>4, WithinBudget
<1>9. CASE mutex.by = Provider
  <2>1. provider = "reinstall" /\ ProviderDebt' = 0 /\ ProviderDebt = (IF cur = None THEN 2 ELSE 1)
    BY <1>1, <1>9, OwnersDiffer DEF MutexInv, Waiting, ProviderDebt, Holds
  <2>2. Count(ServeBehind)' <= Count(ServeBehind) + 1
    BY DEF Count
  <2>3. CASE cur = None
    <3>1. Count(Doomed)' <= Count(Doomed) + 0 /\ ProviderDebt' <= ProviderDebt + (-2)
      BY <1>3, <2>1, <2>3 DEF Count
    <3>2. 1 + 0 + 0 + 1 + (-2) <= 2 * 0 + 0
      OBVIOUS
    <3> QED BY <1>6, <1>7, <2>2, <3>1, <3>2, WithinBudget
  <2>4. CASE cur # None
    <3>1. Count(Doomed)' <= Count(Doomed) + (-1) /\ ProviderDebt' <= ProviderDebt + (-1)
      BY <1>3, <1>4, <2>1, <2>4 DEF Count
    <3>2. 1 + 0 + (-1) + 1 + (-1) <= 2 * 0 + 0
      OBVIOUS
    <3> QED BY <1>6, <1>7, <2>2, <3>1, <3>2, WithinBudget
  <2> QED BY <2>3, <2>4
<1>10. ASSUME NEW g \in Sessions, mutex.by = ControlLoop(g), ctl[g] = "reinstall" PROVE BudgetInv'
  <2>1. cur = g /\ cur # None
    BY <1>1, <1>10, SessionsAreNumbers DEF MutexInv
  <2>2. g \in Unspent /\ ProviderDebt' = ProviderDebt
    BY <1>1, <1>10, <2>1, OwnersDiffer DEF Unspent, Holds, ProviderDebt, ServeInv
  <2>3. Unspent' \subseteq Unspent \ {g}
    BY <1>1, <1>5, <1>10 DEF Unspent, Holds
  <2>4. Cardinality(Unspent') <= Cardinality(Unspent) + (-1)
    <3>1. IsFiniteSet(Unspent \ {g}) /\ Cardinality(Unspent \ {g}) = Cardinality(Unspent) - 1
      BY <2>2, OpenedIsFinite, FS_RemoveElement
    <3>2. Cardinality(Unspent') <= Cardinality(Unspent \ {g})
      BY <2>3, <3>1, FS_Subset
    <3> QED BY <3>1, <3>2, OpenedIsFinite
  <2>5. Count(Doomed)' <= Count(Doomed) + (-1) /\ Count(ServeBehind)' <= Count(ServeBehind) + 1
        /\ ProviderDebt' <= ProviderDebt + 0
    BY <1>3, <1>4, <2>1, <2>2 DEF Count, ProviderDebt
  <2>6. 1 + (-1) + (-1) + 1 + 0 <= 2 * 0 + 0
    OBVIOUS
  <2> QED BY <1>7, <2>4, <2>5, <2>6, WithinBudget
<1> QED BY <1>1, <1>8, <1>9, <1>10 DEF MutexInv, Waiting

LEMMA BudgetEnd ==
  ASSUME TypeOK, TypeOK', LinkInv, BudgetInv,
         \/ CtxCloseSession \/ ShutdownCloseSession \/ Cancel \/ RunReturns \/ UNCHANGED vars
         \/ \E c \in Closers : CloseTaken(c)
  PROVE  BudgetInv'
<1>1. CASE CtxCloseSession \/ ShutdownCloseSession
  <2>1. cur' = None /\ UNCHANGED <<made, sess, serve, at, ctl, provider, mutex, opened, faults>>
    BY <1>1 DEF CtxCloseSession, ShutdownCloseSession, TakeSession, logVars
  <2>2. Unspent' \subseteq Unspent /\ ~Doomed' /\ ~ServeBehind'
    BY <2>1, SessionsAreNumbers DEF Unspent, Doomed, ServeBehind, Holds, TypeOK
  <2>3. Cardinality(Unspent') <= Cardinality(Unspent) + 0
    BY <2>2, OpenedIsFinite, FS_Subset
  <2>4. made' = made + 0 /\ faults' = faults + 0 /\ Cardinality(opened') = Cardinality(opened) + 0
    BY <2>1, BoundsAssumption, OpenedIsFinite, SessionsAreNumbers DEF TypeOK
  <2>5. Count(ServeBehind)' <= Count(ServeBehind) + 0
    BY <2>2 DEF Count
  <2>6. CASE ProviderDebt' = ProviderDebt
    BY <2>1, <2>2, <2>6, NothingSpent
  <2>7. CASE ProviderDebt' # ProviderDebt
    <3>1. cur # None /\ mutex.phase = "closed" /\ ProviderDebt = 1 /\ ProviderDebt' = 2
      BY <2>1, <2>7 DEF ProviderDebt, Holds, TypeOK
    <3>2. Doomed
      BY <3>1 DEF Doomed, LinkInv
    <3>3. Count(Doomed)' <= Count(Doomed) + (-1) /\ ProviderDebt' <= ProviderDebt + 1
      BY <2>2, <3>1, <3>2 DEF Count
    <3>4. 0 + 0 + (-1) + 0 + 1 <= 2 * 0 + 0
      OBVIOUS
    <3> QED BY <2>3, <2>4, <2>5, <3>3, <3>4, WithinBudget
  <2> QED BY <2>6, <2>7
<1>2. CASE Cancel \/ RunReturns \/ UNCHANGED vars
  <2>1. UNCHANGED <<made, cur, sess, serve, at, ctl, provider, mutex, opened, faults>>
    BY <1>2 DEF Cancel, RunReturns, vars, linkVars, logVars
  <2> QED BY <2>1, NothingSpent DEF Unspent, Doomed, ServeBehind, ProviderDebt, Holds
<1>3. ASSUME NEW c \in Closers, CloseTaken(c) PROVE BudgetInv'
  <2>1. /\ \A g \in Sessions : sess'[g] = sess[g] \/ g # cur
        /\ UNCHANGED <<made, cur, serve, at, ctl, provider, mutex, opened, faults>>
    BY <1>3, SessionsAreNumbers DEF CloseTaken, LinkInv, TypeOK
  <2>2. Doomed' => Doomed
    BY <2>1 DEF Doomed, TypeOK
  <2> QED BY <2>1, <2>2, NothingSpent DEF Unspent, ServeBehind, ProviderDebt, Holds
<1> QED BY <1>1, <1>2, <1>3

-----------------------------------------------------------------------------
(***************************************************************************)
(* The theorems.                                                           *)
(***************************************************************************)

LEMMA InvInit == Init => Inv
<1> SUFFICES ASSUME Init PROVE Inv
  OBVIOUS
<1>1. TypeOK
  BY TypeInit
<1>2. LinkInv /\ NoSessionLeaks /\ ServeInv /\ MutexInv /\ EndInv
  BY SessionsAreNumbers DEF Init, LinkInv, NoSessionLeaks, ServeInv, MutexInv, EndInv, Free, Idle,
     Closers
<1>3. \A p \in Places : Carries(p) = None
  BY DEF Init, Places, Carries, Closers, Free, Idle
<1>4. ReportInv
  BY <1>3 DEF Init, ReportInv, CallbacksPair
<1>5. Unspent = {} /\ ProviderDebt = 0 /\ ~Doomed /\ ~ServeBehind /\ Cardinality(opened) = 0
  BY SessionsAreNumbers, FS_EmptySet DEF Init, Unspent, ProviderDebt, Doomed, ServeBehind
<1>6. BudgetInv
  BY <1>5, FS_EmptySet DEF Init, BudgetInv, Debt, Count
<1> QED BY <1>1, <1>2, <1>4, <1>6 DEF Inv

LEMMA InvStep == Inv /\ [Next]_vars => Inv'
<1> SUFFICES ASSUME Inv, [Next]_vars PROVE Inv'
  OBVIOUS
<1>0. TypeOK /\ LinkInv /\ NoSessionLeaks /\ ServeInv /\ MutexInv /\ EndInv /\ ReportInv /\ BudgetInv
  BY DEF Inv
<1>1. TypeOK'
  BY <1>0, TypeStep
<1>2. LinkInv' /\ NoSessionLeaks' /\ ServeInv' /\ MutexInv' /\ EndInv' /\ ReportInv'
  BY <1>0, <1>1, LinkStep, ServeStepInv, MutexStep, EndStepInv, ReportStep
<1>3. BudgetInv'
  BY <1>0, <1>1, Steps, BudgetServe, BudgetNetwork, BudgetStart, BudgetRelease, BudgetSwap, BudgetEnd
<1> QED BY <1>1, <1>2, <1>3 DEF Inv

\* The strengthening is an invariant of every instance.
THEOREM SingleInvariance == Spec => []Inv
  BY InvInit, InvStep, PTL DEF Spec

\* The variables keep their types.
THEOREM SingleTypeCorrect == Spec => []TypeOK
<1>1. Inv => TypeOK
  BY DEF Inv
<1> QED BY <1>1, SingleInvariance, PTL

\* However the callers of reinstallSession race, no smux session is leaked and a failure
\* costs at most two sessions, a handshake one (link.go, swapSession and staleReinstall).
THEOREM SessionsStayAccounted == Spec => []SessionsAreAccounted
<1>1. Inv => SessionsAreAccounted
  <2> SUFFICES ASSUME Inv PROVE SessionsAreAccounted
    OBVIOUS
  <2>1. Cardinality(Unspent) \in Nat /\ Cardinality(opened) \in Nat /\ made \in Nat /\ faults \in Nat
    BY OpenedIsFinite, SessionsAreNumbers, BoundsAssumption DEF Inv, TypeOK
  <2>2. Count(Doomed) \in Nat /\ Count(ServeBehind) \in Nat /\ ProviderDebt \in Nat
    BY DEF Count, ProviderDebt
  <2>3. ReinstallsAreBounded
    BY <2>1, <2>2 DEF Inv, BudgetInv, Debt, ReinstallsAreBounded
  <2> QED BY <2>3 DEF Inv, SessionsAreAccounted
<1> QED BY <1>1, SingleInvariance, PTL

\* Every onOpen is answered by exactly one onClose by the time Run returns, although the
\* reinstall and the two closeSessions all report (link.go, swapSession and closeSession).
THEOREM OpensAreClosedOnce == Spec => []EveryOpenIsClosedOnce
<1>1. Inv => EveryOpenIsClosedOnce
  <2> SUFFICES ASSUME Inv PROVE EveryOpenIsClosedOnce
    OBVIOUS
  <2>1. CallbacksPair
    BY DEF Inv, ReportInv
  <2>2. ASSUME run = "returned", NEW g \in opened, closed[g] # 1
        PROVE  closers["ctx"].phase = "taken" /\ closers["ctx"].sid = g
    <3>1. PICK p \in Places : Carries(p) = g
      BY <2>2 DEF Inv, ReportInv
    <3>2. g # None
      BY SessionsAreNumbers DEF Inv, TypeOK
    <3>3. serve = "returned" /\ sid = None /\ closers["shutdown"].phase # "taken"
      BY <2>2 DEF Inv, EndInv
    <3>4. mutex.phase = "free"
      BY <2>2, <3>3 DEF Inv, EndInv, MutexInv, Waiting
    <3>5. p = "ctx"
      BY <3>1, <3>2, <3>3, <3>4 DEF Places, Carries, Closers
    <3> QED BY <3>1, <3>2, <3>5 DEF Carries
  <2> QED BY <2>1, <2>2 DEF EveryOpenIsClosedOnce, OpenedSessionsAreClosed
<1> QED BY <1>1, SingleInvariance, PTL
=============================================================================
