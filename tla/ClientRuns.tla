----------------------------- MODULE ClientRuns -----------------------------
(***************************************************************************)
(* A run of the tunnel: client.RunWithAddress (or server.Run) under a      *)
(* context, from its launch to its return.  What happens inside is the     *)
(* subject of ClientLink and ServerPeers; here a run registers the         *)
(* built-in transports, opens its link, may report that it listens, and    *)
(* returns by itself or after its context is cancelled.                    *)
(*                                                                         *)
(* The owners of runs EXTEND this module: MobileRuntime and MobileCore     *)
(* (the Android application), Supervisor (the command-line program).       *)
(* RunLifecycle puts them side by side, one per behaviour.                 *)
(***************************************************************************)
EXTENDS Integers, Sequences, FiniteSets

CONSTANT Scenes     \* the owners to check and the bounds on what they do

VARIABLES
    scene,          \* the owner under check; never changes
    runs,           \* the runs launched so far
    registered      \* the factory the registry holds for "vp8channel"

kind == scene.kind
Modes == {"current", "legacy"}
Results == {"nil", "canceled", "error"}

NewRun(mode, phase, cancelled) ==
    [mode |-> mode, used |-> "none", phase |-> phase,
     ready |-> FALSE, cancelled |-> cancelled, result |-> "none"]

Active(k) == runs[k].phase # "returned"

\* client.New calls RegisterDefaults, which registers every built-in transport.
RunRegisters(k) ==
    /\ runs[k].phase = "launched"
    /\ runs' = [runs EXCEPT ![k].phase = "registered"]
    /\ registered' = "current"

\* bringUpLink: transport.New looks the factory up by name.
RunOpens(k) ==
    /\ runs[k].phase = "registered"
    /\ runs' = [runs EXCEPT ![k].phase = "open", ![k].used = registered]
    /\ UNCHANGED registered

\* The SOCKS listener is open and onReady is called, once, even when the
\* context has been cancelled meanwhile.
RunReady(k) ==
    /\ runs[k].phase = "open"
    /\ runs' = [runs EXCEPT ![k].phase = "ready", ![k].ready = TRUE]
    /\ UNCHANGED registered

\* Before it listens a run returns the error that kept it from listening;
\* afterwards it returns nil when its context or its link is over.  A server
\* may also return an error then.
ReturnValues(k) ==
    IF runs[k].ready THEN IF kind = "cli" THEN {"nil", "error"} ELSE {"nil"}
    ELSE {"error"} \cup (IF runs[k].cancelled THEN {"canceled"} ELSE {})

RunReturns(k) ==
    /\ Active(k)
    /\ \E result \in ReturnValues(k) :
         runs' = [runs EXCEPT ![k].phase = "returned", ![k].result = result]
    /\ UNCHANGED registered
=============================================================================
