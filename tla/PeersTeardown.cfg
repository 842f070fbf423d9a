SPECIFICATION FairSpec
CONSTANTS
    PeerIDs = {i1}
    Peers = {p1}
    MaxPeerSessions = 1
    HasControlPlane = TRUE
    Faults = {"cancel", "reconnect"}
    NoPeer = NoPeer
    NoID = NoID
    i1 = i1
    p1 = p1
INVARIANTS
    NothingOutlivesRun
PROPERTIES
    HandshakeIsBounded
    ShutdownCompletes
CHECK_DEADLOCK FALSE
