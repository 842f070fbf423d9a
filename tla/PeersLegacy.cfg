SPECIFICATION Spec
CONSTANTS
    PeerIDs = {i1, i2}
    Peers = {p1, p2}
    MaxPeerSessions = 2
    HasControlPlane = FALSE
    Faults = {"cancel", "reconnect"}
    NoPeer = NoPeer
    NoID = NoID
    i1 = i1
    i2 = i2
    p1 = p1
    p2 = p2
SYMMETRY PeerSymmetry
INVARIANTS
    PeersAreAccounted
CHECK_DEADLOCK FALSE
