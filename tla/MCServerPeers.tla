---------------------------- MODULE MCServerPeers ----------------------------
\* Instances of ServerPeers for TLC.
EXTENDS ServerPeers, TLC

\* Peer IDs and peerSession objects are interchangeable (safety runs only).
PeerSymmetry == Permutations(PeerIDs) \cup Permutations(Peers)

=============================================================================
