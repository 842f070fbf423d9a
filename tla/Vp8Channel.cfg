SPECIFICATION Spec
CONSTANTS
    c1 = c1
    c2 = c2
    r1 = r1
    r2 = r2
    r3 = r3
    maxPeers = 2
    batchSize = 2
    Scenes <- MCScenes
SYMMETRY ReaderSymmetry
INVARIANTS
    TableIsSound
    
    PlanesAgree
    NoStrandedRuntime
CHECK_DEADLOCK FALSE
