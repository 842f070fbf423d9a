SPECIFICATION FairSpec
CONSTANTS
    MaxSessions = 9
    MaxFaults = 2
    MaxOpened = 2
    MayCancel = TRUE
INVARIANTS
    
    EveryOpenIsClosedOnce
PROPERTIES
    ServerSettles
CHECK_DEADLOCK FALSE
