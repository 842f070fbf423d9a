SPECIFICATION FairSpec
CONSTANTS
    Kinds = {"sei", "video"}
    Frags = 2
    MaxAttempts = 2
    MaxRecent = 1
    DataCap = 1
    AckCap = 1
    InCap = 1
    AirCap = 1
    MaxMsgs <- MCMsgs
    MaxFaults = 1
    MaxLosses = 2
INVARIANTS
    StreamIsSound
PROPERTIES
    ImplementsChannel
    
    WritesReturn
CHECK_DEADLOCK FALSE
