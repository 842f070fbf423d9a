SPECIFICATION FairSpec
CONSTANTS
    Handlers = {h1, h2}
    MaxSocksConns = 1
    ProviderAttempts = 3
    FallbackAttempts = 1
    ProviderAnswers = TRUE
    MayCancel = TRUE
    MaxFaults = 2
    h1 = h1
    h2 = h2
INVARIANTS
    LinkIsWhole
    NoMissedReady
    SocksConnsAreBounded

    
CHECK_DEADLOCK FALSE
