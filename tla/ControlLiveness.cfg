SPECIFICATION Spec
CONSTANTS
    Interval = 1
    Timeout = 2
    Failures = 2
    OutCap = 7
    StreamWindow = 1
    SeqMod = 7
    MayClose = TRUE
INVARIANTS
    DeathIsJustified
    SilenceIsNoticed
CHECK_DEADLOCK FALSE
