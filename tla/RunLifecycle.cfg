SPECIFICATION Spec
CONSTANTS
    Threads = {1, 2}
    Scenes <- MCScenes
INVARIANTS
    OneRunAtATime
    
    StopIsFinal
    ProbeIsStoppable
    FailoverIsFair
PROPERTIES
    StopsComplete
CHECK_DEADLOCK FALSE
