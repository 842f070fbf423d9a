SPECIFICATION Spec
CONSTANTS
    Threads = {1}
    Scenes <- MCLegacy
INVARIANTS
    RunUsesItsMode
CHECK_DEADLOCK FALSE
