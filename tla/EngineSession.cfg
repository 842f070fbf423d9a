SPECIFICATION Spec
CONSTANTS
    maxAttempts = 2
    slowFailures = 2
    Scenes <- MCScenes
INVARIANTS
    
    RepairIsUnderWay
    
PROPERTIES
    NothingHangs
CHECK_DEADLOCK FALSE
