SPECIFICATION Spec
CONSTANTS
    Senders = {a, b, c}
    Threads = {t1, t2}
    MaxCounter = 3
    replayWindowSize = 2
    maxReplaySenders = 2
SYMMETRY Symmetry
INVARIANTS
    CountersAreUnique
    WindowDecidesExactly
PROPERTIES
    CacheEvictsTheOldest
    ImplementsChannel
