\* Four chunks, one of them without a FILE*.
SPECIFICATION Spec
CONSTANTS
    Chunk = {c1, c2, c3, n}
    NullFile = {n}
INVARIANTS
    NoSleepOnWork
    StopDrains
    WrittenOnce
PROPERTIES
    OvertakeOnlyInBatch
    AcceptedIsFlushed
    StopReturnsUnlessMissed
    ImplementsFlushQueue
CHECK_DEADLOCK FALSE
