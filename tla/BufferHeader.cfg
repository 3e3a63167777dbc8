\* A size_t of two chars of four values: sizes wrap at 16.
SPECIFICATION Spec
CONSTANTS
    W = 2
    Word = 16
    Base = 4
    SizeBytes <- MCSizeBytes
    Magic = 3
    Path <- MCPath
    Limit = {6, 15}
    Capacity = {3, 4}
    Log <- MCLog
    CacheFile <- MCCacheFile
    FileSize = {0, 1, 5, 7, 8, 9, 10, 12, 14}
INVARIANTS
    AccessesInBounds
    MemoryReadsBack
CHECK_DEADLOCK FALSE
