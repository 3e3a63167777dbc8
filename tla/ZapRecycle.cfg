\* Two threads log while a third recycles, twice.
SPECIFICATION Spec
CONSTANTS
    Recycler = main
    NoMsg = NoMsg
    NoChunk = NoChunk
    NoOwner = NoOwner
    Writer = {w1, w2}
    Msg = {m1, m2, m3}
    Capacity = 1
    MaxRecycle = 2
INVARIANTS
    FreedExactlyOnce
    RecycledIsWritten
PROPERTIES
    WritersReturn
CHECK_DEADLOCK FALSE
