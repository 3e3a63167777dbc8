\* Two writers and the main thread, messages shorter than the buffer, no
\* rollover, no crash, under the fairness of the scheduler.
SPECIFICATION Spec
CONSTANTS
    m1 = m1
    m2 = m2
    m3 = m3
    Main = main
    NoMsg = NoMsg
    NoChunk = NoChunk
    NoFile = NoFile
    Writer = {w1, w2}
    Msg = {m1, m2, m3}
    MsgLen <- ShortLen
    Capacity = 3
    Mode = "plain"
    Overhead = 0
    FileLimit = 100
    MaxFile = 1
    MaxCrash = 0
INVARIANTS
    ReturnedIsStored
    NoTruncation
PROPERTIES
    WriteReturns
    TakenReachesFile
CHECK_DEADLOCK FALSE
