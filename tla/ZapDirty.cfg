\* A crash and a restart: is what the buffer file holds written?
SPECIFICATION SafetySpec
CONSTANTS
    m1 = m1
    m2 = m2
    m3 = m3
    Main = main
    NoMsg = NoMsg
    NoChunk = NoChunk
    NoFile = NoFile
    Writer = {w1}
    Msg = {m1, m2, m3}
    MsgLen <- ShortLen
    Capacity = 3
    Mode = "plain"
    Overhead = 0
    FileLimit = 100
    MaxFile = 1
    MaxCrash = 1
PROPERTIES
    DirtyIsWritten
CHECK_DEADLOCK FALSE
