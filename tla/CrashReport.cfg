\* The limits are scaled down; of the last devices one fills the mapped file to
\* its last character and one overruns it.
SPECIFICATION Spec
CONSTANTS
    LogSize = 6
    PropSize = 5
    NameSize = 4
    CommSize = 3
    MaxFrames = 3
    MaxFds = 3
    TcpLimit = 2
    IcmpLimit = 1
    IntMax = 50
    LongMax = 80
    Capacity = 150
    MaxStart = 2
    Device <- MCDevice
    Char <- MCChar
    Nul <- NUL
    Contents <- DaemonCreateReport
INVARIANTS
    FileIsWholeReport
    HeadingsStartLines
    PartsInOrder
    CutListsSaySo
    SocketListsSaySo
CHECK_DEADLOCK FALSE
