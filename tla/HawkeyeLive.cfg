SPECIFICATION Spec
CONSTANTS
    Thread = {main, t1}
    Main = main
    Sig = {abrt, segv}
    Abrt = abrt
    OldDfl = {segv}
    MaxLife = 1
    MaxConn = 2
    MaxTids = 1
    Backlog = 1
    MaxFault = 1
    Folder = {TRUE}
    NoConn = NoConn
PROPERTIES
    CrashEnds
    StopReturnsUnlessStuck
CHECK_DEADLOCK FALSE
