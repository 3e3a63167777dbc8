\* Two crashes and one daemon, no system call fails.
SPECIFICATION SafetySpec
CONSTANTS
    Thread = {main, t1}
    Main = main
    Sig = {abrt, segv}
    Abrt = abrt
    OldDfl = {segv}
    MaxLife = 1
    MaxConn = 2
    MaxTids = 1
    Backlog = 1
    MaxFault = 0
    Folder = {TRUE}
    NoConn = NoConn
INVARIANT
    CallbackHasReport
CHECK_DEADLOCK FALSE
