\* Two threads and two starts of the application, one fault.
SPECIFICATION SafetySpec
CONSTANTS
    Thread = {main, t1}
    Main = main
    Sig = {abrt, segv}
    Abrt = abrt
    OldDfl = {segv}
    MaxLife = 2
    MaxConn = 1
    MaxTids = 1
    Backlog = 1
    MaxFault = 1
    Folder = {TRUE}
    NoConn = NoConn
INVARIANTS
    ContextOutlivesThread
    ThreadsReleased
    FrozenWhileDumped
    FailedInitRestores
PROPERTIES
    ImplementsService
CHECK_DEADLOCK FALSE
