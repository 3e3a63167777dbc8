\* Two threads that may throw and three activities.
SPECIFICATION Spec
CONSTANTS
    Thread = {main, t1}
    Main = main
    Activity = {a1, a2, a3}
    MaxActivityNum = 2
    Garbled = Garbled
INVARIANTS
    ReportBeforeKill
    GuardWhileInUse
    ForegroundIsTrue
PROPERTY
    CrashEndsProcess
CHECK_DEADLOCK FALSE
