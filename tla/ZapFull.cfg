\* Two writers, two log files, one crash and restart: every interleaving.
\* With compression a message takes up to one byte more than its length.
SPECIFICATION SafetySpec
CONSTANTS
    m1 = m1
    m2 = m2
    m3 = m3
    Main = main
    NoMsg = NoMsg
    NoChunk = NoChunk
    NoFile = NoFile
    Writer = {w1, w2}
    Msg = {m1, m2, m3}
    MsgLen <- ShortLen
    Capacity = 3
    Mode = "deflate"
    Overhead = 1
    FileLimit = 2
    MaxFile = 2
    MaxCrash = 1
SYMMETRY Sym
INVARIANTS
    TypeOK
    OnlyKnownLosses
    NoDuplicate
    HeaderAtBoundary
    StreamCutOnlyWhenFull
CHECK_DEADLOCK FALSE
