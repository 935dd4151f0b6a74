\* Ticks and sweeps beside any two of: a failing call, a crash, a request; liveness too.
CONSTANTS
    p1 = p1
    f1 = f1
    g1 = g1
    g2 = g2
    NoFrame = NoFrame
    NoGate = NoGate
    Parts <- MCParts
    Legs <- TwoLegs
    Out <- MCOut
    In <- ShortIn
    DepDelay <- MCDepDelay
    InTable <- MCInTable
    Created <- OpenOrOver
    Answers <- OneAnswer
    Frames = {f1}
    Gates = {g1, g2}
    Interval = 2
    IdleFactor = 2
    Lead = 1
    LateWindow = 3
    LateInterval = 3
    SweepInterval = 4
    Horizon = 4
    MaxTroubles = 2
SPECIFICATION FairSpec
INVARIANTS
    TypeOK
    AlertsBounded
    ChangesAnnounced
PROPERTIES
    FinalStatusKept
    UserCoordsKept
    ThrottleHonoured
    EventuallyFinal
CHECK_DEADLOCK FALSE
