\* What a comment says of a crash in the middle of an alert: one failing call and one crash.
CONSTANTS
    p1 = p1
    f1 = f1
    g1 = g1
    g2 = g2
    NoFrame = NoFrame
    NoGate = NoGate
    Parts <- MCParts
    Legs <- TwoLegs
    Out <- MCOut
    In <- MCIn
    DepDelay <- MCDepDelay
    InTable <- MCInTable
    Created <- IdentOnly
    Answers <- OneAnswer
    Frames = {f1}
    Gates = {g1, g2}
    Interval = 2
    IdleFactor = 2
    Lead = 1
    LateWindow = 3
    LateInterval = 3
    SweepInterval = 3
    Horizon = 5
    MaxTroubles = 2
SPECIFICATION Spec
PROPERTIES
    CrashRealerts
CHECK_DEADLOCK FALSE
