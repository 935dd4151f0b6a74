\* What the comments say of the resolver quota.
CONSTANTS
    p1 = p1
    f1 = f1
    g1 = g1
    g2 = g2
    NoFrame = NoFrame
    NoGate = NoGate
    Parts <- MCParts
    Legs <- TwoLegs
    Out <- MCOut
    In <- MCIn
    DepDelay <- MCDepDelay
    InTable <- MCInTable
    Created <- IdentOnly
    Answers <- MCAnswers
    Frames = {f1}
    Gates = {g1, g2}
    Interval = 2
    IdleFactor = 2
    Lead = 1
    LateWindow = 3
    LateInterval = 3
    SweepInterval = 3
    Horizon = 5
    MaxTroubles = 0
SPECIFICATION Spec
PROPERTIES
    ResolverQuota
CHECK_DEADLOCK FALSE
