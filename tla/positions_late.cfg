\* A late flight whose fixes are all its own.
CONSTANTS
    ann = ann
    bob = bob
    booked = booked
    flown = flown
    unknown = unknown
    NoFrame <- unknown
    Callers <- MCCallers
    Schedules <- OnlyFlown
    Actual <- flown
    TTL = 2
    LastDay = 2
    MaxAsks = 2
    MaxAmends = 1
    Out = 1
    In = 6
    Lead = 1
    Dest = 15
    Elsewhere <- MCElsewhere
    MaxSpeed = 5
    Delays = {3}
    Lags = {0}
    TrackLimit = 2
    Located <- MCLocated
    Horizon = 7
    MaxFaults = 0
SPECIFICATION DataSpec
PROPERTIES
    TrueFixKept
CHECK_DEADLOCK FALSE
