\* Lookups through the cache, then a flight's positions, with a stray fix and a failing query.
CONSTANTS
    ann = ann
    bob = bob
    booked = booked
    flown = flown
    unknown = unknown
    NoFrame <- unknown
    Callers <- MCCallers
    Schedules <- MCSchedules
    Actual <- flown
    TTL = 2
    LastDay = 2
    MaxAsks = 2
    MaxAmends = 1
    Out = 1
    In = 4
    Lead = 1
    Dest = 9
    Elsewhere <- MCElsewhere
    MaxSpeed = 5
    Delays = {1}
    Lags = {0, 1}
    TrackLimit = 2
    Located <- MCLocated
    Horizon = 5
    MaxFaults = 1
SPECIFICATION DataSpec
INVARIANTS
    LookupTypeOK
    AnswersFresh
    PositionsTypeOK
    NearTruth
    EstimatesAdvance
PROPERTIES
    TrackReachesMarker
    NoTeleport
    PositionEachPoll
CHECK_DEADLOCK FALSE
