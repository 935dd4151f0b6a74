\* One request, and a browser that fetches once at a time.
CONSTANTS
    ann = ann
    bob = bob
    root = root
    t1 = t1
    t2 = t2
    p1 = p1
    p2 = p2
    NoOne = NoOne
    NoTrip = NoTrip
    Users <- MCUsers
    Superusers = {root}
    ShowAll = {}
    Trips <- MCTrips
    Plans <- MCPlans
    PassengerLists <- MCLists
    Rules <- MCRules
    Seeds <- OneSeed
    MaxRequests = 1
    MaxFailures = 0
    MaxFetches = 1
SPECIFICATION ClientSpec

INVARIANTS ViewStaysLive
CHECK_DEADLOCK FALSE
