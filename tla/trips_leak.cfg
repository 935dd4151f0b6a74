\* A request beside the poller.
CONSTANTS
    ann = ann
    bob = bob
    root = root
    t1 = t1
    t2 = t2
    p1 = p1
    p2 = p2
    NoOne = NoOne
    NoTrip = NoTrip
    Users <- MCUsers
    Superusers = {root}
    ShowAll = {}
    Trips <- MCTrips
    Plans <- MCPlans
    PassengerLists <- MCLists
    Rules <- MCRules
    Seeds <- MCSeeds
    MaxRequests = 1
    MaxFailures = 0
SPECIFICATION Spec

INVARIANTS PartEventsScoped
CHECK_DEADLOCK FALSE
