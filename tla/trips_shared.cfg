\* Two requests and one failing call.
CONSTANTS
    ann = ann
    bob = bob
    root = root
    t1 = t1
    t2 = t2
    p1 = p1
    p2 = p2
    NoOne = NoOne
    NoTrip = NoTrip
    Users <- MCUsers
    Superusers = {root}
    ShowAll = {}
    Trips <- MCTrips
    Plans <- MCPlans
    PassengerLists <- MCLists
    Rules <- MCRules
    Seeds <- MCSeeds
    MaxRequests = 2
    MaxFailures = 1
SPECIFICATION Spec
INVARIANTS TypeOK NothingDangles ViewersAreTold EveryoneTold
PROPERTIES PassengersKeepRole SightGranted
CHECK_DEADLOCK FALSE
