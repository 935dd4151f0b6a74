SPECIFICATION Spec
CONSTANTS
    ann = ann
    bob = bob
    noOne = noOne
    annsAddress = annsAddress
    ingest = ingest
    booking = booking
    stranger = stranger
    noMail = noMail
    Users <- MCUsers
    NoOne <- noOne
    Addresses <- MCAddresses
    IngestAddress <- ingest
    Mails <- MCMails
    NoMail <- noMail
    Posts <- MCPosts
    Letter <- MCLetter
    RequireDKIM = TRUE
    Pastes <- MCPastes
    Seeds <- MCSeeds
    Zone <- MCZone
    Timetable <- MCTimetable
    MaxFailures = 1
    MaxStops = 1
    MaxEdits = 1
    MaxPastes = 1
    MaxEvents = 2
INVARIANTS
    IngestTypeOK
    FlightsAccounted
    FiledOnce
    ReplacedIsCancelled
PROPERTIES
    PlacedBest
    EventuallyOut
CHECK_DEADLOCK FALSE
