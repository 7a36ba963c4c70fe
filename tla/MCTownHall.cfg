SPECIFICATION FairSpec
CONSTANTS
    r1 = r1  r2 = r2  p1 = p1  p2 = p2
    Requests <- MCRequests
    Providers <- MCProviders
    NoProvider = NoProvider
    Scenes <- MCScenes
    Seats = 1
    RoomLimit = 1
    MaxOffers = 2
INVARIANTS TypeOK
PROPERTIES HallHolds RequestsEnd
CHECK_DEADLOCK FALSE
