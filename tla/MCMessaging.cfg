SPECIFICATION ChatSpec
CONSTANTS
    c1 = c1  c2 = c2  b1 = b1  b2 = b2  p1 = p1  k1 = k1  k2 = k2  s1 = s1  s2 = s2
    Contacts <- MCContacts
    Ticket = Ticket
    None = None
    References <- MCReferences
    By <- MCBy
    Bookings <- MCBookings
    Writers <- MCWriters
    Scenes <- MCScenes
    Capacities = {1, 2}
    MaxClock = 4
SYMMETRY Alike
INVARIANTS ChatTypeOK ThreadsInOrder
PROPERTIES DoneIsDone
CHECK_DEADLOCK FALSE
