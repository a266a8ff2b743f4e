CONSTANTS
    alice = alice
    bob = bob
    e1 = e1
    e2 = e2
    s1 = s1
    s2 = s2
    c1 = c1
    c2 = c2
    c3 = c3
    Null = Null
    Users <- TwoUsers
    Events = {e1}
    Sockets = {s2}
    UserOf <- BobOf
    ClientIds = {c1, c2, c3}
    Existing = {e1}
    Sends = {1, 2, 3}
    Outbox <- HistoryOutbox
    Visits <- BobVisits
    PageLimit = 1
    MaxTime = 1
    MaxFaults = 1
SPECIFICATION Spec
INVARIANTS
    PagesInOrder
    HistoryComplete
    JoinedReaderMissesNothing
    TotalCountCoversPages
CHECK_DEADLOCK FALSE
