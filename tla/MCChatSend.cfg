CONSTANTS
    alice = alice
    bob = bob
    e1 = e1
    e2 = e2
    s1 = s1
    s2 = s2
    c1 = c1
    c2 = c2
    c3 = c3
    Null = Null
    Users <- TwoUsers
    Events = {e1, e2}
    Sockets = {s1, s2}
    UserOf <- Users2Of
    ClientIds = {c1, c2, c3}
    Existing = {e1}
    Sends = {1, 2, 3}
    Outbox <- SendOutbox
    Visits <- NoVisits
    PageLimit = 1
    MaxTime = 0
    MaxFaults = 2
SPECIFICATION FairSpec
INVARIANTS
    TypeOK
    OneMessagePerClientId
    AckNamesOwnMessage
    SentOnce
CHECK_DEADLOCK FALSE
PROPERTY MessageReachesRoom
