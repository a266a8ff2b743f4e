CONSTANTS
    alice = alice
    bob = bob
    carol = carol
    e1 = e1
    e2 = e2
    office = office
    shop = shop
    Null = Null
    Users <- MCUsers
    Events = {e1, e2}
    Ids = {1, 2, 3}
    InitialVoteToken = 31
    InitialRows <- MCInitialRows
    Rows <- MCRows
    Votes <- MCVotes
    AffiliationOf <- MCAffiliationOf
    MaxTime = 1
SPECIFICATION Spec
INVARIANTS
    StatsCoverTotals
    RatiosAddUp
PROPERTIES
    EarnedIsCredited
    ClaimedIsFinal
CHECK_DEADLOCK FALSE
