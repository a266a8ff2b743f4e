CONSTANTS
    alice = alice
    bob = bob
    Null = Null
    Users <- MCUsers
    Events = {1, 2, 3}
    Ids = {1, 2}
    InitialVoteToken = 1
    InitialRows <- MCInitialRows
    InitialCreatedAt <- MCCreatedAt
    Rows <- MCRows
    Votes <- MCVotes
    Queries <- MCQueries
    PageLimit = 1
    MaxTime = 2
SPECIFICATION Spec
INVARIANTS
    ShownOnce
    ListComplete
PROPERTY
    SummaryAccounts
CHECK_DEADLOCK FALSE
