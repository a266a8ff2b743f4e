CONSTANTS
    alice = alice
    bob = bob
    carol = carol
    e1 = e1
    e2 = e2
    e3 = e3
    Null = Null
    Users <- ThreeUsers
    Events = {e1}
    Requests = {1, 2, 3, 4, 5, 6}
    Inbox <- RaceInbox
    InitialEvents <- RaceEvents
    InitialVoteToken = 2
    MaxDuration = 2
    MaxTime = 0
    MaxFaults = 0
SPECIFICATION Spec
INVARIANTS
    TokensConserved
    CountersMatch
    ClaimsAgree
PROPERTIES
    PoolFrozenByResult
    RewardPaidOnce
    ImplementsLedger
