CONSTANTS
    Ids = {1, 2, 3, 4}
    MaxStake = 3
    MaxTime = 1
SPECIFICATION Spec
INVARIANTS
    PayoutsExhaustPool
    PayoutsWithinQuota
    LeftoversFollowBets
CHECK_DEADLOCK FALSE
