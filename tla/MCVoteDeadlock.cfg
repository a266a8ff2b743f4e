CONSTANTS
    alice = alice
    bob = bob
    carol = carol
    e1 = e1
    e2 = e2
    e3 = e3
    Null = Null
    Users <- TwoUsers
    Events = {e1, e2, e3}
    Requests = {1, 2, 3, 4}
    Inbox <- ProgressInbox
    InitialEvents <- ProgressEvents
    InitialVoteToken = 2
    MaxDuration = 1
    MaxTime = 0
    MaxFaults = 0
SPECIFICATION Spec
INVARIANTS
    SecondVoteIsRefused
