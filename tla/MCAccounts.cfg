SPECIFICATION Spec
CONSTANTS
    alice = alice
    bob = bob
    carol = carol
    p1 = p1
    p2 = p2
    c1 = c1
    c2 = c2
    Null = Null
    Nicknames = {alice, bob, carol}
    Passwords = {p1, p2}
    Codes = {c1, c2}
    AffiliationCodes = {c1}
    Pool <- MCPool
    InitialUsers <- MCInitialUsers
    Requests = {1, 2, 3, 4}
    Inbox <- MCInbox
    AccessTTL = 2
    RefreshTTL = 3
    MaxTime = 3
    MaxFaults = 1
INVARIANTS TypeOK UniqueNicknames SignupAnswersMatch SuggestionHonest SessionNeedsLogin
CHECK_DEADLOCK FALSE
