SPECIFICATION FairSpec
CONSTANTS
    Registrations = {g1, g2}
    Changes = {c1, c2}
    Resets = {s1}
    RoleChanges = {r1, r2}
    AccountSpace = {a1}
    Nicknames = {n1, n2}
    InitialUsers = 2
    MaxAttempts = 2
    MaxRequests = 3
CHECK_DEADLOCK FALSE
INVARIANTS
    TransactionsIsolated
    AdminRemains
    OneChangePerPassword
PROPERTIES
    EveryRequestAnswered
