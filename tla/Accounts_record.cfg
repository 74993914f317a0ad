\* A registration and a transaction on one connection.
SPECIFICATION Spec
CONSTANTS
    Registrations = {g1, g2}
    Changes = {c1}
    Resets = {}
    RoleChanges = {}
    AccountSpace = {a1, a2}
    Nicknames = {n1, n2}
    InitialUsers = 1
    MaxAttempts = 2
    MaxRequests = 3
CHECK_DEADLOCK FALSE
INVARIANTS
    RecordsKept
