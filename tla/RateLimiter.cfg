SPECIFICATION LimiterSpec
CONSTANTS
    Logins = {l1, l2}
    Keys = {k1, k2}
    MaxFailures = 2
    Window = 3
    Second = 2
    SweepInterval = 2
    MaxTime = 5
    MaxLogins = 5
    None = None
SYMMETRY LoginSymmetry
INVARIANTS
    WindowBound
PROPERTIES
    RefusalIsFair
CHECK_DEADLOCK FALSE
