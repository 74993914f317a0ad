SPECIFICATION FairSpec
CONSTANTS
    Servers = {s1, s2}
    Importers = {i1, i2}
    Seeds = 2
    Cases = 2
    MaxStarts = 3
    MaxFaults = 1
    MaxEdits = 1
    None = None
INVARIANTS
    OneInstance
    DatabaseWhole
PROPERTIES
    NothingOverwritten
    StartEnds
CHECK_DEADLOCK FALSE
