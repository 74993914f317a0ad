SPECIFICATION ReadSpec
CONSTANTS
    Clients = {c1, c2}
    Boards = {b1}
    Users = {1, 2}
    Initial = Initial
    PageSize = 2
    MaxOrd = 2
    MaxSamples = 2
    Counts = {0, 2}
    Positions = {0, 2}
    MaxSettled = 1
    MaxId = 2
    MaxText = 3
    MaxTags = 2
    None = None
    Bad = Bad
    Lists = {l1}
    Details = {d1}
    Tags = {None}
    MaxPage = 2
    MaxBesides = 2
SYMMETRY RequestSymmetry
INVARIANTS
    TransactionEnds
    BoardConsistent
    ViewsAgree
    ReadersConsistent
PROPERTIES
    ImplementsCatalog
CHECK_DEADLOCK FALSE
