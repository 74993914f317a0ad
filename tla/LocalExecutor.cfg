SPECIFICATION FairSpec
CONSTANTS
    Jobs = {j1, j2}
    Readers = {j1}
    MaxOutput = 1
CHECK_DEADLOCK FALSE
INVARIANTS
    NothingLeftBehind
    ReportIsTrue
PROPERTIES
    SupervisionEnds
