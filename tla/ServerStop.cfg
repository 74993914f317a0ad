SPECIFICATION FairServerSpec
CONSTANTS
    Callers = {c1, c2}
    Workers = {w1, w2}
    CpuCount = 2
    ConfiguredCapacity = 2
    None = NoItem
CHECK_DEADLOCK FALSE
INVARIANTS
    DrainReported
PROPERTIES
    StopTerminates
    EveryTaskAnswered
