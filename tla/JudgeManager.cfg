\* More callers than workers and waiting slots together; a configured
\* capacity of 0 counts as 1.
SPECIFICATION Spec
CONSTANTS
    Callers = {c1, c2, c3, c4}
    Workers = {w1, w2}
    CpuCount = 2
    ConfiguredCapacity = 0
    None = NoItem
SYMMETRY Symmetry
CHECK_DEADLOCK FALSE
INVARIANTS
    IInv
    NoOrphanedFuture
    StopReachesEveryTask
    HttpThreadBound
    OneHolder
PROPERTIES
    ImplementsScheduler
