\* Batches smaller than the number of tasks, one waiting slot, three failures of
\* database calls; crashes and restarts are not bounded.
SPECIFICATION FairSpec
CONSTANTS
    Tasks = {t1, t2}
    Workers = {w1, w2}
    Capacity = 1
    BatchSize = 1
    MaxFaults = 3
    None = NoTask
INVARIANTS
    SettledOnce
    AnswersAreTrue
    StopSettles
PROPERTIES
    EventuallySettled
