\* Two spawns that begin at the same time.
SPECIFICATION FairProgramsSpec
CONSTANTS
    Jobs = {j1, j2}
    Readers = {j1, j2}
    MaxOutput = 0
CHECK_DEADLOCK FALSE
PROPERTIES
    EverySpawnEnds
