CONSTANTS
    Partitions = {p1}
    Records = 2
    Batch = 2
    MaxGen = 2
    Restoring = FALSE
    Owned = TRUE
SPECIFICATION FairSpec
CHECK_DEADLOCK FALSE
PROPERTIES
    StopEnds
