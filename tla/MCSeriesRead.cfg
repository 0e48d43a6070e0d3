CONSTANTS
    Timestamp = {1, 2, 3}
    Forever = 4
    MaxPoints = 3
    OptPoints = 1
    MaxFlushes = 2
    MaxBatch = 2
    MaxCrashes = 1
    ReadSpace = 1
    MaxReads = 1
SPECIFICATION ReadSpec
INVARIANTS ResultInOrder   
PROPERTY ReadEnds
CHECK_DEADLOCK FALSE
