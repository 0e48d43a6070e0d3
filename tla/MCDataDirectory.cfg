CONSTANTS
    Timestamp = {1, 2, 3}
    Forever = 3
    MaxPoints = 3
    OptPoints = 1
    MaxFlushes = 4
    MaxBatch = 2
    MaxCrashes = 1
SPECIFICATION FairSpec
INVARIANTS FilesInOrder  FlushedStays 
PROPERTY FlushEnds
CHECK_DEADLOCK FALSE
