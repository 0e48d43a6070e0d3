CONSTANTS
    Timestamp = {1, 2}
    NaN = NaN
    Garbage = Garbage
    MaxWrites = 2
    MaxLength = 2
    MaxReads = 1
    MaxCrashes = 1
SPECIFICATION FairSpec
INVARIANTS AckedOrExposed NewPointsRead
 
CHECK_DEADLOCK FALSE
