CONSTANTS
    Timestamp = {1, 2}
    NaN = NaN
    Garbage = Garbage
    MaxWrites = 1
    MaxLength = 3
    MaxReads = 0
    MaxCrashes = 0
SPECIFICATION Spec
INVARIANT AckedSurvives
CHECK_DEADLOCK FALSE
