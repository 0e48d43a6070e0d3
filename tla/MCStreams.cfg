CONSTANTS
    Unset = Unset
    NanosecondsPerTick <- MCNanosecondsPerTick
    Clock = 8
    MaxTime = 31
    Lines <- MCLines
    MaxLines = 3
    Requests <- MCRequests
    BufferSize = 1
    BatchSize = 1
SPECIFICATION Spec
INVARIANTS StoredIsGiven EndedMeansStored PrintedIsStored  SearchIsExact RangeIsMeant
