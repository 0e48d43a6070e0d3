CONSTANTS
    Reader = {r1}
    Flusher = fl
    Other = {o}
    File = {fa, fb}
    Db = db
    Fd = {3, 4, 5}
    PointBytes = 2
    PerAlloc = 2
    MaxBatch = 3
    MaxPoints = 3
    MaxReads = 1
    MaxCuts = 1
SPECIFICATION Spec
INVARIANTS OpenIsHeld FilesWhole ReadsOwnFile VectorFits
