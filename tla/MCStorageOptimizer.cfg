CONSTANTS
    Batch <- MCBatch
    ReadRange <- MCRange
    BufferSize = {1, 4}
    Listed <- MCListed
    OptPoints = 2
    MinDense = 2
    MaxPadding = 1
    MaxGap = 1
    MaxFlushes = 2
    MaxReads = 1
    MaxCrashes = 1
SPECIFICATION Spec
INVARIANTS DeliveredApart VersionsGiven  DenseReadsBack FileHoldsWritten FailsOnlyInRace
CHECK_DEADLOCK FALSE
