SPECIFICATION Spec
CONSTANTS
    Producers = {p1}
    Sync = Sync
    MaxQueue = 1
    MaxBatch = 1
    SmallQueue = 2
    LargeQueue = 2
    MaxRetries = 0
    RePrimeLimit = 1
    MaxUnsent = 2
    Width = 8
    MaxEvents = 2
    MaxRevokes = 1
PROPERTY ErasedIsPurged
