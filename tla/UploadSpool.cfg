SPECIFICATION FairSpec
CONSTANTS
    Producers = {p1}
    Sync = Sync
    MaxQueue = 1
    MaxBatch = 2
    SmallQueue = 2
    LargeQueue = 2
    MaxRetries = 1
    RePrimeLimit = 1
    MaxUnsent = 2
    Width = 8
    MaxEvents = 2
    MaxRevokes = 1
INVARIANTS
    TypeOK
    SentWasUploaded
    CounterSettles
PROPERTY UnsentIsSettled
