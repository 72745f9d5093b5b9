SPECIFICATION FairSpec
CONSTANTS
    Erasers = {w1}
    Granters = {g1}
    Boot = Boot
    Nobody = Nobody
    MaxGrants = 2
INVARIANTS
    TypeOK
    MemoryMatchesDisk
    ErasedUntilWindowCloses
PROPERTIES
    NothingReappears
    MarkedEraseCompletes
