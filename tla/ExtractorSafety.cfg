SPECIFICATION FairSpec
CONSTANTS
    p1 = p1
    p2 = p2
    Partitions = {p1, p2}
    Log <- TwoPartitions
    BatchSize = 2
    MaxAttempts = 2
    MaxRetries = 0
    SpillDir = TRUE
    MaxFaults = 1
    MaxFetchErrors = 1
INVARIANTS
    TypeOK
    LostOnlyByFetchError
    ReaderCovered
PROPERTIES
    ImplementsAtLeastOnce
    EventuallyCommitted
