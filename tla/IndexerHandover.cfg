SPECIFICATION FairSpec
CONSTANTS
    w1 = w1
    w2 = w2
    p1 = p1
    p2 = p2
    Workers = {w1, w2}
    Partitions = {p1}
    Log <- OnePartition
    BatchSize = 2
    MaxRetries = 1
    SpillDir = TRUE
    MaxFaults = 1
INVARIANTS
    ReaderCovered
PROPERTIES
    ImplementsAtLeastOnce
    EventuallyCommitted
