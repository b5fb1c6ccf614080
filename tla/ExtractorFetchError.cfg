SPECIFICATION Spec
CONSTANTS
    p1 = p1
    p2 = p2
    Partitions = {p1}
    Log <- TwoMessages
    BatchSize = 2
    MaxAttempts = 1
    MaxRetries = 0
    SpillDir = TRUE
    MaxFaults = 0
    MaxFetchErrors = 1
INVARIANTS
    NoLoss
