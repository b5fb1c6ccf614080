SPECIFICATION Spec
CONSTANTS
    w1 = w1
    w2 = w2
    p1 = p1
    p2 = p2
    Workers = {w1, w2}
    Partitions = {p1, p2}
    Log <- TwoPartitions
    BatchSize = 2
    MaxRetries = 1
    SpillDir = FALSE
    MaxFaults = 2
SYMMETRY Symmetry
INVARIANTS
    TypeOK
    NoLoss
    UntrustedNeverIndexed
    OnlyPoisonDeadLettered
