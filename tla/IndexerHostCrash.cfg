SPECIFICATION HostCrashSpec
CONSTANTS
    w1 = w1
    p1 = p1
    Workers = {w1}
    Partitions = {p1}
    Log <- OnePoison
    BatchSize = 1
    MaxRetries = 0
    SpillDir = TRUE
    MaxFaults = 1
INVARIANT NoLoss
