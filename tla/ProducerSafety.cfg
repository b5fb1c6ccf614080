SPECIFICATION FairSpec
CONSTANTS
    r1 = r1
    r2 = r2
    Replicas = {r1, r2}
    NumShards = 2
    Poison <- SecondRow
    Batch = 2
    Broken = {2}
    Lag = 3
    MaxOpen = 1
    Skew = 1
    MaxRows = 3
    MaxNow = 4
    MaxFaults = 1
INVARIANTS
    TypeOK
    NothingSkipped
    LeaseKept
PROPERTIES
    CursorNeverBack
    ImplementsAtLeastOnce
    EventuallyProduced
