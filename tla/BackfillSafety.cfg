SPECIFICATION FairSpec
CONSTANTS
    Tables = 2
    Log <- TwoTables
    BatchSize = 4
    MaxFaults = 4
INVARIANTS
    TypeOK
    SpillRecovers
    GateBalances
PROPERTIES
    ImplementsAtLeastOnce
    EventuallyDone
