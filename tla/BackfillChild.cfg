SPECIFICATION Spec
CONSTANTS
    Tables = 1
    Log <- WithChild
    BatchSize = 2
    MaxFaults = 0
INVARIANT GateBalances
