SPECIFICATION Spec
CONSTANTS
    Contents <- AnyAmongPlain
    Table <- TwoTables
    Late = {3}
    Retained = {1, 3}
    Limits = {1, 3}
    MaxHistory = 2
    MaxFaults = 1
INVARIANTS
    TypeOK
    RoutesAgree
    NeverFailOpen
    SampleStands
    ExactWhenQuiet
