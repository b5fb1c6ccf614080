SPECIFICATION FairSpec
CONSTANTS
    Messages <- SixMessages
    Refused <- RefusedImage
    MaxBody = 6
    MaxFaults = 3
INVARIANTS
    TypeOK
    OkIsStored
    DeadForCause
    RequestsFit
    RetriesPaidFor
PROPERTIES
    ImplementsBulkOutcome
    EventuallySettled
