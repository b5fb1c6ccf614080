SPECIFICATION Spec
CONSTANTS
    old = old
    recent = recent
    blank = blank
    lost = lost
    Docs = {old}
    Kind <- FourKinds
    Live = {}
    Repeated = {}
    PageSize = 1
    ScrollRetries = 0
    ConflictRetries = 0
    DlqPercent = 100
    MaxFaults = 1
INVARIANT NoTimeoutHides
