SPECIFICATION FairSpec
CONSTANTS
    old = old
    recent = recent
    blank = blank
    lost = lost
    Docs = {old, recent, blank, lost}
    Kind <- FourKinds
    Live = {recent}
    Repeated = {recent}
    PageSize = 2
    ScrollRetries = 1
    ConflictRetries = 1
    DlqPercent = 50
    MaxFaults = 2
INVARIANTS
    TypeOK
    SuccessCovers
    HiddenOnlyByTika
PROPERTIES
    FieldsKept
    RerunsEnd
