SPECIFICATION LogSpec
CONSTANTS
    Short = Short
    Long = Long
    Old = Old
    Records = {Short, Long}
    Size <- MCSize
    MaxRecords = 2
    StoreKeys = {Old}
    Rings <- OneKey
    NoFile = NoFile
    Closed = Closed
    Creating = Creating
    WriteFailures = TRUE
    ZeroFill = FALSE
INVARIANT SyncedSurvive
