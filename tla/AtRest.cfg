SPECIFICATION MCSpec
CONSTANTS
    Starts = {s1, s2, s3, s4}
    MasterKeys = {m1, m2}
    RootKeys = {r1, r2, r3}
    None = None
    Unwritten = Unwritten
    Setups <- MCSetups
    Short = Short
    Long = Long
    Old = Old
    New = New
    Records = {Short, Long}
    MaxRecords = 3
    Size <- MCSizes
    StoreKeys = {Old, New}
    Rings <- Rotation
    NoFile = NoFile
    Closed = Closed
    Creating = Creating
    WriteFailures = FALSE
    ZeroFill = FALSE
    Sealers = {p1}
    Idle = Idle
    NoEntry = NoEntry
    InitialUnits = 2
    MaxAppends = 0
    MaxFiles = 4
    ChunkSizes = {1, 2, 3, 4, 5}
    TagLength = 2
    MaxLength = 12
    Unreadable = Unreadable
    Refused = Refused
    Roots = {R1, R2}
    Stores = {S1, S2}
    Labels = {l1, l2}
    Contexts = {x1, x2}
    MaxLabels = 2
    Words = {"", "word"}
    Procs = {q1, q2}
    NumRows = 3
    Batch = 2
    MaxWrites = 1
    Absent = Absent
SYMMETRY MCSymmetry
INVARIANTS KeysKept LogKept Intact AnsweredSealed FormatExact OpensExactly SharedSafe
PROPERTY ImplementsRecordLog
CHECK_DEADLOCK FALSE
