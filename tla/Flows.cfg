SPECIFICATION MCSpec
CONSTANTS
    Windows = {w1, w2}
    small = small
    large = large
    Payments <- MCPayments
    Amount <- MCAmount
    Policies <- MCPolicies
    Default <- MCDefault
    None = None
    AnswersLost = TRUE
    Origins = {o1, o2}
    MAX_REDIRECTS = 3
    MaxSaves = 2
    Processes = {p1, p2}
    Keys = {k1}
    MaxTime = 2
    Nil = Nil
    NoLocation = NoLocation
    MaxCalls = 2
    Listings = {l1, l2}
    NoList = NoList
    CACHE_TTL = 2
    Limit = 1
    MaxNow = 4
    NoVersion = NoVersion
    InTree <- MCInTree
    Bumps <- MCBumps
    ForeignTags <- MCForeign
    MaxDay = 2
    MaxRuns = 3
    MaxTags = 3
    N = 4
    Sizes = {1, 2, 4}
    BatchSize = 3
    BatchBytes = 3
    Attempts = 2
    GroupSize = 3
    HighlightLimit = 2
    MaxHighlights = 2
INVARIANTS
    ReviewsHold RedirectsSafe ReplaySafe CacheIsRecent VersionsOrdered NotesComplete
PROPERTIES BusyEnds FetchEnds
CHECK_DEADLOCK FALSE
