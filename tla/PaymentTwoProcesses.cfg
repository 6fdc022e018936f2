SPECIFICATION Spec
CONSTANTS
    c1 = c1
    c2 = c2
    o1 = o1
    o2 = o2
    k1 = k1
    k2 = k2
    Challenges <- MCChallenges
    Origins <- MCOrigins
    Origin <- MCOrigin
    Amount <- MCAmount
    Total <- MCTotal
    Expiry <- MCExpiry
    Keys <- MCKeys
    Policies <- MCOnePolicy
    Procs = {p1, p2}
    Tokens = {t1, t2}
    Calls = {a1, a2}
    DayLength = 2
    StaleAfter = 0
    ApprovalTTL = 2
    MaxTime = 2
    NoRow = NoRow
    Fresh = Fresh
    Gone = Gone
    NoJob = NoJob
    Unread = Unread
INVARIANTS OneCredential
PROPERTY ImplementsGovernedSpending
SYMMETRY TwoProcessSymmetry
