SPECIFICATION StoreSpec
CONSTANTS
    c1 = c1
    c2 = c2
    c3 = c3
    o1 = o1
    k1 = k1
    k2 = k2
    k3 = k3
    Challenges <- MCChallenges
    Origins <- MCOrigins
    Origin <- MCOrigin
    Amount <- MCAmount
    Total <- MCTotal
    Keys <- MCKeys
    Policies <- MCPolicies
    Procs = {p1}
    DayLength = 2
    StaleAfter = 0
    MaxTime = 2
    NoRow = NoRow
SYMMETRY KeysAlike
INVARIANTS StoreTypeOK OneRowPerKey DailyCapHolds ReceiptIffSettled
PROPERTY RowsOnlyAdvance
