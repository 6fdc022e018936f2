SPECIFICATION Spec
CONSTANTS
    Requests = {r1, r2}
    Values = {v1, v2}
    Nothing = Nothing
    Waiting = Waiting
    Over = Over
    EnvKey = Nothing
    ReadsLost = FALSE
INVARIANT ReportedKeysKept
CHECK_DEADLOCK FALSE
