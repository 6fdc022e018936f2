SPECIFICATION MCSpec
CONSTANTS
    Requests = {r1, r2, r3}
    Values = {v1, v2, v3}
    Nothing = Nothing
    Waiting = Waiting
    Over = Over
    EnvKey = Nothing
    ReadsLost = TRUE
    Calls = {r1, r2, r3}
    Challenges = {ch1, ch2}
    SessionIds = {sid1, sid2}
    None = None
SYMMETRY MCSymmetry
INVARIANTS
    ChallengesRestOnCustody  KeptUnlessDrawnTwice CallsInSession OutcomeWasSaid
CHECK_DEADLOCK FALSE
