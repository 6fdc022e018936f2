SPECIFICATION FairSpec
CONSTANTS
    A = A
    B = B
    C = C
    Roots <- MCRoots
    NoKey = NoKey
    Absent = Absent
    Plain = Plain
    Histories <- MCHistories
    NumColumns = 2
    NumRows = 3
    Batch = 2
INVARIANTS SealTypeOK PlaintextSealedOnOpen ScrubRemembered RecordedKeyOpensAll
PROPERTIES NoPlaintextAfterSealing OpenEnds
