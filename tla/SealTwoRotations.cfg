SPECIFICATION Spec
CONSTANTS
    A = A
    B = B
    C = C
    Roots <- MCRoots
    NoKey = NoKey
    Absent = Absent
    Plain = Plain
    Histories <- MCTwoRotations
    NumColumns = 2
    NumRows = 3
    Batch = 2
INVARIANT RecordedKeyOpensAll
