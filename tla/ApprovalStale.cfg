SPECIFICATION Spec
CONSTANTS
    Windows = {w1, w2}
    small = small
    large = large
    Payments <- MCPayments
    Amount <- MCAmount
    Policies <- MCPolicies
    Default <- MCDefault
    None = None
    AnswersLost = FALSE
INVARIANT AboveThresholdReviewed
