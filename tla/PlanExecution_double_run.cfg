SPECIFICATION Spec
CONSTANTS
    r1 = r1
    r2 = r2
    p1 = p1
    c1 = c1
    d1 = d1
    Plans <- OnePlan
    Runs <- TwoRuns
    Cancels <- OneCancel
    Decisions <- OneDecision
    Steps = 2
INVARIANT OneRunPerApproval
CHECK_DEADLOCK FALSE
