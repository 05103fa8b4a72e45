SPECIFICATION FairSpec
CONSTANTS
    r1 = r1
    r2 = r2
    p1 = p1
    c1 = c1
    d1 = d1
    Plans <- OnePlan
    Runs <- TwoRuns
    Cancels <- OneCancel
    Decisions <- OneDecision
    Steps = 2
CHECK_DEADLOCK FALSE
INVARIANT NothingRunsUnapproved
INVARIANT SucceededRanAll
 
 
PROPERTY RunsFinish
