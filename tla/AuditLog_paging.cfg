SPECIFICATION LogSpec
CONSTANTS
    s1 = s1
    s2 = s2
    a1 = a1
    a2 = a2
    Sessions <- TwoSessions
    Appenders <- TwoAppenders
    PageSize = 2
    MaxEvents = 5
CHECK_DEADLOCK FALSE
 
INVARIANT ChainedToEarlier
INVARIANT PagesAreExact
