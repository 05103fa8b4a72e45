SPECIFICATION LockFairSpec
CONSTANTS
    c1 = c1
    Unit = unit
    Disablers <- OneCaller
    Mishaps <- AllFaults
 
INVARIANT ReportsAreTrue
 
 
