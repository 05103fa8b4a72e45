SPECIFICATION FairSpec
CONSTANTS
    c1 = c1
    c2 = c2
    d1 = d1
    d2 = d2
    NoDaemon = NoDaemon
    Calls <- TwoCalls
    Processes <- TwoProcesses
    Home <- InBoth
    Resident = {"api"}
    Daemons <- TwoDaemons
    Faults = {"kill", "slow", "window"}
CHECK_DEADLOCK FALSE
INVARIANT LockForgets
INVARIANT SessionStays
PROPERTY NoHijack
 
