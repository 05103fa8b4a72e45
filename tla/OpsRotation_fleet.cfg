SPECIFICATION Spec
CONSTANTS
    h1 = h1
    h2 = h2
    c1 = c1
    Hosts <- TwoHosts
    Callers <- OneCaller
    MaxKey = 3
    UserKey = TRUE
    Faults = {"blip", "crash", "crashMove", "cut", "force"}
CHECK_DEADLOCK FALSE
INVARIANT NoLockout
INVARIANT Settled
PROPERTY OwnKept
