SPECIFICATION FairSpec
CONSTANTS
    i1 = i1
    w1 = w1
    w2 = w2
    pause = pause
    revoke = revoke
    Null = Null
    Intents = {i1}
    Watchers = {w1, w2}
    Calls = {pause, revoke}
    Asks <- MCAsks
    Scope <- MCScope
    MaxFaults = 1
PROPERTIES
    ClosedStaysClosed
    IntentsRest
CHECK_DEADLOCK FALSE
