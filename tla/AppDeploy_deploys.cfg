SPECIFICATION Spec
CONSTANTS
    v1 = v1
    v2 = v2
    volume = volume
    secret = secret
    Null = Null
    Versions = {v1, v2}
    Data = {volume, secret}
    Needs <- NeedsDef
    Naked = TRUE
    MaxFaults = 2
INVARIANTS ClaimedFirst   
PROPERTIES DataKept
