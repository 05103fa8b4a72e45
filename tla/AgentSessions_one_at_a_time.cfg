SPECIFICATION Spec
CONSTANTS
    deploy = deploy
    provision = provision
    h1 = h1
    wildcard = wildcard
    none = none
    c1 = c1
    dashboard = dashboard
    Capabilities <- TwoCapabilities
    Registry <- MCRegistry
    Targets <- OneTarget
    Environments <- Staging
    Wildcard = wildcard
    NoTarget = none
    DefaultPermissions <- MCPermissions
    Kinds <- BothKinds
    MaxOperations = 2
    MaxTime = 2
    MaxLife = 1
    MaxExtension = 2
    MaxSpend = 2
    MaxBought = 4
    MaxCount = 1
    Procs <- OneProc
    Calls <- OneCall
    Ops <- AllOps
CHECK_DEADLOCK FALSE
INVARIANT TakenStaysOut
INVARIANT DebitBeforePurchase
INVARIANT StopAllEndsSession
INVARIANT StopPersists
PROPERTY BookedWithinCap
