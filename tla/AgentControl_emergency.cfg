SPECIFICATION Spec
CONSTANTS
    deploy = deploy
    provision = provision
    look = look
    wildcard = wildcard
    none = none
    a1 = a1
    dashboard = dashboard
    p1 = p1
    r1 = r1
    c1 = c1
    d1 = d1
    Plans = {p1}
    Runs = {r1}
    Cancels = {c1}
    Decisions = {d1}
    Steps = 2
    Capabilities = {deploy, provision, look}
    Registry <- MCRegistry
    Targets = {}
    Environments = {"staging"}
    Wildcard = wildcard
    NoTarget = none
    Procs = {dashboard}
    Admin = {a1}
    Ops <- EmergencyOps
    DefaultPermissions <- MCPermissions
    Kinds = {FALSE}
    MaxOperations = 1
    MaxTime = 1
    MaxLife = 1
    MaxExtension = 1
    MaxSpend = 1
    MaxBought = 2
    MaxCount = 1
    RunProc <- InDashboard
    Price = 1
CHECK_DEADLOCK FALSE
INVARIANT StopBound
INVARIANT PurchasesApproved
 
