SPECIFICATION Spec
CONSTANTS
    d1 = d1
    c1 = c1
    c2 = c2
    m1 = m1
    m2 = m2
    m3 = m3
    h1 = h1
    h2 = h2
    n1 = n1
    Null = Null
    Devices = {d1}
    Commands = {c1, c2}
    Messages = {m1, m2, m3}
    Handlers = {h1, h2}
    Nonces = {n1}
    Signer <- SignerDef
    Nonce <- NonceDef
    Carries <- CarriesDef
    AdminOnly = {c2}
    Roles = {"approver"}
    MayExpire = {c1}
    MaxFaults = 1
INVARIANTS ReservedIsOwned
PROPERTIES ExecutionProtocol RevokedRunsNothing
SYMMETRY Symmetry
