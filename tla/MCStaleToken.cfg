SPECIFICATION ServiceSpec
CONSTANTS
    d1 = d1
    d2 = d2
    u1 = u1
    Devices = {d1}
    Users = {u1}
    Parent <- MCParent
    Certs = {c1, c2}
    Keys = {}
    UUIDs = {}
    None = None
    UniqueUUID = FALSE
    MaxQueued = 0
    Requests = {r1, r2}
    Kinds = {"Authenticate", "TokenUpdate"}
    Pinning = "enforce"
    RequireUserAuth = FALSE
INVARIANT TokensUnderCurrentIdentity
CHECK_DEADLOCK FALSE
