SPECIFICATION ServiceSpec
CONSTANTS
    d1 = d1
    d2 = d2
    u1 = u1
    Devices = {d1}
    Users = {u1}
    Parent <- MCParent
    Certs = {c1}
    Keys = {}
    UUIDs = {}
    None = None
    UniqueUUID = FALSE
    MaxQueued = 0
    Requests = {r1, r2}
    Kinds = {"Authenticate", "TokenUpdate", "CheckOut"}
    Pinning = "enforce"
    RequireUserAuth = FALSE
PROPERTY NoReactivation
CHECK_DEADLOCK FALSE
