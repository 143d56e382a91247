SPECIFICATION FairService
CONSTANTS
    d1 = d1
    d2 = d2
    u1 = u1
    Devices = {d1}
    Users = {u1}
    Parent <- MCParent
    Certs = {c1}
    Keys = {}
    UUIDs = {x1}
    None = None
    UniqueUUID = TRUE
    MaxQueued = 1
    Requests = {r1}
    Kinds = {"Authenticate", "TokenUpdate", "CheckOut", "Connect",
             "SetBootstrapToken", "UserChallenge", "UserDigest"}
    Pinning = "enforce"
    RequireUserAuth = TRUE
PROPERTIES  NoReactivation AnswersOnlySent CommandSettles
CHECK_DEADLOCK FALSE
