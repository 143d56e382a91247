SPECIFICATION StoreSpec
CONSTANTS
    d1 = d1
    u1 = u1
    Devices = {d1}
    Users = {u1}
    Parent <- MCParent
    Certs = {c1}
    Keys = {k1}
    UUIDs = {x1}
    None = None
    UniqueUUID = FALSE
    MaxQueued = 2
INVARIANTS FamilyConsistent OpenOnlyWhenLive OneOpenPerKey
PROPERTY RecordsFinal
CHECK_DEADLOCK FALSE
