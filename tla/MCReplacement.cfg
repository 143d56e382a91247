SPECIFICATION ReplacementSpec
CONSTANTS
    d1 = d1
    k1 = k1
    p1 = p1
    o1 = o1
    o2 = o2
    Devices = {d1}
    Users = {u1}
    Parent <- MCParent
    Certs = {o1, o2, k1}
    Candidates = {k1}
    PublicKeys = {p1}
    KeyOf <- MCKeyOf
    Keys = {}
    UUIDs = {}
    None = None
    UniqueUUID = FALSE
    MaxQueued = 0
    Methods = {"scep"}
    Requests = {r1}
    MaxAttempts = 2
SYMMETRY Interchangeable
INVARIANTS EvidenceChain 
PROPERTIES ImplementsReplacement
CHECK_DEADLOCK FALSE
