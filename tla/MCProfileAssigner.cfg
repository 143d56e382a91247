SPECIFICATION LiveSpec
CONSTANTS
    s1 = s1  s2 = s2  p1 = p1  p2 = p2  w1 = w1  w2 = w2
    None = None
    Serials = {s1}
    Profiles = {p1, p2}
    Workers = {w1, w2}
    Batch = 2
    MaxOps = 2
INVARIANTS NoBlindResubmit SuccessHeld CooldownRespected
PROPERTIES AssignmentConverges
CHECK_DEADLOCK FALSE
