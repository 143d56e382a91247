SPECIFICATION SettledSpec
CONSTANTS
    d1 = d1  u1 = u1  i1 = i1  c1 = c1  c2 = c2  s1 = s1
    None = None
    Enrollments = {d1}
    Parent <- UserOfDevice
    Identifiers = {i1}
    Contents = {c1, c2}
    Sets = {s1}
    Batch = 1
    MaxOps = 3
PROPERTIES DeclarationsConverge
CHECK_DEADLOCK FALSE
