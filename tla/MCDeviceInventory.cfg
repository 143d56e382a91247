SPECIFICATION LiveSpec
CONSTANTS
    s1 = s1  s2 = s2  w1 = w1  w2 = w2
    None = None
    Serials = {s1, s2}
    Workers = {w1, w2}
    PageSize = 1
    MaxChanges = 1
    MaxFaults = 1
INVARIANTS InventoryCurrent NothingForeign
PROPERTIES TombstonesJustified InventoryConverges
CHECK_DEADLOCK FALSE
