CONSTANTS
    Events = {e1, e2, e3}
    Workers = {w1, w2}
    Closers = {c1, c2}
    Capacity = 2
    NoEvent = NoEvent
SPECIFICATION FairSpec
INVARIANTS Accounting FifoRing NoLostWakeup CloseContract
PROPERTIES EventSettles CloseTerminates
