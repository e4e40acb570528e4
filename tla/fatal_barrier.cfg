SPECIFICATION LogSpec
CONSTANTS
    Producers = {p1}
    Flushers = {p1}
    MaxLogs = 2
    Capacity = 2
    RingSize = 2
    p1 = p1
INVARIANT FatalBarrier
CHECK_DEADLOCK FALSE
