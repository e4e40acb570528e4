SPECIFICATION RuntimeSpec
CONSTANTS
    Socks = {s1}
    Clients = {c1, c2}
    MaxConnections = 1
    Threads = {t1, t2}
    Fibers = {f1, f2}
    Closable = {f1}
    Timed = {f2}
    MaxData = 1
    Callers = {r1}
    Ids = {i1}
    MaxQueue = 1
    MaxTaken = 1
INVARIANTS
    HoldFollowsPumps
    WokenOnce
    TimeoutIsReal
PROPERTIES
    DrainEnds
    TunnelEnds
    DataIsRead
    ReporterStops
CHECK_DEADLOCK FALSE
