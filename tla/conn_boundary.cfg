SPECIFICATION GatewaySpec
CONSTANTS
    Scripts <- MCScripts
    MaxBody = 3
    MaxRequests = 2
    MaxTrailers = 1
    UriRelaxed = TRUE
    Lines <- MCLines
    MaxLines = 3
    Socks = {s1, s2}
    Clients = {c1, c2}
    MaxConnections = 1
    Callers = {r1, r2}
    Ids = {i1, i2}
    MaxQueue = 1
    MaxTaken = 1
    Producers = {p1, p2}
    Flushers = {p2}
    MaxLogs = 3
    Capacity = 2
    RingSize = 2
INVARIANT HeadsAtBoundary
CHECK_DEADLOCK FALSE
