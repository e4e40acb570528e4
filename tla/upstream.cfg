\* Two requests on one endpoint: trip, pause, probes, late results, pool; health checks.
SPECIFICATION MCSpec
CONSTANTS
    Requests = {r1, r2, r3}
    N = 1
    Conns = {1, 2}
    Checks = {k1, k2}
    None = 0
    MaxInflight = 2
    MaxIdle = 1
    IdleMs = 2
    Slows = {FALSE}
    HealthyNeed = 1
    UnhealthyNeed = 2
    MaxNow = 3
    MaxCalls = 3
    MaxFlip = 1
    Threshold = 2
    MinRequests = 1
    FailureRate = 50
    SlowRate = 0
    Buckets = 2
    Keep = 3
    OpenMs = 2
    MaxOpenMs = 3
    HalfOpenMax = 2
    HalfOpenOk = 1
INVARIANTS
    CountsExact
    ProbeIsFresh
    PoolSound
    BreakerSound
PROPERTIES
    KeepsPromise
    NotJammed
    HealthFollows
CHECK_DEADLOCK FALSE
