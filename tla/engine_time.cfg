\* Two callers, a longer clock: expiry, renewal, overtaken reports, restarts.
SPECIFICATION Spec
CONSTANTS
    admin = admin
    waf = waf
    c1 = c1
    c2 = c2
    Callers = {c1, c2}
    Ids = {waf}
    SrcOf <- MCSrcOf
    Acts = {"ALLOW", "DENY"}
    Reasons = {w1}
    Reports = {k1, k2, k3}
    Anon = Anon
    NoRule = NoRule
    None = None
    Ttls = {1, 2}
    MinTtls = {2}
    TimeMax = 4
    CoolMs = 2
    SeenMax = 2
    LogCap = 1
    Batch = 2
    MaxNow = 2
    MaxVer = 2
    MaxFail = 0
    MaxCrash = 1
SYMMETRY MCSymmetry
INVARIANTS
    TimedRulesTracked
PROPERTIES
    SweepRemovesOnlyDue
    CoolingRemembered
    ImplementsHub
