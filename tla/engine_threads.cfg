\* Two callers race through edits and flushes; one crash, one failing write.
SPECIFICATION FairSpec
CONSTANTS
    admin = admin
    waf = waf
    c1 = c1
    c2 = c2
    Callers = {c1, c2}
    Ids = {admin}
    SrcOf <- MCSrcOf
    Acts = {"DENY"}
    Reasons = {w1}
    Reports = {}
    Anon = Anon
    NoRule = NoRule
    None = None
    Ttls = {0, 1}
    MinTtls = {2}
    TimeMax = 3
    CoolMs = 2
    SeenMax = 1
    LogCap = 2
    Batch = 2
    MaxNow = 1
    MaxVer = 2
    MaxFail = 1
    MaxCrash = 1
INVARIANTS
    DbCatchesUp
    DurableEditSurvives
    QueueIsWatched
    ChangesAnnounced
PROPERTIES
    QueueDrains
    DueRulesLeave
