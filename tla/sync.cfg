\* Edits, an overflowing log, a restart, a drain, a fault; and a second connection.
SPECIFICATION PartsSpec
CONSTANTS
    Ids = {i1, i2}
    Rules <- MCRules
    Timed = {TRUE}
    NoRule = NoRule
    LogCap = 1
    MaxVer = 2
    Conns = {s1, s2}
    None = None
    MaxEpoch = 2
    MaxFault = 1
    MaxPing = 1
SYMMETRY MCSymmetry
INVARIANTS
    NotTorn
    AckedIsApplied
    SessionSound
    DeltaRebuilds
CHECK_DEADLOCK FALSE
