\* Under fairness the gateway ends up with the hub's rules.
SPECIFICATION LiveSpec
CONSTANTS
    Ids = {i1}
    Rules <- MCRules
    Timed = {TRUE}
    NoRule = NoRule
    LogCap = 1
    MaxVer = 2
    Conns = {s1}
    None = None
    MaxEpoch = 2
    MaxFault = 1
    MaxPing = 0
PROPERTIES
    Converges
CHECK_DEADLOCK FALSE
