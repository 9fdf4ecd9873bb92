SPECIFICATION FairSpec
CONSTANTS
    h = h
    t = t
    o = o
    Pools = {h, t}
    ECash = {t}
    Profit = {h}
    NoPool = NoPool
    Period = 2
    Duration = 1
    minStint = 1
    Marks <- AllMarks
    Modes <- AllModes
    Chains <- AllChains
    DiskFails = TRUE
    MaxTime = 2
    MaxEdits = 1
    MaxCrashes = 1
CHECK_DEADLOCK FALSE
PROPERTIES
    RolesRestored
    TurnedOff
