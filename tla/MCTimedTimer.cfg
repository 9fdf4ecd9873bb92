SPECIFICATION Spec
CONSTANTS
    h = h
    t = t
    o = o
    Pools = {h, t}
    ECash = {t}
    Profit = {h, t}
    NoPool = NoPool
    Period = 4
    Duration = 2
    minStint = 1
    Marks <- TimerMarks
    Modes <- BothModes
    Chains <- TimerChains
    DiskFails = FALSE
    MaxTime = 4
    MaxEdits = 2
    MaxCrashes = 1
CHECK_DEADLOCK FALSE
INVARIANTS
    WayBackSaved
    StintsFit
PROPERTIES
    HandStands
