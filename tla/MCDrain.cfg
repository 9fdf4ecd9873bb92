SPECIFICATION MCFairSpec
CONSTANTS
    Sessions = {s1, s2}
    Pools = {p, q}
    First = p
    NoPool = NoPool
    MaxDrains = 2
CHECK_DEADLOCK FALSE
INVARIANTS
    DrainingIsReal
    DrainFinishes
    NobodyMissed
PROPERTIES
    OnlyLatest
    DrainEnds
    ShutdownEnds
