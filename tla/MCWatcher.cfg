SPECIFICATION FairSpec
CONSTANTS
    Pools = {"p", "s"}
    Registries <- SomeRegistries
    Blocks = 1
    Stale = 2
    Silence = 2
    Dead = 1
    MaxBlocks = 3
    MaxFaults = 2
    MaxSent = 1
INVARIANTS
    NeverUnderstated
PROPERTIES
    NoFalseAlarm
    Follows
CHECK_DEADLOCK FALSE
