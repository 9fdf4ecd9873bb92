SPECIFICATION Spec
CONSTANTS
    Sessions = {s1}
    Pools = {p, q, r}
    First = p
    NoPool = NoPool
    MaxDrains = 2
CHECK_DEADLOCK FALSE
INVARIANT
    SwitchReconnects
