SPECIFICATION Spec
CONSTANTS
    a = a
    b = b
    x = x
    Conns = {a, b}
    me = a
    IPs = {x}
    IPOf <- SameIP
    Settings <- TwoLimits
    i = i
    j = j
    Ids = {i, j}
    JobTimeouts = {1, 2}
    IdleTimeout = 2
    PendingMax = 0
    MaxAuth = 1
    MaxSubmits = 1
    Cap = 3
    MaxWire = 1
CHECK_DEADLOCK FALSE
SYMMETRY Symmetry
INVARIANTS
    SlotsExact
    DeadlineInForce
PROPERTIES
    StallIsReal
    AnswersCount
