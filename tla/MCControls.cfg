SPECIFICATION ControlsFairSpec
CONSTANTS
    u1 = u1
    u2 = u2
    a = a
    b = b
    m1 = m1
    m2 = m2
    p = p
    q = q
    Users = {u1, u2}
    Tokens = {a, b}
    BotOf <- TwoMessages
    Pools = {p, q}
    Modes = {"off", "on"}
    Start <- AtP
    Taps <- TapsOf
    Offered <- Buttons
    Life = 1
    MaxTaps = 3
    MaxInbox = 2
    MaxFaults = 1
INVARIANTS
    Once
PROPERTIES
    Sanctioned
    Dealt
CHECK_DEADLOCK FALSE
