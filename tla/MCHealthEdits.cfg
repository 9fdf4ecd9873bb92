SPECIFICATION Spec
CONSTANTS
    Addrs = {a}
    Creds = {c, d}
    Spellings = {x}
    Workers = {v, w}
    Absent = Absent
    MaxVersion = 2
    MaxLive = 1
SYMMETRY Symmetry
INVARIANTS
    Hysteresis
    StallHolds
PROPERTIES
    NoStaleVerdict
    ActivationFresh
