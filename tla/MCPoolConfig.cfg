SPECIFICATION Spec
CONSTANTS
    PoolIds = {p1, p2, p3}
    Names = {n1, n2, n3}
    Settings = {s1, s2}
    Inputs <- SomeInputs
    None = None
    MaxCrashes = 1
SYMMETRY Symmetry
INVARIANTS
    TypeOK
    CheckNeverFails
    RoundTrip
    ChainKept
    MarksConsistent
    Durable
PROPERTY
    ImplementsRoles
