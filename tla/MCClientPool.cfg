SPECIFICATION Spec
CONSTANTS
    N = 3
    Callers = {c1, c2}
    Shorts = {s1}
    MaxCalls = 3
SYMMETRY MCSymmetry
CHECK_DEADLOCK FALSE
INVARIANTS
    PoolTypeOK
    BoundTabsAreReal
    LoadIsExact
PROPERTIES
    AllFailedMeansAll
