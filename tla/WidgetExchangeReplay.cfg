CONSTANTS
    r1 = r1
    r2 = r2
    r3 = r3
    r4 = r4
    k1 = k1
    k2 = k2
    c1 = c1
    c2 = c2
    None = None
    Req <- MCReq
    Key <- MCOneKey
    Code <- MCCodes
    SlowHandlers = FALSE
SPECIFICATION Spec
SYMMETRY SymmetryOneKey
PROPERTY ReplayKeptUntilStale
CHECK_DEADLOCK FALSE
