CONSTANTS
    r1 = r1
    r2 = r2
    r3 = r3
    r4 = r4
    k1 = k1
    k2 = k2
    c1 = c1
    c2 = c2
    None = None
    Req <- MCReq
    Key <- MCKeys
    Code <- MCCodes
    SlowHandlers = TRUE
SPECIFICATION Spec
SYMMETRY Symmetry
INVARIANT TypeOK
INVARIANT RepliesMatchRequest
INVARIANT ExclusiveWithinLease
PROPERTY ReservationKept
CHECK_DEADLOCK FALSE
