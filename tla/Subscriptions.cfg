CONSTANTS
    d1 = d1
    d2 = d2
    d3 = d3
    d4 = d4
    t1 = t1
    t2 = t2
    one = one
    two = two
    clientA = clientA
    clientB = clientB
    s1 = s1
    s2 = s2
    s3 = s3
    None = None
    Delivery <- MCDelivery
    Code <- MCCode
    Events <- MCEvents
SPECIFICATION Spec
SYMMETRY Symmetry
INVARIANT TypeOK
INVARIANT AppliedOnce
INVARIANT TenantsHaveCredentials
PROPERTY UnrecordedOnlyOnClash
PROPERTY LogSpec
CHECK_DEADLOCK FALSE
