\* Bounds: three logins, two refreshes; MaxTokens cuts nothing off.
SPECIFICATION Spec
CONSTANTS
    l1 = l1
    l2 = l2
    l3 = l3
    q1 = q1
    q2 = q2
    x1 = x1
    x2 = x2
    c1 = c1
    c2 = c2
    c3 = c3
    Login <- MCLogin
    Refresh <- MCRefresh
    StudentRow <- MCStudentRow
    Code <- MCCode
    CodeOf <- MCCodeOf
    ViaHandoff <- MCViaHandoff
    Claims <- MCClaims
    MaxTokens = 3
INVARIANTS
    TypeOK
    TokenKept
PROPERTIES
    BoundToDirectory
    EndedStaysEnded
CHECK_DEADLOCK FALSE
