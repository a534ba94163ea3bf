CONSTANTS
    r1 = r1
    r2 = r2
    r3 = r3
    r4 = r4
    r5 = r5
    First = First
    Req <- MCReq
SPECIFICATION Spec
SYMMETRY Symmetry
INVARIANT TypeOK
INVARIANT NotStranded
PROPERTY LoserNeverOverwrites
PROPERTY UnusableStaysUnusable
CHECK_DEADLOCK FALSE
