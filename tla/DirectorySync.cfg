\* Bounds: two overlapping runs, three changes in EduPlus.
SPECIFICATION Spec
CONSTANTS
    r1 = r1
    r2 = r2
    s1 = s1
    s2 = s2
    c1 = c1
    Run <- MCRun
    Record <- MCRecord
    KindOf <- MCKindOf
    PageOf <- MCPageOf
    Visible <- MCVisible
    EntityTypes <- MCEntityTypes
    Initial <- MCInitial
    Says <- MCSays
INVARIANTS
    TypeOK
    MirrorsUpstream
    FreshWhenAlone
PROPERTIES
    BackOnlyUnderOverlap
    RunsEnd
CHECK_DEADLOCK FALSE
