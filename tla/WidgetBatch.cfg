\* Bounds: two runs of the seed, one request, two grids.
SPECIFICATION Spec
CONSTANTS
    r1 = r1
    r2 = r2
    d1 = d1
    d2 = d2
    e1 = e1
    Student <- MCStudent
    Subject <- MCSubject
    Exam <- MCExam
    DemoExams <- MCDemoExams
    DemoValue <- MCDemoValue
    UserIdOf <- MCUserIdOf
    Grids <- MCGrids
    FirstGrid <- MCFirstGrid
    Known <- MCKnown
    Run <- MCRun
    DateOf <- MCDateOf
    ClassOf <- MCClassOf
    Parent <- MCParent
    Family <- MCFamily
    Changing <- MCChanging
    Inactive <- MCInactive
    Teaches <- MCTeaches
    Requests <- MCRequests
    MaxScore <- MCMaxScore
    Number <- MCNumber
    Scale <- MCScale
    ToNumber <- MCToNumber
    Plus <- MCPlus
    Top <- MCTop
    Error <- MCError
SYMMETRY Runs
INVARIANTS
    TypeOK
    SeedWhole
    SummaryMatchesTable
    ShownWasPublished
    OnlyRelatedChildren
    FailuresIsolated
    RanksCompete
PROPERTIES
    DemoStable
CHECK_DEADLOCK FALSE
