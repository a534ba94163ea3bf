CONSTANTS
    r1 = r1
    r2 = r2
    r3 = r3
    r4 = r4
    e1 = e1
    teacher = teacher
    clerk = clerk
    pupil = pupil
    k1 = k1
    math = math
    art = art
    ann = ann
    bob = bob
    Malformed = Malformed
    Null = Null
    NoExam = NoExam
    NoRow = NoRow
    Req <- MCReq
    Exam <- MCExam
    Teacher <- MCTeacher
    Staff <- MCStaff
    Other <- MCOther
    Class <- MCClass
    Course <- MCCourse
    Student <- MCStudent
    Assigned <- MCAssigned
    Enrolled <- MCEnrolled
    Plans <- MCPlans
    Batches <- MCBatches
SPECIFICATION Spec
SYMMETRY Symmetry
INVARIANT TypeOK
INVARIANT PublishedHasSubjects
INVARIANT StoredScoresValid
PROPERTY SealedStaysSealed
PROPERTY RetiredStaysRetired
PROPERTY GradebookSpec
CHECK_DEADLOCK FALSE
