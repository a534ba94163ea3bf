CONSTANTS
    r1 = r1
    r2 = r2
    r3 = r3
    r4 = r4
    e1 = e1
    teacher = teacher
    clerk = clerk
    pupil = pupil
    k1 = k1
    math = math
    art = art
    ann = ann
    bob = bob
    Malformed = Malformed
    Null = Null
    NoExam = NoExam
    NoRow = NoRow
    Req <- MCReqLive
    Exam <- MCExam
    Teacher <- MCTeacher
    Staff <- MCStaff
    Other <- MCOther
    Class <- MCClass
    Course <- MCCourse
    Student <- MCStudent
    Assigned <- MCAssigned
    Enrolled <- MCEnrolled
    Plans <- MCPlans
    Batches <- MCBatchesLive
SPECIFICATION FairSpec
PROPERTY ImportsSettle
CHECK_DEADLOCK FALSE
