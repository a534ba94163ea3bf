---------------------------- MODULE MCExamScores ----------------------------
(* A small instance of ExamScores: one exam of one class with two students  *)
(* (one of them from another class) and two courses; the teacher teaches    *)
(* one of the courses only.                                                 *)
EXTENDS ExamScores, TLC

CONSTANTS r1, r2, r3, r4, e1, teacher, clerk, pupil, k1, math, art, ann, bob

MCReq == {r1, r2, r3, r4}
MCExam == {e1}
MCTeacher == {teacher}
MCStaff == {clerk}
MCOther == {pupil}
MCClass == {k1}
MCCourse == {math, art}
MCStudent == {ann, bob}
MCAssigned == {<<teacher, k1, math>>}
MCEnrolled == {<<ann, k1>>}

\* An exam without subjects, and one with both.
MCPlans == {[c \in {} |-> 0], [c \in {math, art} |-> 1]}

Score(s, c, v, a) == [student |-> s, subject |-> c, score |-> v, absent |-> a]
\* Two grids that cross each other, an out-of-range score, a repeated cell, an
\* absent student with a score, a student of another class, a malformed file.
MCBatches ==
    {<<Score(ann, math, 1, FALSE), Score(ann, art, 0, FALSE)>>,
     <<Score(ann, art, Null, TRUE), Score(ann, math, Null, FALSE)>>,
     <<Score(ann, math, 1, FALSE)>>,
     <<Score(ann, math, 2, FALSE)>>,
     <<Score(ann, math, 1, FALSE), Score(ann, math, 0, FALSE)>>,
     <<Score(bob, math, 1, FALSE)>>,
     <<Malformed>>}

\* For liveness: one request creates the exam, the others contend for its rows.
MCReqLive == {r1, r2, r3}
MCBatchesLive == {b \in MCBatches : Len(b) = 2}

Symmetry == Permutations(MCReq)
SymmetryLive == Permutations(MCReqLive)
=============================================================================
