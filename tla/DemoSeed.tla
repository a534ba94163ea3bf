------------------------------- MODULE DemoSeed -------------------------------
(***************************************************************************)
(* runDemoSeed() (src/backend/src/demo-exams): one transaction creates the *)
(* demonstration exams, their scores for every student that has been       *)
(* synchronised, and publishes them.  Runs of it race with each other,     *)
(* with the directory sync that brings new students, and with the editors  *)
(* who publish, withdraw and grade exams (ExamScores; here each of their   *)
(* operations is one step).  The database reads committed rows; the upsert *)
(* of the creator's row at its start makes a second run wait for the end   *)
(* of the first.                                                           *)
(***************************************************************************)
EXTENDS Integers, Sequences, FiniteSets

CONSTANTS
    Student, Subject,
    Exam,       \* every exam there may be
    DemoExams,  \* DEMO_EXAMS: the demonstration exams, in their order
    DemoValue,  \* buildDemoScores(): the value of a demonstration score
    UserIdOf,   \* the EduPlus user id of a student, "none" if it has none
    Grids,      \* what a score grid may contain: values per subject and student
    FirstGrid,  \* the scores of the other exams at first
    Known,      \* the students known at first
    Run,        \* the runs of the script with --apply; each may be repeated
    MaxScore    \* the largest Decimal(8,2); scores are in hundredths

None == -1  \* no row in the table of scores
Null == -2  \* a row without a value: the student was absent
Value == (0 .. MaxScore) \cup {None, Null}
Cell == Subject \X Student
Empty == [c \in Cell |-> None]
Demo == {DemoExams[i] : i \in DOMAIN DemoExams}

ASSUME SeedData ==
    /\ DemoExams \in Seq(Exam) /\ DemoExams # <<>>
    /\ MaxScore \in Nat
    /\ DemoValue \in [Demo -> [Cell -> 0 .. MaxScore]]
    /\ FirstGrid \in [Cell -> Value] /\ Grids \subseteq [Cell -> Value]
    /\ Known \subseteq Student

VARIABLES
    exam,   \* the status of an exam, "none" before it is created
    drafted, \* the exams that have been drafts others could see (history)
    score,  \* table scores: per exam and cell the value, Null or None
    known,  \* the students of table people
    seed    \* the runs: where they are, their students, the exams found

seedVars == <<exam, drafted, score, known, seed>>

Expected(d, students) ==
    [c \in Cell |-> IF c[2] \in students THEN DemoValue[d][c] ELSE None]
InTransaction(r) == seed[r].pc \in {"find", "compare", "count", "commit"}
--------------------------------------------------------------------------------
Ready == [pc |-> "idle", students |-> {}, found |-> <<>>]

SeedInit ==
    /\ exam = [e \in Exam |-> IF e \in Demo THEN "none" ELSE "DRAFT"]
    /\ drafted = Exam \ Demo
    /\ score = [e \in Exam |-> IF e \in Demo THEN Empty ELSE FirstGrid]
    /\ known = Known
    /\ seed = [r \in Run |-> Ready]

Reach(r, pc) == seed' = [seed EXCEPT ![r].pc = pc]
End(r) == seed' = [seed EXCEPT ![r] = Ready]

\* checkDemoStudents(): there are students, and no EduPlus user is two of them.
Suitable(students) ==
    /\ students # {}
    /\ \A s, t \in students : s # t /\ UserIdOf[s] # "none" => UserIdOf[s] # UserIdOf[t]

\* The students are read before the transaction; unsuitable ones end the run.
ReadStudents(r) ==
    /\ seed[r].pc = "idle"
    /\ Suitable(known)
    /\ seed' = [seed EXCEPT ![r].pc = "begin", ![r].students = known]
    /\ UNCHANGED <<exam, drafted, score, known>>

\* Creator, class, courses and memberships are upserted; the first of them
\* waits for a run that has done so and has not ended.
Begin(r) ==
    /\ seed[r].pc = "begin"
    /\ \A q \in Run : ~InTransaction(q)
    /\ Reach(r, "find")
    /\ UNCHANGED <<exam, drafted, score, known>>

\* The next demonstration exam is found or, in the transaction, created; a
\* withdrawn one ends the run.
NextDemo(r) == DemoExams[Len(seed[r].found) + 1]
StatusFound(r) == IF exam[NextDemo(r)] = "none" THEN "DRAFT" ELSE exam[NextDemo(r)]

BugFindExamAutocommit(r) ==
    /\ seed[r].pc = "find"
    /\ StatusFound(r) # "WITHDRAWN"
    /\ seed' = [seed EXCEPT ![r].found = Append(@, StatusFound(r)),
                            ![r].pc = IF NextDemo(r) = DemoExams[Len(DemoExams)] THEN "compare" ELSE @]
    /\ exam' = [exam EXCEPT ![NextDemo(r)] = StatusFound(r)]
    /\ drafted' = drafted \cup {e \in Exam : exam'[e] = "DRAFT"}
    /\ UNCHANGED <<score, known>>
BugFindExamAnyStatus(r) ==
    /\ seed[r].pc = "find"
    /\ seed' = [seed EXCEPT ![r].found = Append(@, StatusFound(r)),
                            ![r].pc = IF Len(seed[r].found) + 1 = Len(DemoExams) THEN "compare" ELSE @]
    /\ UNCHANGED <<exam, drafted, score, known>>
FindExam(r) ==
    /\ seed[r].pc = "find"
    /\ StatusFound(r) # "WITHDRAWN"
    /\ seed' = [seed EXCEPT ![r].found = Append(@, StatusFound(r)),
                            ![r].pc = IF Len(seed[r].found) + 1 = Len(DemoExams) THEN "compare" ELSE @]
    /\ UNCHANGED <<exam, drafted, score, known>>

\* Scores that are there already must be those the run would write.
Agrees(r) == \A d \in Demo, c \in Cell :
    score[d][c] # None => score[d][c] = Expected(d, seed[r].students)[c]

Compare(r) ==
    /\ seed[r].pc = "compare"
    /\ Agrees(r)
    /\ Reach(r, "count")
    /\ UNCHANGED <<exam, drafted, score, known>>

\* createMany() with skipDuplicates, and the count of the rows after it.
Rows(r) == {p \in Demo \X Cell : score[p[1]][p[2]] # None \/ p[2][2] \in seed[r].students}
Count(r) ==
    /\ seed[r].pc = "count"
    /\ Rows(r) = Demo \X (Subject \X seed[r].students)
    /\ Reach(r, "commit")
    /\ UNCHANGED <<exam, drafted, score, known>>

\* The exams found as drafts are published, and everything becomes visible.
BugPublishAll(r, e) == IF e \in Demo THEN "PUBLISHED" ELSE exam[e]
PublishFound(r, e) ==
    IF \E i \in DOMAIN DemoExams : DemoExams[i] = e /\ seed[r].found[i] = "DRAFT"
    THEN "PUBLISHED" ELSE exam[e]
AddScores(r, e) ==
    IF e \in Demo
    THEN [c \in Cell |-> IF score[e][c] # None THEN score[e][c] ELSE Expected(e, seed[r].students)[c]]
    ELSE score[e]

Commit(r) ==
    /\ seed[r].pc = "commit"
    /\ exam' = [e \in Exam |-> PublishFound(r, e)]
    /\ score' = [e \in Exam |-> AddScores(r, e)]
    /\ drafted' = drafted \cup {e \in Exam : exam'[e] = "DRAFT"}
    /\ End(r)
    /\ UNCHANGED known

\* A check that does not hold, an error, the transaction's time limit or a
\* stopped script: the transaction is undone.
FailRun(r) ==
    /\ seed[r].pc = "begin" \/ InTransaction(r)
    /\ End(r)
    /\ UNCHANGED <<exam, drafted, score, known>>

SeedStep(r) ==
    \/ ReadStudents(r) \/ Begin(r) \/ FindExam(r)
    \/ Compare(r) \/ Count(r) \/ Commit(r) \/ FailRun(r)
--------------------------------------------------------------------------------
\* A grid is saved, or an exam published, that was a draft when the request
\* read it, maybe long ago.
SaveGrid(e) ==
    /\ e \in drafted
    /\ \E g \in Grids : score' = [score EXCEPT ![e] = g]
    /\ UNCHANGED <<exam, drafted, known, seed>>

Publish(e) ==
    /\ e \in drafted
    /\ exam' = [exam EXCEPT ![e] = "PUBLISHED"]
    /\ UNCHANGED <<drafted, score, known, seed>>

Withdraw(e) ==
    /\ exam[e] = "PUBLISHED"
    /\ exam' = [exam EXCEPT ![e] = "WITHDRAWN"]
    /\ UNCHANGED <<drafted, score, known, seed>>

\* The directory sync brings a new student; it never removes one.
NewStudent ==
    /\ \E s \in Student \ known : known' = known \cup {s}
    /\ UNCHANGED <<exam, drafted, score, seed>>

SeedNext ==
    \/ \E r \in Run : SeedStep(r)
    \/ \E e \in Exam : SaveGrid(e) \/ Publish(e) \/ Withdraw(e)
    \/ NewStudent

SeedSpec == SeedInit /\ [][SeedNext]_seedVars
--------------------------------------------------------------------------------
SeedTypeOK ==
    /\ exam \in [Exam -> {"none", "DRAFT", "PUBLISHED", "WITHDRAWN"}]
    /\ drafted \subseteq Exam
    /\ score \in [Exam -> [Cell -> Value]]
    /\ known \subseteq Student
    /\ seed \in [Run -> [pc : {"idle", "begin", "find", "compare", "count", "commit"},
                         students : SUBSET Student,
                         found : Seq({"DRAFT", "PUBLISHED"})]]

\* The demonstration exams are there all together or not at all, never as
\* drafts, and with every score of the same set of students: no failure, no
\* second run and no editor leaves a part of a batch (main09 requires that no
\* partly published exams remain).
SeedWhole ==
    \/ \A d \in Demo : exam[d] = "none" /\ score[d] = Empty
    \/ \E students \in SUBSET Student :
         /\ students # {}
         /\ \A d \in Demo : /\ exam[d] \in {"PUBLISHED", "WITHDRAWN"}
                            /\ score[d] = Expected(d, students)

\* A demonstration exam that an editor has withdrawn stays so, whatever a run
\* that read it before does, and no score of it is ever changed or taken away.
DemoStable ==
    [][\A d \in Demo : /\ exam[d] = "WITHDRAWN" => exam'[d] = "WITHDRAWN"
                       /\ \A c \in Cell : score[d][c] # None => score'[d][c] = score[d][c]]_seedVars
================================================================================
