------------------------------ MODULE ExamScores ------------------------------
(***************************************************************************)
(* Exams, score entry and CSV import of the backend                        *)
(* (src/backend/src/exams).  Each HTTP request is a process: its handler   *)
(* runs to the next `await` in one action, and other requests interleave   *)
(* there.  A request arrives with its first database read; a request that  *)
(* is refused without writing anything is a stuttering step.  The class    *)
(* roster and the teaching assignments are constants: no handler of this   *)
(* component writes them.  Definitions named Bug... are not part of the    *)
(* specification: each is a mutated form of the definition that follows it *)
(* and shows that a property notices the mistake.                          *)
(***************************************************************************)
EXTENDS Integers, Sequences, FiniteSets

CONSTANTS
    Req,            \* request identities, each used once
    Exam,           \* exam ids
    Teacher, Staff, Other,  \* persons by identity type; Other: students, parents
    Class, Course, Student,
    Assigned,       \* teaching assignments, triples of teacher, class and course
    Enrolled,       \* active students of a class, pairs of student and class
    Plans,          \* subject lists an exam may be created with: course -> maximum
    Batches,        \* score grids and parsed CSV files, sequences of cells
    Malformed,      \* a CSV row that the parser refuses
    Null,           \* a score that is not a number: the cell is left blank
    NoExam, NoRow   \* an exam or a score row that does not exist

Person == Teacher \cup Staff \cup Other
Cell == Student \X Course
ScoreCell == [student: Student, subject: Course, score: Int \cup {Null}, absent: BOOLEAN]
Status == {"DRAFT", "PUBLISHED", "WITHDRAWN"}

ASSUME StaticData ==
    /\ Assigned \subseteq Teacher \X Class \X Course
    /\ Enrolled \subseteq Student \X Class
    /\ \A p \in Plans : DOMAIN p \subseteq Course /\ p \in [DOMAIN p -> Nat]
    /\ Batches \subseteq Seq(ScoreCell \cup {Malformed})
ASSUME PersonsDisjoint ==
    Teacher \cap Staff = {} /\ Teacher \cap Other = {} /\ Staff \cap Other = {}

\* An exam row.  editor: the request that last wrote its title, type or date.
ExamRow == [status: Status, creator: Person, class: Class, plan: Plans, editor: Req]
\* A score row.  by: the request that wrote it (a history field).
ScoreRow == [value: Int \cup {Null}, absent: BOOLEAN, grader: Person, by: Req]
ImportStatus == {"VALIDATING", "APPLIED", "FAILED"}
\* A request: the statement it resumes at, and its arguments.  next: the cell
\* that apply's loop upserts next.
Request == [op: {"create", "update", "publish", "withdraw", "save", "import"},
            pc: {"write", "validate", "apply", "fail", "done", "refused", "crashed"},
            actor: Person, exam: Exam, batch: Batches \cup {<<>>}, next: Nat \ {0}]

ASSUME Markers == NoExam \notin ExamRow /\ NoRow \notin ScoreRow /\ Malformed \notin ScoreCell

VARIABLES
    exams,    \* table exams with exam_subjects
    rows,     \* table scores, committed
    imports,  \* table score_imports, by the request that created the row
    req,      \* the requests that have arrived
    tx        \* per request: the rows its open transaction wrote and has locked

vars == <<exams, rows, imports, req, tx>>

Init ==
    /\ exams = [e \in Exam |-> NoExam]
    /\ rows = [e \in Exam |-> [c \in Cell |-> NoRow]]
    /\ imports = [r \in Req |-> "none"]
    /\ req = [r \in {} |-> {}]
    /\ tx = [r \in Req |-> [c \in Cell |-> NoRow]]

--------------------------------------------------------------------------------
(* Permissions and validation. *)

IsStaffActor(p) == p \in Teacher \cup Staff

MayChange(p, e) == IsStaffActor(p) /\ (p \in Teacher => exams[e].creator = p)

BugSeesAnyHidden(p, e, status) ==
    /\ exams[e] # NoExam /\ MayChange(p, e)
    /\ (exams[e].status = "PUBLISHED") <=> (status = "PUBLISHED")

\* mutableExam() and the reads of withdraw(): the exam, seen in a status.
Sees(p, e, status) == exams[e] # NoExam /\ MayChange(p, e) /\ exams[e].status = status

CellOf(x) == <<x.student, x.subject>>
CellsOf(batch) == {CellOf(batch[i]) : i \in 1..Len(batch)}
WellFormed(batch) == \A i \in 1..Len(batch) : batch[i] # Malformed
Distinct(batch) ==
    \A i, j \in 1..Len(batch) : CellOf(batch[i]) = CellOf(batch[j]) => i = j

BugCellAnyClass(x, exam) ==
    /\ x.subject \in DOMAIN exam.plan
    /\ x.absent => x.score = Null
    /\ x.score # Null => x.score \in 0..exam.plan[x.subject]

\* One cell of validate(): known subject, absence, range, roster.
CellAccepted(x, exam) ==
    /\ x.subject \in DOMAIN exam.plan
    /\ x.absent => x.score = Null
    /\ x.score # Null => x.score \in 0..exam.plan[x.subject]
    /\ <<x.student, exam.class>> \in Enrolled

TeachesAll(p, exam, batch) ==
    \A i \in 1..Len(batch) :
        batch[i].subject \in DOMAIN exam.plan
            => <<p, exam.class, batch[i].subject>> \in Assigned

BugValidatesAnyStatus(p, e, batch) ==
    /\ IsStaffActor(p)
    /\ p \in Teacher => TeachesAll(p, exams[e], batch)
    /\ Distinct(batch)
    /\ \A i \in 1..Len(batch) : CellAccepted(batch[i], exams[e])

\* ScoreEntryService.validate(): everything is read and checked before the write.
Validates(p, e, batch) ==
    /\ IsStaffActor(p)
    /\ exams[e].status = "DRAFT"
    /\ p \in Teacher => TeachesAll(p, exams[e], batch)
    /\ Distinct(batch)
    /\ \A i \in 1..Len(batch) : CellAccepted(batch[i], exams[e])

--------------------------------------------------------------------------------
(* Exam lifecycle. *)

Arrive(r, op, pc, p, e, batch) ==
    /\ r \notin DOMAIN req
    /\ req' = [q \in DOMAIN req \cup {r} |->
                 IF q = r THEN [op |-> op, pc |-> pc, actor |-> p, exam |-> e,
                                batch |-> batch, next |-> 1]
                 ELSE req[q]]

Goto(r, pc) == req' = [req EXCEPT ![r].pc = pc]
\* The handler ends; its local variables are gone.
Ending(x, pc) == [op |-> x.op, pc |-> pc, actor |-> x.actor, exam |-> x.exam,
                  batch |-> <<>>, next |-> 1]
Return(r, pc) == req' = [req EXCEPT ![r] = Ending(@, pc)]
Ended(r) == req[r].pc \in {"done", "refused", "crashed"}
At(r, op, pc) == r \in DOMAIN req /\ req[r].op = op /\ req[r].pc = pc

\* create(): the reads are of constant tables, the insert is one transaction.
CreateExam(r) ==
    \E p \in Teacher \cup Staff, e \in Exam, k \in Class, plan \in Plans :
        /\ exams[e] = NoExam
        /\ p \in Teacher => \A c \in DOMAIN plan : <<p, k, c>> \in Assigned
        /\ Arrive(r, "create", "done", p, e, <<>>)
        /\ exams' = [exams EXCEPT ![e] = [status |-> "DRAFT", creator |-> p,
                         class |-> k, plan |-> plan, editor |-> r]]
        /\ UNCHANGED <<rows, imports, tx>>

\* The read half of update(), publish() and withdraw().
ReadExam(r) ==
    \E p \in Person, e \in Exam, op \in {"update", "publish", "withdraw"} :
        /\ Sees(p, e, IF op = "withdraw" THEN "PUBLISHED" ELSE "DRAFT")
        /\ Arrive(r, op, "write", p, e, <<>>)
        /\ UNCHANGED <<exams, rows, imports, tx>>

\* The write half: `exam.update({ where: { id } })`, with no recheck of the status.
WriteUpdate(r) ==
    /\ At(r, "update", "write")
    /\ exams' = [exams EXCEPT ![req[r].exam].editor = r]
    /\ Return(r, "done")
    /\ UNCHANGED <<rows, imports, tx>>

BugPublishAnySubjects(r) ==
    /\ At(r, "publish", "write")
    /\ exams' = [exams EXCEPT ![req[r].exam].status = "PUBLISHED"]
    /\ Return(r, "done")
    /\ UNCHANGED <<rows, imports, tx>>

\* publish() counts the subjects after its read; they never change once created.
WritePublish(r) ==
    /\ At(r, "publish", "write")
    /\ IF DOMAIN exams[req[r].exam].plan = {}
       THEN Return(r, "refused") /\ UNCHANGED exams
       ELSE /\ Return(r, "done")
            /\ exams' = [exams EXCEPT ![req[r].exam].status = "PUBLISHED"]
    /\ UNCHANGED <<rows, imports, tx>>

WriteWithdraw(r) ==
    /\ At(r, "withdraw", "write")
    /\ exams' = [exams EXCEPT ![req[r].exam].status = "WITHDRAWN"]
    /\ Return(r, "done")
    /\ UNCHANGED <<rows, imports, tx>>

--------------------------------------------------------------------------------
(* Score entry: save() and import(). *)

\* save(): the DTO admits well-formed cells only; validation is its read half.
ValidateSave(r) ==
    \E p \in Person, e \in Exam, batch \in Batches :
        /\ exams[e] # NoExam
        /\ WellFormed(batch)
        /\ Validates(p, e, batch)
        /\ Arrive(r, "save", "apply", p, e, batch)
        /\ UNCHANGED <<exams, rows, imports, tx>>

\* import() inserts its row before any check, for any identity, then parses.
StartImport(r) ==
    \E p \in Person, e \in Exam, batch \in Batches :
        /\ exams[e] # NoExam
        /\ Arrive(r, "import", IF WellFormed(batch) /\ Distinct(batch) THEN "validate"
                               ELSE "fail", p, e, batch)
        /\ imports' = [imports EXCEPT ![r] = "VALIDATING"]
        /\ UNCHANGED <<exams, rows, tx>>

ValidateImport(r) ==
    /\ At(r, "import", "validate")
    /\ Goto(r, IF Validates(req[r].actor, req[r].exam, req[r].batch) THEN "apply" ELSE "fail")
    /\ UNCHANGED <<exams, rows, imports, tx>>

Applying(r) == r \in DOMAIN req /\ req[r].pc = "apply"
Batch(r) == req[r].batch
CellAt(r, i) == CellOf(Batch(r)[i])
RowAt(r, i) == [value |-> Batch(r)[i].score, absent |-> Batch(r)[i].absent,
                grader |-> req[r].actor, by |-> r]
NextCell(r) == CellAt(r, req[r].next)
HasNext(r) == Applying(r) /\ req[r].next <= Len(Batch(r))
\* Transaction r waits for the row lock that q's transaction holds.
WaitsFor(r, q) ==
    /\ HasNext(r) /\ Applying(q) /\ q # r /\ req[q].exam = req[r].exam
    /\ tx[q][NextCell(r)] # NoRow

NewRow(r) == RowAt(r, req[r].next)

BugApplyAutocommit(r) ==
    /\ HasNext(r)
    /\ rows' = [rows EXCEPT ![req[r].exam][NextCell(r)] = NewRow(r)]
    /\ req' = [req EXCEPT ![r].next = @ + 1]
    /\ UNCHANGED <<exams, imports, tx>>

\* One upsert of apply(), which takes the row's lock until the transaction ends.
ApplyCell(r) ==
    /\ HasNext(r)
    /\ \A q \in DOMAIN req : ~WaitsFor(r, q)
    /\ tx' = [tx EXCEPT ![r][NextCell(r)] = NewRow(r)]
    /\ req' = [req EXCEPT ![r].next = @ + 1]
    /\ UNCHANGED <<exams, rows, imports>>

Released == [c \in Cell |-> NoRow]

\* The end of the transaction; an import marks itself APPLIED inside it.
Commit(r) ==
    /\ Applying(r) /\ ~HasNext(r)
    /\ rows' = [rows EXCEPT ![req[r].exam] =
                   [c \in Cell |-> IF tx[r][c] = NoRow THEN @[c] ELSE tx[r][c]]]
    /\ imports' = IF req[r].op = "import" THEN [imports EXCEPT ![r] = "APPLIED"] ELSE imports
    /\ Return(r, "done")
    /\ tx' = [tx EXCEPT ![r] = Released]
    /\ UNCHANGED exams

BugRollbackForAll(r) ==
    /\ Applying(r)
    /\ Goto(r, "fail")
    /\ tx' = [tx EXCEPT ![r] = Released]
    /\ UNCHANGED <<exams, rows, imports>>

BugRollbackUncaught(r) ==
    /\ Applying(r)
    /\ Return(r, "done")
    /\ tx' = [tx EXCEPT ![r] = Released]
    /\ UNCHANGED <<exams, rows, imports>>

\* The transaction fails: a deadlock victim, the transaction timeout, a lost
\* connection.  A save answers with the error, an import catches it.
Rollback(r) ==
    /\ Applying(r)
    /\ IF req[r].op = "import" THEN Goto(r, "fail") ELSE Return(r, "refused")
    /\ tx' = [tx EXCEPT ![r] = Released]
    /\ UNCHANGED <<exams, rows, imports>>

\* fail() of the CSV import.
FailImport(r) ==
    /\ At(r, "import", "fail")
    /\ imports' = [imports EXCEPT ![r] = "FAILED"]
    /\ Return(r, "done")
    /\ UNCHANGED <<exams, rows, tx>>

\* The only backend process stops: every request in progress is lost.
Crash ==
    /\ \E r \in DOMAIN req : ~Ended(r)
    /\ req' = [r \in DOMAIN req |->
                 IF Ended(r) THEN req[r] ELSE Ending(req[r], "crashed")]
    /\ tx' = [r \in Req |-> Released]
    /\ UNCHANGED <<exams, rows, imports>>

--------------------------------------------------------------------------------
Resume(r) ==
    \/ WriteUpdate(r) \/ WritePublish(r) \/ WriteWithdraw(r)
    \/ ValidateImport(r) \/ ApplyCell(r) \/ Commit(r) \/ FailImport(r)

Next ==
    \/ \E r \in Req :
        \/ CreateExam(r) \/ ReadExam(r) \/ ValidateSave(r) \/ StartImport(r)
        \/ WriteUpdate(r) \/ WritePublish(r) \/ WriteWithdraw(r)
        \/ ValidateImport(r) \/ ApplyCell(r) \/ Commit(r) \/ Rollback(r) \/ FailImport(r)
    \/ Crash

\* PostgreSQL ends a cycle of waiting transactions by failing one of them.
Deadlocked(r) ==
    \E D \in SUBSET DOMAIN req :
        r \in D /\ \A x \in D : \E y \in D : WaitsFor(x, y)
BreakDeadlock == \E r \in DOMAIN req : Deadlocked(r) /\ Rollback(r)

Spec == Init /\ [][Next]_vars
\* Requests arrive when they like and crashes may never happen; a handler that
\* can run does, and the database breaks deadlocks.
FairSpec ==
    Spec /\ WF_vars(BreakDeadlock) /\ \A r \in Req : WF_vars(Resume(r))

--------------------------------------------------------------------------------
(* Properties. *)

\* The tables and the requests have their types; score imports are exactly the
\* rows of import requests, and only imports validate in a second step or fail.
TypeOK ==
    /\ exams \in [Exam -> ExamRow \cup {NoExam}]
    /\ rows \in [Exam -> [Cell -> ScoreRow \cup {NoRow}]]
    /\ imports \in [Req -> ImportStatus \cup {"none"}]
    /\ DOMAIN req \subseteq Req
    /\ req \in [DOMAIN req -> Request]
    /\ tx \in [Req -> [Cell -> ScoreRow \cup {NoRow}]]
    /\ \A r \in Req : imports[r] # "none" <=> (r \in DOMAIN req /\ req[r].op = "import")
    /\ \A r \in DOMAIN req : req[r].pc \in {"validate", "fail"} => req[r].op = "import"

\* publish() and createMany(): whatever requests raced, an exam that students see
\* or have seen has at least one subject.
PublishedHasSubjects ==
    \A e \in Exam : exams[e] # NoExam /\ exams[e].status # "DRAFT"
                        => DOMAIN exams[e].plan # {}

RowAccepted(x, c, exam) ==
    /\ c[2] \in DOMAIN exam.plan
    /\ x.absent => x.value = Null
    /\ x.value # Null => x.value \in 0..exam.plan[c[2]]
    /\ <<c[1], exam.class>> \in Enrolled
    /\ x.grader \in Staff \/ <<x.grader, exam.class, c[2]>> \in Assigned

\* Every committed score is one validate() accepts for the exam it belongs to: a
\* subject of that exam, in range, of a student of the class, entered by staff or by
\* a teacher of that class and subject.  Validation and write are separate steps and
\* two code paths (grid and CSV) reach the same rows.
StoredScoresValid ==
    \A e \in Exam, c \in Cell : rows[e][c] # NoRow =>
        exams[e] # NoExam /\ RowAccepted(rows[e][c], c, exams[e])

\* No request in progress may still write the scores or the details of e.
NoWriterInFlight(e) ==
    \A r \in DOMAIN req : req[r].exam = e =>
        req[r].pc # "apply" /\ ~(req[r].op = "update" /\ req[r].pc = "write")
Sealed(e) == exams[e] # NoExam /\ exams[e].status # "DRAFT" /\ NoWriterInFlight(e)

\* "Only draft exams may be changed": the checks of update() and validate() precede
\* their writes, so a request that was past its check may still change a published
\* exam; but once those have ended, nothing changes its scores or details again.
SealedStaysSealed ==
    [][\A e \in Exam : Sealed(e) =>
          Sealed(e)' /\ rows'[e] = rows[e] /\ exams'[e].editor = exams[e].editor]_vars

\* e is withdrawn and no publish() that read it as a draft is still to write.
Retired(e) ==
    /\ exams[e] # NoExam /\ exams[e].status = "WITHDRAWN"
    /\ \A r \in DOMAIN req : ~(At(r, "publish", "write") /\ req[r].exam = e)

\* A withdrawn exam is never shown again, except by a publish() that read it
\* before it was first published.
RetiredStaysRetired == [][\A e \in Exam : Retired(e) => Retired(e)']_vars

\* What the error message and the plan say: the scores of a published exam never
\* change.  It fails: validate() and apply() are not one transaction.
PublishedScoresFrozen ==
    [][\A e \in Exam : exams[e] # NoExam /\ exams[e].status = "PUBLISHED"
          => rows'[e] = rows[e]]_vars

\* Every import gets a verdict unless the backend stops first: transactions that wait
\* for each other's rows are broken up, and each error reaches fail(), whose own
\* update is taken to succeed.
ImportsSettle ==
    \A r \in Req : imports[r] = "VALIDATING" ~>
        (imports[r] # "VALIDATING" \/ req[r].pc = "crashed")

Answer == [r \in Req |->
    IF r \in DOMAIN req /\ req[r].op = "save" /\ req[r].pc = "done" THEN "SAVED"
    ELSE imports[r]]
Book == INSTANCE Gradebook WITH board <- rows, answer <- Answer,
                                Batches <- {b \in Batches : WellFormed(b)}

\* Score entry implements the gradebook: what the validations, row locks, rollbacks,
\* crashes and the import's status updates do to committed scores is post whole
\* batches, each at most once and together with its answer.
GradebookSpec == Book!Spec

================================================================================
