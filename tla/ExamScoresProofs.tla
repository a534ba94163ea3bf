--------------------------- MODULE ExamScoresProofs ---------------------------
(***************************************************************************)
(* What ExamScores guarantees for every set of requests, exams and inputs. *)
(***************************************************************************)
EXTENDS ExamScores, TLAPS

\* The part of validate() that no later step can make false: the fields of an
\* exam that it reads, other than the status, never change.
Entitled(p, exam, batch) ==
    /\ IsStaffActor(p)
    /\ p \in Teacher => TeachesAll(p, exam, batch)
    /\ \A i \in 1..Len(batch) : CellAccepted(batch[i], exam)

\* A request in progress names an exam that exists; what it checked still holds,
\* as far as it cannot be undone by others.
RequestOK(r) ==
    LET q == req[r] IN
    /\ ~Ended(r) => exams[q.exam] # NoExam
    /\ q.pc = "write" => q.op \in {"update", "publish", "withdraw"}
    /\ q.pc = "write" /\ q.op = "withdraw" => exams[q.exam].status # "DRAFT"
    /\ q.pc \in {"validate", "apply"} =>
          /\ q.op \in {"save", "import"}
          /\ q.batch \in Batches /\ WellFormed(q.batch) /\ Distinct(q.batch)
    /\ q.pc = "validate" => q.next = 1
    /\ q.pc = "apply" => Entitled(q.actor, exams[q.exam], q.batch)
RequestInv == \A r \in DOMAIN req : RequestOK(r)

\* An open transaction holds the rows of the cells its loop has passed.
TxOK(r) ==
    /\ \A c \in Cell : tx[r][c] # NoRow =>
          /\ Applying(r)
          /\ \E i \in 1..Len(Batch(r)) :
                i < req[r].next /\ CellAt(r, i) = c /\ tx[r][c] = RowAt(r, i)
    /\ Applying(r) =>
          \A i \in 1..Len(Batch(r)) : i < req[r].next => tx[r][CellAt(r, i)] = RowAt(r, i)
TxInv == \A r \in Req : TxOK(r)

IInv == TypeOK /\ RequestInv /\ TxInv

--------------------------------------------------------------------------------
\* Facts about batches.
LEMMA BatchTypes ==
    ASSUME NEW batch \in Batches, WellFormed(batch), NEW i \in 1..Len(batch)
    PROVE  /\ batch[i] \in ScoreCell
           /\ CellOf(batch[i]) \in Cell
<1>1. batch \in Seq(ScoreCell \cup {Malformed})
  BY StaticData
<1>2. batch[i] \in ScoreCell
  BY <1>1 DEF WellFormed
<1> QED BY <1>2 DEF ScoreCell, CellOf, Cell

LEMMA RowTypes ==
    ASSUME TypeOK, RequestInv, NEW r \in DOMAIN req, Applying(r),
           NEW i \in 1..Len(Batch(r))
    PROVE  /\ CellAt(r, i) \in Cell
           /\ RowAt(r, i) \in ScoreRow
           /\ RowAt(r, i) # NoRow
<1>1. req[r] \in Request /\ r \in Req
  BY DEF TypeOK
<1>2. Batch(r) \in Batches
  <2>1. CASE Batch(r) = <<>>
    <3> Len(<<>>) = 0  OBVIOUS
    <3> QED BY <2>1
  <2> QED BY <2>1, <1>1 DEF Batch, Request
<1>3. WellFormed(Batch(r))
  BY DEF RequestInv, RequestOK, Applying, Batch
<1>4. Batch(r)[i] \in ScoreCell /\ CellOf(Batch(r)[i]) \in Cell
  BY <1>2, <1>3, BatchTypes
<1>5. RowAt(r, i) \in ScoreRow
  BY <1>1, <1>4 DEF RowAt, ScoreRow, ScoreCell, Request
<1> QED BY <1>4, <1>5, Markers DEF CellAt

--------------------------------------------------------------------------------
LEMMA InitInv == Init => IInv
  BY DEF Init, IInv, TypeOK, RequestInv, TxInv, TxOK, Applying

\* No step removes an exam, changes what validate() reads of it besides the
\* status, or makes it a draft again.
SameExam(e) ==
    exams[e] # NoExam =>
        /\ exams'[e] # NoExam
        /\ exams'[e].plan = exams[e].plan
        /\ exams'[e].class = exams[e].class
        /\ exams[e].status # "DRAFT" => exams'[e].status # "DRAFT"

LEMMA ExamsStable ==
    ASSUME IInv, [Next]_vars
    PROVE  \A e \in Exam : SameExam(e)
<1> USE DEF SameExam
<1>0. exams \in [Exam -> ExamRow \cup {NoExam}] /\ NoExam \notin ExamRow
  BY Markers DEF IInv, TypeOK
<1>1. CASE exams' = exams
  BY <1>1
<1>2. ASSUME NEW r \in Req, CreateExam(r)
      PROVE  \A e \in Exam : SameExam(e)
  BY <1>2, <1>0 DEF CreateExam
<1>3. ASSUME NEW r \in Req, WriteUpdate(r) \/ WritePublish(r) \/ WriteWithdraw(r)
      PROVE  \A e \in Exam : SameExam(e)
  <2>1. req[r] \in Request /\ r \in DOMAIN req
    BY <1>3 DEF IInv, TypeOK, WriteUpdate, WritePublish, WriteWithdraw, At
  <2> DEFINE x == req[r].exam
  <2>2. x \in Exam /\ exams[x] # NoExam
    BY <1>3, <2>1 DEF IInv, RequestInv, RequestOK, Request, Ended, WriteUpdate, WritePublish, WriteWithdraw, At
  <2>2a. exams[x] \in ExamRow
    BY <2>2, <1>0
  <2>3. CASE WriteUpdate(r)
    <3>1. exams' = [exams EXCEPT ![x].editor = r]
      BY <2>3 DEF WriteUpdate
    <3>2. exams'[x] \in ExamRow
      BY <3>1, <2>2, <2>2a, <1>0 DEF ExamRow
    <3> QED BY <3>1, <3>2, <2>2, <2>2a, <1>0 DEF ExamRow
  <2>4. CASE WritePublish(r)
    <3>1. exams' = exams \/ exams' = [exams EXCEPT ![x].status = "PUBLISHED"]
      BY <2>4 DEF WritePublish
    <3>2. exams'[x] \in ExamRow
      BY <3>1, <2>2, <2>2a, <1>0 DEF ExamRow, Status
    <3> QED BY <3>1, <3>2, <2>2, <2>2a, <1>0 DEF ExamRow
  <2>5. CASE WriteWithdraw(r)
    <3>1. exams' = [exams EXCEPT ![x].status = "WITHDRAWN"]
      BY <2>5 DEF WriteWithdraw
    <3>2. exams'[x] \in ExamRow
      BY <3>1, <2>2, <2>2a, <1>0 DEF ExamRow, Status
    <3> QED BY <3>1, <3>2, <2>2, <2>2a, <1>0 DEF ExamRow
  <2> QED BY <1>3, <2>3, <2>4, <2>5
<1> QED
  BY <1>1, <1>2, <1>3 DEF Next, vars, ReadExam, ValidateSave, StartImport, ValidateImport,
     ApplyCell, Commit, Rollback, FailImport, Crash

--------------------------------------------------------------------------------
\* Requests keep their types and their arguments.
Arrived(r, op, pc, p, e, batch) ==
    /\ r \notin DOMAIN req
    /\ DOMAIN req' = DOMAIN req \cup {r}
    /\ DOMAIN req' \subseteq Req
    /\ req' \in [DOMAIN req' -> Request]
    /\ req'[r].op = op /\ req'[r].pc = pc /\ req'[r].actor = p
    /\ req'[r].exam = e /\ req'[r].batch = batch /\ req'[r].next = 1
    /\ \A q \in DOMAIN req : req'[q] = req[q]

LEMMA ArriveTypes ==
    ASSUME TypeOK, NEW r \in Req, NEW p \in Person, NEW e \in Exam,
           NEW batch \in Batches \cup {<<>>},
           NEW op \in {"create", "update", "publish", "withdraw", "save", "import"},
           NEW pc \in {"write", "validate", "apply", "fail", "done"},
           Arrive(r, op, pc, p, e, batch)
    PROVE  Arrived(r, op, pc, p, e, batch)
  BY DEF Arrive, Arrived, TypeOK, Request

\* Goto, Return and the end of a request at a crash: only the named fields change.
Moved(r, pc) ==
    /\ DOMAIN req' = DOMAIN req
    /\ req' \in [DOMAIN req' -> Request]
    /\ \A q \in DOMAIN req : q # r => req'[q] = req[q]
    /\ req'[r].op = req[r].op /\ req'[r].pc = pc
    /\ req'[r].actor = req[r].actor /\ req'[r].exam = req[r].exam
    /\ pc \in {"apply", "fail"} =>
          req'[r].batch = req[r].batch /\ req'[r].next = req[r].next

LEMMA GotoTypes ==
    ASSUME TypeOK, NEW r \in DOMAIN req,
           NEW pc \in {"apply", "fail"}, Goto(r, pc)
    PROVE  Moved(r, pc)
<1>1. req \in [DOMAIN req -> Request] /\ req[r] \in Request
  BY DEF TypeOK
<1>2. req' = [req EXCEPT ![r] = [@ EXCEPT !.pc = pc]]
  BY DEF Goto
<1>3. [req[r] EXCEPT !.pc = pc] = [op |-> req[r].op, pc |-> pc, actor |-> req[r].actor,
          exam |-> req[r].exam, batch |-> req[r].batch, next |-> req[r].next]
  BY <1>1 DEF Request
<1>4. [req[r] EXCEPT !.pc = pc] \in Request
  BY <1>1, <1>3 DEF Request
<1> QED BY <1>1, <1>2, <1>3, <1>4 DEF Moved

LEMMA EndingTypes ==
    ASSUME NEW x \in Request, NEW pc \in {"done", "refused", "crashed"}
    PROVE  /\ Ending(x, pc) = [op |-> x.op, pc |-> pc, actor |-> x.actor,
                  exam |-> x.exam, batch |-> <<>>, next |-> 1]
           /\ Ending(x, pc) \in Request
<1>1. Ending(x, pc) = [op |-> x.op, pc |-> pc, actor |-> x.actor,
                  exam |-> x.exam, batch |-> <<>>, next |-> 1]
  BY DEF Ending, Request
<1> QED BY <1>1 DEF Request

LEMMA ReturnTypes ==
    ASSUME TypeOK, NEW r \in DOMAIN req,
           NEW pc \in {"done", "refused"}, Return(r, pc)
    PROVE  Moved(r, pc)
<1>1. req \in [DOMAIN req -> Request] /\ req[r] \in Request
  BY DEF TypeOK
<1>2. req' = [req EXCEPT ![r] = Ending(req[r], pc)]
  BY DEF Return
<1>3. Ending(req[r], pc) = [op |-> req[r].op, pc |-> pc, actor |-> req[r].actor,
          exam |-> req[r].exam, batch |-> <<>>, next |-> 1]
  BY DEF Ending
<1>4. Ending(req[r], pc) \in Request
  BY <1>1, EndingTypes
<1>5. DOMAIN req' = DOMAIN req /\ req'[r] = Ending(req[r], pc)
      /\ \A q \in DOMAIN req : q # r => req'[q] = req[q]
  BY <1>1, <1>2
<1>6. req' \in [DOMAIN req' -> Request]
  BY <1>1, <1>2, <1>4
<1> QED BY <1>3, <1>5, <1>6 DEF Moved

--------------------------------------------------------------------------------
\* The types of the exams, rows and transactions after each step.
LEMMA TypeStep == ASSUME IInv, [Next]_vars PROVE TypeOK'
<1> TypeOK /\ RequestInv /\ TxInv
  BY DEF IInv
<1>0. /\ exams \in [Exam -> ExamRow \cup {NoExam}]
      /\ rows \in [Exam -> [Cell -> ScoreRow \cup {NoRow}]]
      /\ imports \in [Req -> ImportStatus \cup {"none"}]
      /\ DOMAIN req \subseteq Req
      /\ req \in [DOMAIN req -> Request]
      /\ tx \in [Req -> [Cell -> ScoreRow \cup {NoRow}]]
  BY DEF TypeOK
<1>01. /\ \A r \in Req : imports[r] # "none" <=> (r \in DOMAIN req /\ req[r].op = "import")
       /\ \A r \in DOMAIN req : req[r].pc \in {"validate", "fail"} => req[r].op = "import"
  BY DEF TypeOK
<1>1. CASE UNCHANGED vars
  BY <1>1 DEF TypeOK, vars
<1>2. ASSUME NEW r \in Req, CreateExam(r) PROVE TypeOK'
  <2> PICK p \in Teacher \cup Staff, e \in Exam, k \in Class, plan \in Plans :
        /\ Arrive(r, "create", "done", p, e, <<>>)
        /\ exams' = [exams EXCEPT ![e] = [status |-> "DRAFT", creator |-> p,
                         class |-> k, plan |-> plan, editor |-> r]]
        /\ UNCHANGED <<rows, imports, tx>>
    BY <1>2 DEF CreateExam
  <2>1. p \in Person
    BY DEF Person
  <2>2. [status |-> "DRAFT", creator |-> p, class |-> k, plan |-> plan, editor |-> r] \in ExamRow
    BY <2>1 DEF ExamRow, Status
  <2>3. exams' \in [Exam -> ExamRow \cup {NoExam}]
    BY <2>2, <1>0
  <2>4. Arrived(r, "create", "done", p, e, <<>>)
    BY <2>1, ArriveTypes
  <2> QED BY <2>3, <2>4, <1>0, <1>01 DEF TypeOK, Arrived
<1>3. ASSUME NEW r \in Req, ReadExam(r) PROVE TypeOK'
  <2>1. PICK p \in Person, e \in Exam, op \in {"update", "publish", "withdraw"} :
           Arrived(r, op, "write", p, e, <<>>)
    BY <1>3, ArriveTypes DEF ReadExam
  <2>2. UNCHANGED <<exams, rows, imports, tx>>
    BY <1>3 DEF ReadExam
  <2> QED BY <2>1, <2>2, <1>0, <1>01 DEF TypeOK, Arrived
<1>4. ASSUME NEW r \in Req, ValidateSave(r) PROVE TypeOK'
  <2>1. PICK p \in Person, e \in Exam, batch \in Batches :
           Arrived(r, "save", "apply", p, e, batch)
    BY <1>4, ArriveTypes DEF ValidateSave
  <2>2. UNCHANGED <<exams, rows, imports, tx>>
    BY <1>4 DEF ValidateSave
  <2> QED BY <2>1, <2>2, <1>0, <1>01 DEF TypeOK, Arrived
<1>5. ASSUME NEW r \in Req, StartImport(r) PROVE TypeOK'
  <2> PICK p \in Person, e \in Exam, batch \in Batches :
        /\ Arrive(r, "import", IF WellFormed(batch) /\ Distinct(batch) THEN "validate"
                               ELSE "fail", p, e, batch)
        /\ imports' = [imports EXCEPT ![r] = "VALIDATING"]
        /\ UNCHANGED <<exams, rows, tx>>
    BY <1>5 DEF StartImport
  <2>1. imports' \in [Req -> ImportStatus \cup {"none"}]
    BY <1>0 DEF ImportStatus
  <2>2. PICK pc \in {"validate", "fail"} : Arrive(r, "import", pc, p, e, batch)
    OBVIOUS
  <2>3. Arrived(r, "import", pc, p, e, batch)
    BY <2>2, ArriveTypes
  <2> QED BY <2>1, <2>3, <1>0, <1>01 DEF TypeOK, Arrived, ImportStatus
<1>6. ASSUME NEW r \in Req, WriteUpdate(r) \/ WritePublish(r) \/ WriteWithdraw(r)
      PROVE  TypeOK'
  <2> DEFINE x == req[r].exam
  <2>1. r \in DOMAIN req /\ req[r] \in Request /\ x \in Exam /\ exams[x] \in ExamRow
    BY <1>6, <1>0 DEF RequestInv, RequestOK, Request, Ended, WriteUpdate, WritePublish, WriteWithdraw, At
  <2>2. exams' \in [Exam -> ExamRow \cup {NoExam}]
    <3>1. CASE exams' = [exams EXCEPT ![x] = [@ EXCEPT !.editor = r]]
      <4>1. [exams[x] EXCEPT !.editor = r] \in ExamRow
        BY <2>1 DEF ExamRow
      <4> QED BY <3>1, <4>1, <2>1, <1>0
    <3>2. ASSUME NEW s \in Status, exams' = [exams EXCEPT ![x] = [@ EXCEPT !.status = s]]
          PROVE  exams' \in [Exam -> ExamRow \cup {NoExam}]
      <4>1. [exams[x] EXCEPT !.status = s] \in ExamRow
        BY <2>1 DEF ExamRow
      <4> QED BY <3>2, <4>1, <2>1, <1>0
    <3>3. CASE exams' = exams
      BY <3>3, <1>0
    <3> QED BY <1>6, <3>1, <3>2, <3>3 DEF WriteUpdate, WritePublish, WriteWithdraw, Status
  <2>3. PICK pc \in {"done", "refused"} : Return(r, pc)
    BY <1>6 DEF WriteUpdate, WritePublish, WriteWithdraw
  <2>4. UNCHANGED <<rows, imports, tx>>
    BY <1>6 DEF WriteUpdate, WritePublish, WriteWithdraw
  <2>5. Moved(r, pc)
    BY <2>1, <2>3, ReturnTypes
  <2> QED BY <2>1, <2>2, <2>4, <2>5, <1>0, <1>01 DEF TypeOK, Moved
<1>7. ASSUME NEW r \in Req, ValidateImport(r) PROVE TypeOK'
  <2>1. PICK pc \in {"apply", "fail"} : Goto(r, pc)
    BY <1>7 DEF ValidateImport
  <2>2. r \in DOMAIN req /\ req[r].op = "import" /\ UNCHANGED <<exams, rows, imports, tx>>
    BY <1>7 DEF ValidateImport, At
  <2>3. Moved(r, pc)
    BY <2>1, <2>2, GotoTypes
  <2> QED BY <2>1, <2>2, <2>3, <1>0, <1>01 DEF TypeOK, Moved
<1>8. ASSUME NEW r \in Req, ApplyCell(r) PROVE TypeOK'
  <2> DEFINE i == req[r].next
  <2>1. r \in DOMAIN req /\ Applying(r) /\ req[r] \in Request /\ i \in 1..Len(Batch(r))
    BY <1>8, <1>0 DEF ApplyCell, HasNext, Applying, Request
  <2>2. NextCell(r) \in Cell /\ NewRow(r) \in ScoreRow
    BY <2>1, RowTypes DEF NextCell, NewRow
  <2>3. tx' \in [Req -> [Cell -> ScoreRow \cup {NoRow}]]
    <3>1. tx' = [tx EXCEPT ![r] = [@ EXCEPT ![NextCell(r)] = NewRow(r)]]
      BY <1>8 DEF ApplyCell
    <3> QED BY <3>1, <2>2, <1>0
  <2>4. [req[r] EXCEPT !.next = i + 1] \in Request
    BY <2>1 DEF Request
  <2>5. req' = [req EXCEPT ![r] = [req[r] EXCEPT !.next = i + 1]]
    BY <1>8 DEF ApplyCell
  <2>6. req' \in [DOMAIN req' -> Request] /\ DOMAIN req' = DOMAIN req
    BY <2>4, <2>5, <1>0
  <2>7. \A q \in DOMAIN req : req'[q].op = req[q].op /\ req'[q].pc = req[q].pc
    BY <2>1, <2>5, <1>0 DEF Request
  <2>8. UNCHANGED <<exams, rows, imports>>
    BY <1>8 DEF ApplyCell
  <2> QED BY <2>3, <2>6, <2>7, <2>8, <1>0, <1>01 DEF TypeOK
<1>9. ASSUME NEW r \in Req, Commit(r) PROVE TypeOK'
  <2>1. r \in DOMAIN req /\ req[r] \in Request
    BY <1>9, <1>0 DEF Commit, Applying
  <2>2. rows' \in [Exam -> [Cell -> ScoreRow \cup {NoRow}]]
    BY <1>9, <1>0, <2>1 DEF Commit, Request
  <2>3. imports' \in [Req -> ImportStatus \cup {"none"}]
        /\ \A q \in Req : imports'[q] = "none" <=> imports[q] = "none"
    BY <1>9, <1>0, <2>1 DEF Commit, ImportStatus, TypeOK
  <2>4. tx' \in [Req -> [Cell -> ScoreRow \cup {NoRow}]]
    BY <1>9, <1>0 DEF Commit, Released
  <2>5. Return(r, "done") /\ UNCHANGED exams
    BY <1>9 DEF Commit
  <2>6. Moved(r, "done")
    BY <2>1, <2>5, ReturnTypes
  <2>6a. \A q \in DOMAIN req : req'[q].op = req[q].op
            /\ (req'[q].pc \in {"validate", "fail"} => req[q].pc \in {"validate", "fail"})
    BY <2>1, <2>6 DEF Moved
  <2>6b. DOMAIN req' = DOMAIN req /\ req' \in [DOMAIN req' -> Request]
    BY <2>6 DEF Moved
  <2>6c. /\ \A q \in Req : imports'[q] # "none" <=> (q \in DOMAIN req' /\ req'[q].op = "import")
        /\ \A q \in DOMAIN req' : req'[q].pc \in {"validate", "fail"} => req'[q].op = "import"
    BY <2>6a, <2>6b, <2>3, <1>01
  <2> QED BY <2>2, <2>3, <2>4, <2>5, <2>6b, <2>6c, <1>0 DEF TypeOK
<1>10. ASSUME NEW r \in Req, Rollback(r) PROVE TypeOK'
  <2>1. r \in DOMAIN req /\ req[r] \in Request
    BY <1>10, <1>0 DEF Rollback, Applying
  <2>2. tx' \in [Req -> [Cell -> ScoreRow \cup {NoRow}]]
    BY <1>10, <1>0 DEF Rollback, Released
  <2>3. UNCHANGED <<exams, rows, imports>>
    BY <1>10 DEF Rollback
  <2>4. CASE req[r].op = "import" /\ Goto(r, "fail")
    <3>1. Moved(r, "fail")
      BY <2>1, <2>4, GotoTypes
    <3> QED BY <2>1, <2>2, <2>3, <2>4, <3>1, <1>0, <1>01 DEF TypeOK, Moved
  <2>5. CASE Return(r, "refused")
    <3>1. Moved(r, "refused")
      BY <2>1, <2>5, ReturnTypes
    <3> QED BY <2>1, <2>2, <2>3, <3>1, <1>0, <1>01 DEF TypeOK, Moved
  <2> QED BY <1>10, <2>4, <2>5 DEF Rollback
<1>11. ASSUME NEW r \in Req, FailImport(r) PROVE TypeOK'
  <2>1. r \in DOMAIN req /\ req[r] \in Request
    BY <1>11, <1>0 DEF FailImport, At
  <2>2. imports' \in [Req -> ImportStatus \cup {"none"}]
        /\ \A q \in Req : imports'[q] = "none" <=> imports[q] = "none"
    BY <1>11, <1>0, <2>1 DEF FailImport, ImportStatus, TypeOK, At
  <2>3. Return(r, "done") /\ UNCHANGED <<exams, rows, tx>>
    BY <1>11 DEF FailImport
  <2>4. Moved(r, "done")
    BY <2>1, <2>3, ReturnTypes
  <2>4a. \A q \in DOMAIN req : req'[q].op = req[q].op
            /\ (req'[q].pc \in {"validate", "fail"} => req[q].pc \in {"validate", "fail"})
    BY <2>1, <2>4 DEF Moved
  <2>4b. DOMAIN req' = DOMAIN req /\ req' \in [DOMAIN req' -> Request]
    BY <2>4 DEF Moved
  <2>4c. /\ \A q \in Req : imports'[q] # "none" <=> (q \in DOMAIN req' /\ req'[q].op = "import")
        /\ \A q \in DOMAIN req' : req'[q].pc \in {"validate", "fail"} => req'[q].op = "import"
    BY <2>4a, <2>4b, <2>2, <1>01
  <2> QED BY <2>2, <2>3, <2>4b, <2>4c, <1>0 DEF TypeOK
<1>12. CASE Crash
  <2>1. DOMAIN req' = DOMAIN req
    BY <1>12 DEF Crash
  <2>2. \A q \in DOMAIN req : req'[q] \in Request /\ req'[q].op = req[q].op
            /\ Ended(q)'
    <3> SUFFICES ASSUME NEW q \in DOMAIN req
                 PROVE  req'[q] \in Request /\ req'[q].op = req[q].op /\ Ended(q)'
      OBVIOUS
    <3>1. req[q] \in Request
      BY <1>0
    <3>2. req'[q] = IF Ended(q) THEN req[q] ELSE Ending(req[q], "crashed")
      BY <1>12 DEF Crash
    <3>3. CASE Ended(q)
      BY <3>1, <3>2, <3>3 DEF Ended
    <3>4. CASE ~Ended(q)
      <4>1. req'[q] = [op |-> req[q].op, pc |-> "crashed", actor |-> req[q].actor,
                       exam |-> req[q].exam, batch |-> <<>>, next |-> 1]
        BY <3>1, <3>2, <3>4, EndingTypes
      <4>2. req'[q] \in Request
        BY <3>1, <3>2, <3>4, EndingTypes
      <4> QED BY <4>1, <4>2 DEF Ended
    <3> QED BY <3>3, <3>4
  <2>3. req' \in [DOMAIN req' -> Request]
    BY <1>12, <2>1, <2>2 DEF Crash
  <2>4. tx' \in [Req -> [Cell -> ScoreRow \cup {NoRow}]]
    BY <1>12 DEF Crash, Released
  <2>5. UNCHANGED <<exams, rows, imports>>
    BY <1>12 DEF Crash
  <2> QED BY <2>1, <2>2, <2>3, <2>4, <2>5, <1>0, <1>01 DEF TypeOK, Ended
<1> QED
  BY <1>1, <1>2, <1>3, <1>4, <1>5, <1>6, <1>7, <1>8, <1>9, <1>10, <1>11, <1>12 DEF Next

--------------------------------------------------------------------------------
\* What a request has checked stays true while others run.
LEMMA RequestKept ==
    ASSUME IInv, [Next]_vars, NEW q \in DOMAIN req, req'[q] = req[q]
    PROVE  RequestOK(q)'
<1>1. RequestOK(q) /\ req[q] \in Request
  BY DEF IInv, RequestInv, TypeOK
<1>2. SameExam(req[q].exam)
  BY <1>1, ExamsStable DEF Request
<1>3. ~Ended(q) => exams'[req[q].exam] # NoExam
  BY <1>1, <1>2 DEF RequestOK, SameExam
<1>4. req[q].pc = "write" /\ req[q].op = "withdraw" => exams'[req[q].exam].status # "DRAFT"
  BY <1>1, <1>2 DEF RequestOK, SameExam, Ended
<1>5. req[q].pc = "apply" => Entitled(req[q].actor, exams'[req[q].exam], req[q].batch)
  <2> HAVE req[q].pc = "apply"
  <2>1. Entitled(req[q].actor, exams[req[q].exam], req[q].batch)
    BY <1>1 DEF RequestOK
  <2>2. /\ exams'[req[q].exam].plan = exams[req[q].exam].plan
        /\ exams'[req[q].exam].class = exams[req[q].exam].class
    BY <1>1, <1>2 DEF RequestOK, SameExam, Ended
  <2> QED BY <2>1, <2>2 DEF Entitled, TeachesAll, CellAccepted
<1> QED BY <1>1, <1>3, <1>4, <1>5 DEF RequestOK, Ended

LEMMA RequestStep == ASSUME IInv, [Next]_vars PROVE RequestInv'
<1> TypeOK /\ RequestInv /\ TypeOK'
  BY TypeStep DEF IInv
<1>0. /\ req \in [DOMAIN req -> Request]
      /\ exams \in [Exam -> ExamRow \cup {NoExam}]
  BY DEF TypeOK
<1>1. CASE UNCHANGED vars
  BY <1>1, RequestKept DEF RequestInv, vars
\* An arriving request that was admitted.
<1>2. ASSUME NEW r \in Req, NEW op, NEW pc, NEW p, NEW e, NEW batch,
             Arrived(r, op, pc, p, e, batch), RequestOK(r)'
      PROVE  RequestInv'
  BY <1>2, RequestKept DEF RequestInv, Arrived
\* A request that moves on.
<1>3. ASSUME NEW r \in DOMAIN req, NEW pc, Moved(r, pc), RequestOK(r)'
      PROVE  RequestInv'
  BY <1>3, RequestKept DEF RequestInv, Moved
<1>4. ASSUME NEW r \in DOMAIN req, NEW pc \in {"done", "refused"}, Return(r, pc)
      PROVE  RequestInv'
  <2>1. Moved(r, pc)
    BY <1>4, ReturnTypes
  <2>2. RequestOK(r)'
    BY <2>1 DEF RequestOK, Ended, Moved
  <2> QED BY <2>1, <2>2, <1>3
<1>5. ASSUME NEW r \in Req, CreateExam(r) PROVE RequestInv'
  <2>1. PICK p \in Person, e \in Exam : Arrive(r, "create", "done", p, e, <<>>)
    BY <1>5 DEF CreateExam, Person
  <2>2. Arrived(r, "create", "done", p, e, <<>>)
    BY <2>1, ArriveTypes
  <2>3. RequestOK(r)'
    BY <2>2 DEF RequestOK, Ended, Arrived
  <2> QED BY <2>2, <2>3, <1>2
<1>6. ASSUME NEW r \in Req, ReadExam(r) PROVE RequestInv'
  <2>1. PICK p \in Person, e \in Exam, op \in {"update", "publish", "withdraw"} :
           /\ Sees(p, e, IF op = "withdraw" THEN "PUBLISHED" ELSE "DRAFT")
           /\ Arrive(r, op, "write", p, e, <<>>)
           /\ exams' = exams
    BY <1>6 DEF ReadExam
  <2>2. Arrived(r, op, "write", p, e, <<>>)
    BY <2>1, ArriveTypes
  <2>3. RequestOK(r)'
    BY <2>1, <2>2 DEF RequestOK, Ended, Sees, Arrived
  <2> QED BY <2>2, <2>3, <1>2
<1>7. ASSUME NEW r \in Req, ValidateSave(r) PROVE RequestInv'
  <2>1. PICK p \in Person, e \in Exam, batch \in Batches :
           /\ exams[e] # NoExam /\ WellFormed(batch) /\ Validates(p, e, batch)
           /\ Arrive(r, "save", "apply", p, e, batch)
           /\ exams' = exams
    BY <1>7 DEF ValidateSave
  <2>2. Arrived(r, "save", "apply", p, e, batch)
    BY <2>1, ArriveTypes
  <2>3. Entitled(p, exams[e], batch) /\ Distinct(batch)
    BY <2>1 DEF Validates, Entitled
  <2>4. RequestOK(r)'
    BY <2>1, <2>2, <2>3 DEF RequestOK, Ended, Arrived
  <2> QED BY <2>2, <2>4, <1>2
<1>8. ASSUME NEW r \in Req, StartImport(r) PROVE RequestInv'
  <2>1. PICK p \in Person, e \in Exam, batch \in Batches :
           /\ exams[e] # NoExam
           /\ Arrive(r, "import", IF WellFormed(batch) /\ Distinct(batch) THEN "validate"
                                  ELSE "fail", p, e, batch)
           /\ exams' = exams
    BY <1>8 DEF StartImport
  <2>2. PICK pc \in {"validate", "fail"} :
           /\ Arrive(r, "import", pc, p, e, batch)
           /\ pc = "validate" => WellFormed(batch) /\ Distinct(batch)
    BY <2>1
  <2>3. Arrived(r, "import", pc, p, e, batch)
    BY <2>2, ArriveTypes
  <2>4. RequestOK(r)'
    BY <2>1, <2>2, <2>3 DEF RequestOK, Ended, Arrived
  <2> QED BY <2>3, <2>4, <1>2
<1>9. ASSUME NEW r \in Req, WriteUpdate(r) \/ WritePublish(r) \/ WriteWithdraw(r) \/ FailImport(r)
      PROVE  RequestInv'
  BY <1>9, <1>4 DEF WriteUpdate, WritePublish, WriteWithdraw, FailImport, At
<1>10. ASSUME NEW r \in Req, Commit(r) PROVE RequestInv'
  BY <1>10, <1>4 DEF Commit, Applying
<1>11. ASSUME NEW r \in Req, ValidateImport(r) PROVE RequestInv'
  <2> DEFINE ok == Validates(req[r].actor, req[r].exam, req[r].batch)
  <2>1. r \in DOMAIN req /\ req[r].pc = "validate" /\ RequestOK(r) /\ exams' = exams
    BY <1>11 DEF ValidateImport, At, RequestInv
  <2>2. PICK pc \in {"apply", "fail"} : Goto(r, pc) /\ (pc = "apply" => ok)
    BY <1>11 DEF ValidateImport
  <2>3. Moved(r, pc)
    BY <2>1, <2>2, GotoTypes
  <2>4. ok => Entitled(req[r].actor, exams[req[r].exam], req[r].batch)
    BY DEF Validates, Entitled
  <2>5. RequestOK(r)'
    BY <2>1, <2>2, <2>3, <2>4 DEF RequestOK, Ended, Moved
  <2> QED BY <2>1, <2>3, <2>5, <1>3
<1>12. ASSUME NEW r \in Req, Rollback(r) PROVE RequestInv'
  <2>1. r \in DOMAIN req /\ req[r].pc = "apply" /\ RequestOK(r) /\ exams' = exams
    BY <1>12 DEF Rollback, Applying, RequestInv
  <2>2. CASE Goto(r, "fail")
    <3>1. Moved(r, "fail")
      BY <2>1, <2>2, GotoTypes
    <3>2. RequestOK(r)'
      BY <2>1, <3>1 DEF RequestOK, Ended, Moved
    <3> QED BY <2>1, <3>1, <3>2, <1>3
  <2> QED BY <1>12, <2>1, <2>2, <1>4 DEF Rollback
<1>13. ASSUME NEW r \in Req, ApplyCell(r) PROVE RequestInv'
  <2>1. r \in DOMAIN req /\ req[r] \in Request /\ RequestOK(r) /\ exams' = exams
        /\ req' = [req EXCEPT ![r] = [req[r] EXCEPT !.next = req[r].next + 1]]
    BY <1>13, <1>0 DEF ApplyCell, HasNext, Applying, RequestInv
  <2>2. /\ DOMAIN req' = DOMAIN req
        /\ \A q \in DOMAIN req : q # r => req'[q] = req[q]
        /\ req'[r].op = req[r].op /\ req'[r].pc = req[r].pc /\ req'[r].actor = req[r].actor
        /\ req'[r].exam = req[r].exam /\ req'[r].batch = req[r].batch
    BY <2>1 DEF Request
  <2>3. RequestOK(r)'
    <3>1. req[r].pc = "apply"
      BY <1>13 DEF ApplyCell, HasNext, Applying
    <3> QED BY <2>1, <2>2, <3>1 DEF RequestOK, Ended
  <2> QED BY <2>2, <2>3, RequestKept DEF RequestInv
<1>14. CASE Crash
  <2>1. DOMAIN req' = DOMAIN req /\ \A q \in DOMAIN req :
            req'[q] = IF Ended(q) THEN req[q] ELSE Ending(req[q], "crashed")
    BY <1>14 DEF Crash
  <2>2. ASSUME NEW q \in DOMAIN req, ~Ended(q) PROVE RequestOK(q)'
    <3>1. req'[q].pc = "crashed"
      BY <2>1, <2>2, <1>0, EndingTypes
    <3> QED BY <3>1 DEF RequestOK, Ended
  <2>3. ASSUME NEW q \in DOMAIN req, Ended(q) PROVE RequestOK(q)'
    BY <2>1, <2>3, RequestKept
  <2> QED BY <2>1, <2>2, <2>3 DEF RequestInv
<1> QED
  BY <1>1, <1>5, <1>6, <1>7, <1>8, <1>9, <1>10, <1>11, <1>12, <1>13, <1>14 DEF Next

--------------------------------------------------------------------------------
\* The rows of open transactions.
LEMMA TxKept ==
    ASSUME IInv, NEW q \in Req, tx'[q] = tx[q],
           (q \in DOMAIN req) <=> (q \in DOMAIN req'),
           q \in DOMAIN req => req'[q] = req[q]
    PROVE  TxOK(q)'
<1>1. TxOK(q)
  BY DEF IInv, TxInv
<1>2. Applying(q)' <=> Applying(q)
  BY DEF Applying
<1>3. ASSUME q \in DOMAIN req
      PROVE  /\ Batch(q)' = Batch(q) /\ req'[q].next = req[q].next
             /\ \A i : CellAt(q, i)' = CellAt(q, i) /\ RowAt(q, i)' = RowAt(q, i)
  BY <1>3 DEF Batch, CellAt, RowAt
<1>4. CASE Applying(q)
  <2> q \in DOMAIN req
    BY <1>4 DEF Applying
  <2> QED BY <1>1, <1>2, <1>3 DEF TxOK
<1>5. CASE ~Applying(q)
  BY <1>1, <1>2, <1>5 DEF TxOK
<1> QED BY <1>4, <1>5

LEMMA TxEmpty ==
    ASSUME NEW q \in Req, \A c \in Cell : tx'[q][c] = NoRow,
           Applying(q)' => req'[q].next = 1
    PROVE  TxOK(q)'
  BY DEF TxOK

LEMMA TxIdle ==
    ASSUME IInv, NEW q \in Req, ~Applying(q)
    PROVE  \A c \in Cell : tx[q][c] = NoRow
  BY DEF IInv, TxInv, TxOK

LEMMA TxStep == ASSUME IInv, [Next]_vars PROVE TxInv'
<1> TypeOK /\ RequestInv /\ TxInv /\ TypeOK'
  BY TypeStep DEF IInv
<1>0. /\ req \in [DOMAIN req -> Request] /\ DOMAIN req \subseteq Req
      /\ tx \in [Req -> [Cell -> ScoreRow \cup {NoRow}]]
  BY DEF TypeOK
<1>1. CASE UNCHANGED vars
  BY <1>1, TxKept DEF TxInv, vars
<1>2. ASSUME NEW r \in Req, NEW op, NEW pc, NEW p, NEW e, NEW batch,
             Arrived(r, op, pc, p, e, batch), tx' = tx
      PROVE  TxInv'
  <2>1. ~Applying(r)
    BY <1>2 DEF Arrived, Applying
  <2>2. TxOK(r)'
    BY <1>2, <2>1, TxIdle, TxEmpty DEF Arrived
  <2>3. ASSUME NEW q \in Req, q # r PROVE TxOK(q)'
    BY <1>2, <2>3, TxKept DEF Arrived
  <2> QED BY <2>2, <2>3 DEF TxInv
<1>3. ASSUME NEW r \in DOMAIN req, NEW pc, Moved(r, pc), pc # "apply",
             \A c \in Cell : tx'[r][c] = NoRow,
             \A q \in Req : q # r => tx'[q] = tx[q]
      PROVE  TxInv'
  <2>1. TxOK(r)'
    BY <1>0, <1>3, TxEmpty DEF Moved, Applying
  <2>2. ASSUME NEW q \in Req, q # r PROVE TxOK(q)'
    BY <1>3, <2>2, TxKept DEF Moved
  <2> QED BY <2>1, <2>2 DEF TxInv
<1>4. ASSUME NEW r \in DOMAIN req, NEW pc \in {"done", "refused"}, Return(r, pc),
             tx' = tx, ~Applying(r)
      PROVE  TxInv'
  <2>1. Moved(r, pc)
    BY <1>4, ReturnTypes
  <2>2. \A c \in Cell : tx[r][c] = NoRow
    BY <1>0, <1>4, TxIdle
  <2> QED BY <1>3, <1>4, <2>1, <2>2
<1>5. ASSUME NEW r \in DOMAIN req, Applying(r), tx' = [tx EXCEPT ![r] = Released],
             Return(r, "done") \/ Return(r, "refused") \/ Goto(r, "fail")
      PROVE  TxInv'
  <2>1. PICK pc \in {"done", "refused", "fail"} : Moved(r, pc)
    BY <1>5, ReturnTypes, GotoTypes
  <2>2. \A c \in Cell : tx'[r][c] = NoRow
    BY <1>0, <1>5 DEF Released
  <2>3. \A q \in Req : q # r => tx'[q] = tx[q]
    BY <1>0, <1>5
  <2> QED BY <1>3, <2>1, <2>2, <2>3
<1>6. ASSUME NEW r \in Req, CreateExam(r) \/ ReadExam(r) \/ ValidateSave(r) \/ StartImport(r)
      PROVE  TxInv'
  <2>1. CASE CreateExam(r)
    <3>1. PICK p \in Person, e \in Exam : Arrive(r, "create", "done", p, e, <<>>)
      BY <2>1 DEF CreateExam, Person
    <3>2. Arrived(r, "create", "done", p, e, <<>>)
      BY <3>1, ArriveTypes
    <3> QED BY <1>2, <2>1, <3>2 DEF CreateExam
  <2>2. CASE ReadExam(r)
    <3>1. PICK p \in Person, e \in Exam, op \in {"update", "publish", "withdraw"} :
             Arrive(r, op, "write", p, e, <<>>)
      BY <2>2 DEF ReadExam
    <3>2. Arrived(r, op, "write", p, e, <<>>)
      BY <3>1, ArriveTypes
    <3> QED BY <1>2, <2>2, <3>2 DEF ReadExam
  <2>3. CASE ValidateSave(r)
    <3>1. PICK p \in Person, e \in Exam, batch \in Batches :
             Arrive(r, "save", "apply", p, e, batch)
      BY <2>3 DEF ValidateSave
    <3>2. Arrived(r, "save", "apply", p, e, batch)
      BY <3>1, ArriveTypes
    <3> QED BY <1>2, <2>3, <3>2 DEF ValidateSave
  <2>4. CASE StartImport(r)
    <3>1. PICK p \in Person, e \in Exam, batch \in Batches, pc \in {"validate", "fail"} :
             Arrive(r, "import", pc, p, e, batch)
      BY <2>4 DEF StartImport
    <3>2. Arrived(r, "import", pc, p, e, batch)
      BY <3>1, ArriveTypes
    <3> QED BY <1>2, <2>4, <3>2 DEF StartImport
  <2> QED BY <1>6, <2>1, <2>2, <2>3, <2>4
<1>7. ASSUME NEW r \in Req, WriteUpdate(r) \/ WritePublish(r) \/ WriteWithdraw(r) \/ FailImport(r)
      PROVE  TxInv'
  BY <1>7, <1>4 DEF WriteUpdate, WritePublish, WriteWithdraw, FailImport, At, Applying
<1>8. ASSUME NEW r \in Req, Commit(r) \/ Rollback(r) PROVE TxInv'
  BY <1>8, <1>5 DEF Commit, Rollback, Applying
<1>9. ASSUME NEW r \in Req, ValidateImport(r) PROVE TxInv'
  <2>1. r \in DOMAIN req /\ ~Applying(r) /\ req[r].next = 1 /\ tx' = tx
    BY <1>9 DEF ValidateImport, At, Applying, RequestInv, RequestOK
  <2>2. PICK pc \in {"apply", "fail"} : Goto(r, pc)
    BY <1>9 DEF ValidateImport
  <2>3. Moved(r, pc)
    BY <2>1, <2>2, GotoTypes
  <2>4. TxOK(r)'
    BY <1>0, <2>1, <2>3, TxIdle, TxEmpty DEF Moved
  <2>5. ASSUME NEW q \in Req, q # r PROVE TxOK(q)'
    BY <2>1, <2>3, <2>5, TxKept DEF Moved
  <2> QED BY <2>4, <2>5 DEF TxInv
<1>10. ASSUME NEW r \in Req, ApplyCell(r) PROVE TxInv'
  <2> DEFINE n == req[r].next
             c0 == NextCell(r)
  <2>1. /\ r \in DOMAIN req /\ req[r] \in Request /\ Applying(r) /\ n \in 1..Len(Batch(r))
        /\ req' = [req EXCEPT ![r] = [req[r] EXCEPT !.next = n + 1]]
        /\ tx' = [tx EXCEPT ![r] = [tx[r] EXCEPT ![c0] = RowAt(r, n)]]
    BY <1>10, <1>0 DEF ApplyCell, HasNext, Applying, Request, NewRow
  <2>2. /\ DOMAIN req' = DOMAIN req
        /\ \A q \in DOMAIN req : q # r => req'[q] = req[q]
        /\ req'[r].pc = req[r].pc /\ req'[r].actor = req[r].actor
        /\ req'[r].batch = req[r].batch /\ req'[r].next = n + 1
    BY <2>1 DEF Request
  <2>3. /\ Applying(r)' /\ Batch(r)' = Batch(r)
        /\ \A i : CellAt(r, i)' = CellAt(r, i) /\ RowAt(r, i)' = RowAt(r, i)
    BY <2>1, <2>2 DEF Applying, Batch, CellAt, RowAt
  <2>4. c0 \in Cell /\ c0 = CellAt(r, n)
    BY <2>1, RowTypes DEF NextCell
  <2>5. /\ tx'[r][c0] = RowAt(r, n)
        /\ \A c \in Cell : c # c0 => tx'[r][c] = tx[r][c]
        /\ \A q \in Req : q # r => tx'[q] = tx[q]
    BY <1>0, <2>1, <2>4
  <2>6. TxOK(r) /\ Distinct(Batch(r)) /\ n \in Nat /\ Len(Batch(r)) \in Nat
    <3>1. Batch(r) \in Batches \cup {<<>>} /\ n \in Nat
      BY <2>1 DEF Request, Batch
    <3>2. Batch(r) \in Seq(ScoreCell \cup {Malformed})
      <4>1. CASE Batch(r) = <<>>
        <5> <<>> \in Seq(ScoreCell \cup {Malformed})
          OBVIOUS
        <5> QED BY <4>1
      <4>2. CASE Batch(r) \in Batches
        BY <4>2, StaticData
      <4> QED BY <3>1, <4>1, <4>2
    <3>3. Distinct(Batch(r))
      BY <2>1 DEF RequestInv, RequestOK, Applying, Batch
    <3> QED BY <2>1, <3>1, <3>2, <3>3 DEF TxInv
  <2>7. ASSUME NEW c \in Cell, tx'[r][c] # NoRow
        PROVE  \E i \in 1..Len(Batch(r)) :
                  i < n + 1 /\ CellAt(r, i) = c /\ tx'[r][c] = RowAt(r, i)
    <3>1. CASE c = c0
      BY <2>1, <2>4, <2>5, <2>6, <3>1
    <3>2. CASE c # c0
      <4>1. PICK i \in 1..Len(Batch(r)) :
                i < n /\ CellAt(r, i) = c /\ tx[r][c] = RowAt(r, i)
        BY <2>5, <2>6, <2>7, <3>2 DEF TxOK
      <4> QED BY <4>1, <2>5, <2>6, <3>2
    <3> QED BY <3>1, <3>2
  <2>8. ASSUME NEW i \in 1..Len(Batch(r)), i < n + 1
        PROVE  tx'[r][CellAt(r, i)] = RowAt(r, i)
    <3>1. CASE i = n
      BY <2>4, <2>5, <3>1
    <3>2. CASE i # n
      <4>1. i < n
        BY <2>6, <2>8, <3>2
      <4>2. CellAt(r, i) # c0
        BY <2>1, <2>4, <2>6, <3>2 DEF Distinct, CellAt
      <4>3. CellAt(r, i) \in Cell
        BY <2>1, RowTypes
      <4>4. tx[r][CellAt(r, i)] = RowAt(r, i)
        BY <2>1, <2>6, <4>1 DEF TxOK
      <4> QED BY <2>5, <4>2, <4>3, <4>4
    <3> QED BY <3>1, <3>2
  <2>9. TxOK(r)'
    BY <2>2, <2>3, <2>7, <2>8 DEF TxOK
  <2>10. ASSUME NEW q \in Req, q # r PROVE TxOK(q)'
    BY <2>2, <2>5, <2>10, TxKept
  <2> QED BY <2>9, <2>10 DEF TxInv
<1>11. CASE Crash
  <2>1. DOMAIN req' = DOMAIN req /\ \A q \in DOMAIN req :
            req'[q] = IF Ended(q) THEN req[q] ELSE Ending(req[q], "crashed")
    BY <1>11 DEF Crash
  <2>2. ASSUME NEW q \in Req PROVE TxOK(q)'
    <3>1. \A c \in Cell : tx'[q][c] = NoRow
      BY <1>11 DEF Crash, Released
    <3>2. ~Applying(q)'
      <4>1. ASSUME q \in DOMAIN req PROVE req'[q].pc # "apply"
        <5>1. CASE Ended(q)
          BY <2>1, <4>1, <5>1 DEF Ended
        <5>2. CASE ~Ended(q)
          <6>1. req'[q] = Ending(req[q], "crashed")
            BY <2>1, <4>1, <5>2
          <6> QED BY <6>1 DEF Ending
        <5> QED BY <5>1, <5>2
      <4> QED BY <2>1, <4>1 DEF Applying
    <3> QED BY <3>1, <3>2, TxEmpty
  <2> QED BY <2>2 DEF TxInv
<1> QED
  BY <1>1, <1>6, <1>7, <1>8, <1>9, <1>10, <1>11 DEF Next

\* IInv is inductive.
THEOREM Invariance == Spec => []IInv
<1>1. IInv /\ [Next]_vars => IInv'
  BY TypeStep, RequestStep, TxStep DEF IInv
<1> QED BY InitInv, <1>1, PTL DEF Spec

\* The type invariant of the component, for every set of requests and inputs.
THEOREM TypeCorrect == Spec => []TypeOK
<1>1. IInv => TypeOK
  BY DEF IInv
<1> QED BY Invariance, <1>1, PTL

--------------------------------------------------------------------------------
\* Only a commit writes scores; it writes what its transaction holds.
LEMMA RowsStep ==
    ASSUME IInv, [Next]_vars
    PROVE  \/ rows' = rows
           \/ \E r \in DOMAIN req :
                /\ Applying(r) /\ ~HasNext(r)
                /\ rows' = [rows EXCEPT ![req[r].exam] =
                       [c \in Cell |-> IF tx[r][c] = NoRow THEN @[c] ELSE tx[r][c]]]
  BY DEF Next, vars, CreateExam, ReadExam, ValidateSave, StartImport, WriteUpdate,
     WritePublish, WriteWithdraw, ValidateImport, ApplyCell, Commit, Rollback, FailImport,
     Crash, Applying

\* What an open transaction is about to write is acceptable for its exam.
LEMMA OpenRowsAccepted ==
    ASSUME IInv, NEW r \in DOMAIN req, Applying(r), NEW c \in Cell, tx[r][c] # NoRow
    PROVE  /\ exams[req[r].exam] # NoExam
           /\ RowAccepted(tx[r][c], c, exams[req[r].exam])
<1> DEFINE x == exams[req[r].exam]
<1>0. TypeOK /\ RequestInv /\ TxInv /\ r \in Req /\ req[r] \in Request
  BY DEF IInv, TypeOK
<1>1. PICK i \in 1..Len(Batch(r)) : CellAt(r, i) = c /\ tx[r][c] = RowAt(r, i)
  BY <1>0 DEF TxInv, TxOK
<1>2. x # NoExam /\ Entitled(req[r].actor, x, Batch(r))
  BY <1>0 DEF RequestInv, RequestOK, Applying, Ended, Batch
<1>3. CellAccepted(Batch(r)[i], x)
  BY <1>2 DEF Entitled
<1>4. c = <<Batch(r)[i].student, Batch(r)[i].subject>>
  BY <1>1 DEF CellAt, CellOf
<1>5. req[r].actor \in Staff \/ <<req[r].actor, x.class, Batch(r)[i].subject>> \in Assigned
  BY <1>2, <1>3 DEF Entitled, IsStaffActor, TeachesAll, CellAccepted
<1> QED BY <1>1, <1>2, <1>3, <1>4, <1>5 DEF RowAccepted, CellAccepted, RowAt

\* Whatever requests interleave, every committed score is one that validate() accepts
\* for its exam (ScoreEntryService.validate before apply, both entry paths).
THEOREM ScoresValid == Spec => []StoredScoresValid
<1>1. Init => StoredScoresValid
  BY DEF Init, StoredScoresValid
<1>2. IInv /\ StoredScoresValid /\ [Next]_vars => StoredScoresValid'
  <2> SUFFICES ASSUME IInv, StoredScoresValid, [Next]_vars,
                      NEW e \in Exam, NEW c \in Cell, rows'[e][c] # NoRow
               PROVE  exams'[e] # NoExam /\ RowAccepted(rows'[e][c], c, exams'[e])
    BY DEF StoredScoresValid
  <2>0. rows \in [Exam -> [Cell -> ScoreRow \cup {NoRow}]]
    BY DEF IInv, TypeOK
  <2>1. exams[e] # NoExam /\ RowAccepted(rows'[e][c], c, exams[e])
    <3>1. CASE rows' = rows
      BY <3>1 DEF StoredScoresValid
    <3>2. ASSUME NEW r \in DOMAIN req, Applying(r),
                 rows' = [rows EXCEPT ![req[r].exam] =
                       [d \in Cell |-> IF tx[r][d] = NoRow THEN @[d] ELSE tx[r][d]]]
          PROVE  exams[e] # NoExam /\ RowAccepted(rows'[e][c], c, exams[e])
      <4>1. CASE e = req[r].exam /\ tx[r][c] # NoRow
        <5>1. rows'[e][c] = tx[r][c]
          BY <2>0, <3>2, <4>1
        <5> QED BY <3>2, <4>1, <5>1, OpenRowsAccepted
      <4>2. CASE e # req[r].exam \/ tx[r][c] = NoRow
        <5>1. rows'[e][c] = rows[e][c]
          BY <2>0, <3>2, <4>2
        <5> QED BY <5>1 DEF StoredScoresValid
      <4> QED BY <4>1, <4>2
    <3> QED BY <3>1, <3>2, RowsStep
  <2>2. SameExam(e)
    BY ExamsStable
  <2> QED BY <2>1, <2>2 DEF SameExam, RowAccepted
<1> QED BY Invariance, <1>1, <1>2, PTL DEF Spec

\* publish() never shows an exam without subjects.
THEOREM PublishedExamsHaveSubjects == Spec => []PublishedHasSubjects
<1>1. Init => PublishedHasSubjects
  BY DEF Init, PublishedHasSubjects
<1>2. IInv /\ PublishedHasSubjects /\ [Next]_vars => PublishedHasSubjects'
  <2> SUFFICES ASSUME IInv, PublishedHasSubjects, [Next]_vars PROVE PublishedHasSubjects'
    OBVIOUS
  <2>0. exams \in [Exam -> ExamRow \cup {NoExam}] /\ NoExam \notin ExamRow
    BY Markers DEF IInv, TypeOK
  <2>1. CASE exams' = exams
    BY <2>1 DEF PublishedHasSubjects
  <2>2. ASSUME NEW r \in Req, CreateExam(r) PROVE PublishedHasSubjects'
    BY <2>0, <2>2 DEF CreateExam, PublishedHasSubjects
  <2>3. ASSUME NEW r \in Req, WriteUpdate(r) \/ WritePublish(r) \/ WriteWithdraw(r)
        PROVE  PublishedHasSubjects'
    <3> DEFINE x == req[r].exam
    <3>1. r \in DOMAIN req /\ req[r] \in Request /\ RequestOK(r)
      BY <2>3 DEF IInv, TypeOK, RequestInv, WriteUpdate, WritePublish, WriteWithdraw, At
    <3>2. x \in Exam /\ exams[x] \in ExamRow
      BY <2>0, <2>3, <3>1 DEF RequestOK, Request, Ended, WriteUpdate, WritePublish,
         WriteWithdraw, At
    <3>3. SameExam(x)
      BY <3>2, ExamsStable
    <3>4. \A e \in Exam : e # x => exams'[e] = exams[e]
      BY <2>0, <2>3, <3>2 DEF WriteUpdate, WritePublish, WriteWithdraw
    <3>5. exams'[x].status # "DRAFT" => DOMAIN exams[x].plan # {}
      <4>1. CASE WriteUpdate(r)
        <5>1. exams'[x] = [exams[x] EXCEPT !.editor = r]
          BY <2>0, <3>2, <4>1 DEF WriteUpdate
        <5> QED BY <2>0, <3>2, <5>1 DEF ExamRow, PublishedHasSubjects
      <4>2. CASE WritePublish(r)
        BY <2>0, <3>2, <4>2 DEF WritePublish, PublishedHasSubjects
      <4>3. CASE WriteWithdraw(r)
        BY <2>0, <3>1, <3>2, <4>3 DEF WriteWithdraw, At, RequestOK, PublishedHasSubjects
      <4> QED BY <2>3, <4>1, <4>2, <4>3
    <3> QED BY <2>0, <3>2, <3>3, <3>4, <3>5 DEF PublishedHasSubjects, SameExam
  <2> QED BY <2>1, <2>2, <2>3 DEF Next, vars, ReadExam, ValidateSave, StartImport,
       ValidateImport, ApplyCell, Commit, Rollback, FailImport, Crash
<1> QED BY Invariance, <1>1, <1>2, PTL DEF Spec

--------------------------------------------------------------------------------
\* Statuses: what one step may do to an exam that is not a draft.
LEMMA SealedStep ==
    ASSUME IInv, [Next]_vars, NEW e \in Exam, Sealed(e)
    PROVE  /\ Sealed(e)'
           /\ rows'[e] = rows[e]
           /\ exams'[e].editor = exams[e].editor
<1>0. /\ TypeOK /\ RequestInv
      /\ exams \in [Exam -> ExamRow \cup {NoExam}] /\ NoExam \notin ExamRow
      /\ rows \in [Exam -> [Cell -> ScoreRow \cup {NoRow}]]
      /\ req \in [DOMAIN req -> Request]
      /\ DOMAIN req \subseteq Req
      /\ exams[e] \in ExamRow /\ exams[e].status # "DRAFT" /\ NoWriterInFlight(e)
  BY Markers DEF IInv, TypeOK, Sealed
<1>1. exams'[e] # NoExam /\ exams'[e].status # "DRAFT"
  BY <1>0, ExamsStable DEF SameExam
<1>2. rows'[e] = rows[e]
  <2>1. ASSUME NEW r \in DOMAIN req, Applying(r) PROVE req[r].exam # e
    BY <1>0, <2>1 DEF NoWriterInFlight, Applying
  <2> QED BY <1>0, <2>1, RowsStep
<1>3. exams'[e].editor = exams[e].editor
  <2>1. CASE exams' = exams
    BY <2>1
  <2>2. ASSUME NEW r \in Req, CreateExam(r) PROVE exams'[e].editor = exams[e].editor
    BY <1>0, <2>2 DEF CreateExam
  <2>3. ASSUME NEW r \in Req, WriteUpdate(r) PROVE exams'[e].editor = exams[e].editor
    BY <1>0, <2>3 DEF WriteUpdate, NoWriterInFlight, At
  <2>4. ASSUME NEW r \in Req, WritePublish(r) \/ WriteWithdraw(r)
        PROVE  exams'[e].editor = exams[e].editor
    BY <1>0, <2>4 DEF WritePublish, WriteWithdraw, ExamRow
  <2> QED BY <2>1, <2>2, <2>3, <2>4 DEF Next, vars, ReadExam, ValidateSave, StartImport,
       ValidateImport, ApplyCell, Commit, Rollback, FailImport, Crash
\* A request that would become a writer of e must have read e as a draft.
<1>4. NoWriterInFlight(e)'
  <2> SUFFICES ASSUME NEW q \in DOMAIN req', req'[q].exam = e
               PROVE  req'[q].pc # "apply"
                      /\ ~(req'[q].op = "update" /\ req'[q].pc = "write")
    BY DEF NoWriterInFlight
  <2>1. CASE q \in DOMAIN req /\ req'[q] = req[q]
    BY <1>0, <2>1 DEF NoWriterInFlight
  <2>2. ASSUME NEW r \in Req, NEW op, NEW pc, NEW p, NEW x, NEW batch,
               Arrived(r, op, pc, p, x, batch),
               x = e => pc # "apply" /\ ~(op = "update" /\ pc = "write")
        PROVE  req'[q].pc # "apply"
               /\ ~(req'[q].op = "update" /\ req'[q].pc = "write")
    BY <2>1, <2>2 DEF Arrived
  <2>3. ASSUME NEW r \in DOMAIN req, NEW pc, Moved(r, pc),
               req[r].exam = e => pc \notin {"apply", "write"}
        PROVE  req'[q].pc # "apply"
               /\ ~(req'[q].op = "update" /\ req'[q].pc = "write")
    BY <2>1, <2>3 DEF Moved
  <2>4. CASE UNCHANGED vars
    BY <2>1, <2>4 DEF vars
  <2>5. ASSUME NEW r \in Req, CreateExam(r) PROVE req'[q].pc # "apply"
               /\ ~(req'[q].op = "update" /\ req'[q].pc = "write")
    <3>1. PICK p \in Person, x \in Exam : Arrive(r, "create", "done", p, x, <<>>)
      BY <2>5 DEF CreateExam, Person
    <3>2. Arrived(r, "create", "done", p, x, <<>>)
      BY <1>0, <3>1, ArriveTypes
    <3> QED BY <2>2, <3>2
  <2>6. ASSUME NEW r \in Req, ReadExam(r) PROVE req'[q].pc # "apply"
               /\ ~(req'[q].op = "update" /\ req'[q].pc = "write")
    <3>1. PICK p \in Person, x \in Exam, op \in {"update", "publish", "withdraw"} :
             /\ Sees(p, x, IF op = "withdraw" THEN "PUBLISHED" ELSE "DRAFT")
             /\ Arrive(r, op, "write", p, x, <<>>)
      BY <2>6 DEF ReadExam
    <3>2. Arrived(r, op, "write", p, x, <<>>)
      BY <1>0, <3>1, ArriveTypes
    <3>3. x = e => op # "update"
      BY <1>0, <3>1 DEF Sees
    <3> QED BY <2>2, <3>2, <3>3
  <2>7. ASSUME NEW r \in Req, ValidateSave(r) PROVE req'[q].pc # "apply"
               /\ ~(req'[q].op = "update" /\ req'[q].pc = "write")
    <3>1. PICK p \in Person, x \in Exam, batch \in Batches :
             Validates(p, x, batch) /\ Arrive(r, "save", "apply", p, x, batch)
      BY <2>7 DEF ValidateSave
    <3>2. Arrived(r, "save", "apply", p, x, batch)
      BY <1>0, <3>1, ArriveTypes
    <3>3. x # e
      BY <1>0, <3>1 DEF Validates
    <3> QED BY <2>2, <3>2, <3>3
  <2>8. ASSUME NEW r \in Req, StartImport(r) PROVE req'[q].pc # "apply"
               /\ ~(req'[q].op = "update" /\ req'[q].pc = "write")
    <3>1. PICK p \in Person, x \in Exam, batch \in Batches, pc \in {"validate", "fail"} :
             Arrive(r, "import", pc, p, x, batch)
      BY <2>8 DEF StartImport
    <3>2. Arrived(r, "import", pc, p, x, batch)
      BY <1>0, <3>1, ArriveTypes
    <3> QED BY <2>2, <3>2
  <2>9. ASSUME NEW r \in DOMAIN req, NEW pc \in {"done", "refused"}, Return(r, pc)
        PROVE  req'[q].pc # "apply"
               /\ ~(req'[q].op = "update" /\ req'[q].pc = "write")
    <3>1. Moved(r, pc)
      BY <1>0, <2>9, ReturnTypes
    <3> QED BY <2>3, <3>1
  <2>10. ASSUME NEW r \in Req, ValidateImport(r) PROVE req'[q].pc # "apply"
               /\ ~(req'[q].op = "update" /\ req'[q].pc = "write")
    <3>1. PICK pc \in {"apply", "fail"} : Goto(r, pc)
              /\ (pc = "apply" => Validates(req[r].actor, req[r].exam, req[r].batch))
      BY <2>10 DEF ValidateImport
    <3>2. r \in DOMAIN req /\ Moved(r, pc)
      BY <1>0, <2>10, <3>1, GotoTypes DEF ValidateImport, At
    <3>3. req[r].exam = e => pc # "apply"
      BY <1>0, <3>1 DEF Validates
    <3> QED BY <2>3, <3>2, <3>3
  <2>11. ASSUME NEW r \in Req, ApplyCell(r) PROVE req'[q].pc # "apply"
               /\ ~(req'[q].op = "update" /\ req'[q].pc = "write")
    <3>1. r \in DOMAIN req /\ req[r] \in Request /\ req[r].pc = "apply"
          /\ req' = [req EXCEPT ![r] = [req[r] EXCEPT !.next = req[r].next + 1]]
      BY <1>0, <2>11 DEF ApplyCell, HasNext, Applying
    <3>2. req[r].exam # e
      BY <1>0, <3>1 DEF NoWriterInFlight
    <3> QED BY <2>1, <3>1, <3>2 DEF Request
  <2>12. ASSUME NEW r \in Req, Rollback(r) PROVE req'[q].pc # "apply"
               /\ ~(req'[q].op = "update" /\ req'[q].pc = "write")
    <3>1. r \in DOMAIN req
      BY <2>12 DEF Rollback, Applying
    <3>2. CASE Goto(r, "fail")
      <4>1. Moved(r, "fail")
        BY <1>0, <3>1, <3>2, GotoTypes
      <4> QED BY <2>3, <3>1, <4>1
    <3> QED BY <2>9, <2>12, <3>1, <3>2 DEF Rollback
  <2>13. CASE Crash
    <3>1. DOMAIN req' = DOMAIN req /\ (~Ended(q) => req'[q] = Ending(req[q], "crashed"))
          /\ (Ended(q) => req'[q] = req[q])
      BY <2>13 DEF Crash
    <3> QED BY <2>1, <3>1 DEF Ending
  <2> QED
    BY <2>4, <2>5, <2>6, <2>7, <2>8, <2>9, <2>10, <2>11, <2>12, <2>13 DEF Next,
       WriteUpdate, WritePublish, WriteWithdraw, Commit, FailImport, At, Applying
<1> QED BY <1>1, <1>2, <1>3, <1>4 DEF Sealed

\* Once an exam has left DRAFT and the requests that passed their check before have
\* ended, its scores and details never change again (mutableExam, validate).
THEOREM SealedExamsStaySealed == Spec => SealedStaysSealed
<1>1. IInv /\ [Next]_vars =>
        [\A e \in Exam : Sealed(e) =>
            Sealed(e)' /\ rows'[e] = rows[e] /\ exams'[e].editor = exams[e].editor]_vars
  BY SealedStep
<1> QED BY Invariance, <1>1, PTL DEF Spec, SealedStaysSealed

--------------------------------------------------------------------------------
\* A request that is about to write an exam was there before, or has just read it.
LEMMA NewWriters ==
    ASSUME IInv, [Next]_vars, NEW q \in DOMAIN req', req'[q].pc = "write",
           req'[q].op = "publish"
    PROVE  \/ q \in DOMAIN req /\ req'[q] = req[q]
           \/ exams[req'[q].exam].status = "DRAFT"
<1> DEFINE Goal == \/ q \in DOMAIN req /\ req'[q] = req[q]
                   \/ exams[req'[q].exam].status = "DRAFT"
<1>0. TypeOK /\ req \in [DOMAIN req -> Request]
  BY DEF IInv, TypeOK
<1>1. CASE UNCHANGED vars
  BY <1>1 DEF vars
<1>2. ASSUME NEW r, NEW op, NEW pc, NEW p, NEW x, NEW batch,
             Arrived(r, op, pc, p, x, batch), pc # "write"
      PROVE  Goal
  BY <1>2 DEF Arrived
<1>3. ASSUME NEW r, NEW pc, Moved(r, pc), pc # "write" PROVE Goal
  BY <1>3 DEF Moved
<1>4. ASSUME NEW r \in DOMAIN req, NEW pc \in {"done", "refused"}, Return(r, pc) PROVE Goal
  BY <1>0, <1>3, <1>4, ReturnTypes
<1>5. ASSUME NEW r \in DOMAIN req, NEW pc \in {"apply", "fail"}, Goto(r, pc) PROVE Goal
  BY <1>0, <1>3, <1>5, GotoTypes
<1>6. ASSUME NEW r \in Req, ReadExam(r) PROVE Goal
  <2>1. PICK p \in Person, x \in Exam, op \in {"update", "publish", "withdraw"} :
           /\ Sees(p, x, IF op = "withdraw" THEN "PUBLISHED" ELSE "DRAFT")
           /\ Arrive(r, op, "write", p, x, <<>>)
    BY <1>6 DEF ReadExam
  <2>2. Arrived(r, op, "write", p, x, <<>>)
    BY <1>0, <2>1, ArriveTypes
  <2> QED BY <2>1, <2>2 DEF Arrived, Sees
<1>7. ASSUME NEW r \in Req, CreateExam(r) \/ ValidateSave(r) \/ StartImport(r) PROVE Goal
  <2>1. PICK p \in Person, x \in Exam, op \in {"create", "save", "import"},
             pc \in {"done", "apply", "validate", "fail"}, batch \in Batches \cup {<<>>} :
           Arrive(r, op, pc, p, x, batch)
    <3>1. CASE CreateExam(r)
      BY <3>1 DEF CreateExam, Person
    <3>2. CASE ValidateSave(r)
      BY <3>2 DEF ValidateSave
    <3>3. CASE StartImport(r)
      BY <3>3 DEF StartImport
    <3> QED BY <1>7, <3>1, <3>2, <3>3
  <2>2. Arrived(r, op, pc, p, x, batch)
    BY <1>0, <2>1, ArriveTypes
  <2> QED BY <1>2, <2>2
<1>8. ASSUME NEW r \in Req, ApplyCell(r) PROVE Goal
  BY <1>0, <1>8 DEF ApplyCell, HasNext, Applying, Request
<1>9. CASE Crash
  <2>1. DOMAIN req' = DOMAIN req /\ (~Ended(q) => req'[q] = Ending(req[q], "crashed"))
        /\ (Ended(q) => req'[q] = req[q])
    BY <1>9 DEF Crash
  <2> QED BY <2>1 DEF Ending
<1>10. ASSUME NEW r \in Req, Rollback(r) \/ ValidateImport(r) PROVE Goal
  BY <1>4, <1>5, <1>10 DEF Rollback, ValidateImport, Applying, At
<1>11. ASSUME NEW r \in Req, WriteUpdate(r) \/ WritePublish(r) \/ WriteWithdraw(r)
              \/ Commit(r) \/ FailImport(r)
       PROVE  Goal
  BY <1>4, <1>11 DEF WriteUpdate, WritePublish, WriteWithdraw, Commit, FailImport, At, Applying
<1> QED BY <1>1, <1>6, <1>7, <1>8, <1>9, <1>10, <1>11 DEF Next

\* A withdrawn exam stays withdrawn unless a publish() that read it as a draft, before
\* it was first published, is still to write (publish, withdraw).
THEOREM RetiredExamsStayRetired == Spec => RetiredStaysRetired
<1>1. ASSUME IInv, [Next]_vars, NEW e \in Exam, Retired(e)
      PROVE  Retired(e)'
  <2>0. /\ exams \in [Exam -> ExamRow \cup {NoExam}] /\ NoExam \notin ExamRow
        /\ exams[e] \in ExamRow /\ exams[e].status = "WITHDRAWN" /\ exams'[e] # NoExam
    BY <1>1, Markers, ExamsStable DEF IInv, TypeOK, Retired, SameExam
  <2>1. exams'[e].status = "WITHDRAWN"
    <3>1. CASE exams' = exams
      BY <2>0, <3>1
    <3>2. ASSUME NEW r \in Req, CreateExam(r) PROVE exams'[e].status = "WITHDRAWN"
      BY <2>0, <3>2 DEF CreateExam
    <3>3. ASSUME NEW r \in Req, WriteUpdate(r) PROVE exams'[e].status = "WITHDRAWN"
      BY <2>0, <3>3 DEF WriteUpdate, ExamRow
    <3>4. ASSUME NEW r \in Req, WritePublish(r) PROVE exams'[e].status = "WITHDRAWN"
      <4>1. req[r].exam # e
        BY <1>1, <3>4 DEF Retired, WritePublish, At
      <4> QED BY <2>0, <3>4, <4>1 DEF WritePublish
    <3>5. ASSUME NEW r \in Req, WriteWithdraw(r) PROVE exams'[e].status = "WITHDRAWN"
      BY <2>0, <3>5 DEF WriteWithdraw
    <3> QED BY <1>1, <3>1, <3>2, <3>3, <3>4, <3>5 DEF Next, vars, ReadExam, ValidateSave,
         StartImport, ValidateImport, ApplyCell, Commit, Rollback, FailImport, Crash
  <2>2. ASSUME NEW q \in DOMAIN req', At(q, "publish", "write")', req'[q].exam = e
        PROVE  FALSE
    BY <1>1, <2>0, <2>2, NewWriters DEF At, Retired
  <2> QED BY <2>0, <2>1, <2>2 DEF Retired
<1>2. IInv /\ [Next]_vars => [\A e \in Exam : Retired(e) => Retired(e)']_vars
  BY <1>1
<1> QED BY Invariance, <1>2, PTL DEF Spec, RetiredStaysRetired

--------------------------------------------------------------------------------
\* The refinement.  An import that has no verdict yet is still validating.
OpenImports == \A r \in DOMAIN req :
    req[r].op = "import" /\ ~Ended(r) => imports[r] = "VALIDATING"

LEMMA OpenImportsStep == ASSUME IInv, OpenImports, [Next]_vars PROVE OpenImports'
<1>0. TypeOK /\ req \in [DOMAIN req -> Request] /\ DOMAIN req \subseteq Req
      /\ imports \in [Req -> ImportStatus \cup {"none"}]
  BY DEF IInv, TypeOK
<1> SUFFICES ASSUME NEW q \in DOMAIN req', req'[q].op = "import", ~Ended(q)'
             PROVE  imports'[q] = "VALIDATING"
  BY DEF OpenImports
<1> DEFINE Goal == imports'[q] = "VALIDATING"
<1>1. CASE UNCHANGED vars
  BY <1>1 DEF vars, OpenImports, Ended
<1>2. ASSUME NEW r \in Req, NEW op, NEW pc, NEW p, NEW x, NEW batch,
             Arrived(r, op, pc, p, x, batch), op # "import", imports' = imports
      PROVE  Goal
  BY <1>2 DEF Arrived, OpenImports, Ended
<1>3. ASSUME NEW r \in DOMAIN req, NEW pc, Moved(r, pc), imports' = imports, ~Ended(r)
      PROVE  Goal
  <2>1. req'[q].op = req[q].op /\ ~Ended(q)
    <3>1. CASE q = r
      BY <1>3, <3>1 DEF Moved
    <3>2. CASE q # r
      BY <1>3, <3>2 DEF Moved, Ended
    <3> QED BY <3>1, <3>2
  <2> QED BY <1>3, <2>1 DEF Moved, OpenImports
<1>4. ASSUME NEW r \in DOMAIN req, NEW pc \in {"done", "refused"}, Return(r, pc),
             \A x \in Req \ {r} : imports'[x] = imports[x]
      PROVE  Goal
  <2>1. Moved(r, pc)
    BY <1>0, <1>4, ReturnTypes
  <2>2. q \in DOMAIN req /\ q # r /\ req'[q] = req[q]
    BY <1>4, <2>1 DEF Moved, Ended
  <2> QED BY <1>0, <1>4, <2>2 DEF OpenImports, Ended
<1>5. ASSUME NEW r \in Req, CreateExam(r) \/ ReadExam(r) \/ ValidateSave(r) PROVE Goal
  <2>1. PICK p \in Person, x \in Exam, op \in {"create", "update", "publish", "withdraw", "save"},
             pc \in {"done", "write", "apply"}, batch \in Batches \cup {<<>>} :
           Arrive(r, op, pc, p, x, batch) /\ imports' = imports
    <3>1. CASE CreateExam(r)
      BY <3>1 DEF CreateExam, Person
    <3>2. CASE ReadExam(r)
      BY <3>2 DEF ReadExam
    <3>3. CASE ValidateSave(r)
      BY <3>3 DEF ValidateSave
    <3> QED BY <1>5, <3>1, <3>2, <3>3
  <2>2. Arrived(r, op, pc, p, x, batch)
    BY <1>0, <2>1, ArriveTypes
  <2> QED BY <1>2, <2>1, <2>2
<1>6. ASSUME NEW r \in Req, StartImport(r) PROVE Goal
  <2>1. PICK p \in Person, x \in Exam, batch \in Batches, pc \in {"validate", "fail"} :
           Arrive(r, "import", pc, p, x, batch)
    BY <1>6 DEF StartImport
  <2>2. Arrived(r, "import", pc, p, x, batch)
    BY <1>0, <2>1, ArriveTypes
  <2>3. imports' = [imports EXCEPT ![r] = "VALIDATING"]
    BY <1>6 DEF StartImport
  <2> QED BY <1>0, <2>2, <2>3 DEF Arrived, OpenImports, Ended
<1>7. ASSUME NEW r \in Req, WriteUpdate(r) \/ WritePublish(r) \/ WriteWithdraw(r)
             \/ Commit(r) \/ FailImport(r)
      PROVE  Goal
  BY <1>0, <1>4, <1>7 DEF WriteUpdate, WritePublish, WriteWithdraw, Commit, FailImport, At, Applying
<1>8. ASSUME NEW r \in Req, Rollback(r) \/ ValidateImport(r) PROVE Goal
  <2>1. r \in DOMAIN req /\ ~Ended(r) /\ imports' = imports
    BY <1>8 DEF Rollback, ValidateImport, Applying, At, Ended
  <2>2. CASE \E pc \in {"apply", "fail"} : Goto(r, pc)
    BY <1>0, <1>3, <2>1, <2>2, GotoTypes
  <2> QED BY <1>4, <1>8, <2>1, <2>2 DEF Rollback, ValidateImport
<1>9. ASSUME NEW r \in Req, ApplyCell(r) PROVE Goal
  <2>1. r \in DOMAIN req /\ req[r] \in Request /\ imports' = imports
        /\ req' = [req EXCEPT ![r] = [req[r] EXCEPT !.next = req[r].next + 1]]
    BY <1>0, <1>9 DEF ApplyCell, HasNext, Applying
  <2>2. q \in DOMAIN req /\ req'[q].op = req[q].op /\ req'[q].pc = req[q].pc
    BY <2>1 DEF Request
  <2> QED BY <2>1, <2>2 DEF OpenImports, Ended
<1>10. CASE Crash
  <2>1. DOMAIN req' = DOMAIN req /\ (~Ended(q) => req'[q] = Ending(req[q], "crashed"))
        /\ (Ended(q) => req'[q] = req[q])
    BY <1>10 DEF Crash
  <2> QED BY <2>1 DEF Ending, Ended
<1> QED BY <1>1, <1>5, <1>6, <1>7, <1>8, <1>9, <1>10 DEF Next

LEMMA OpenImportsHold == Spec => []OpenImports
<1>1. Init => OpenImports
  BY DEF Init, OpenImports
<1>2. IInv /\ OpenImports /\ [Next]_vars => OpenImports'
  BY OpenImportsStep
<1> QED BY Invariance, <1>1, <1>2, PTL DEF Spec

\* A step that posts nothing and moves no request into or out of "done" as a save
\* changes no answer.
Settled(q) == q \in DOMAIN req /\ req[q].op = "save" /\ req[q].pc = "done"
LEMMA AnswerKept ==
    ASSUME imports' = imports, \A q \in Req : Settled(q)' <=> Settled(q)
    PROVE  Answer' = Answer
  BY DEF Answer, Settled

LEMMA OtherStepsAreStutters ==
    ASSUME IInv, [Next]_vars,
           \A r \in Req : ~StartImport(r) /\ ~Commit(r) /\ ~FailImport(r)
    PROVE  rows' = rows /\ Answer' = Answer
<1>0. TypeOK /\ req \in [DOMAIN req -> Request] /\ DOMAIN req \subseteq Req
  BY DEF IInv, TypeOK
<1>1. rows' = rows /\ imports' = imports
  BY DEF Next, vars, CreateExam, ReadExam, ValidateSave, WriteUpdate, WritePublish,
     WriteWithdraw, ValidateImport, ApplyCell, Rollback, Crash
<1>2. ASSUME NEW q \in Req PROVE Settled(q)' <=> Settled(q)
  <2> DEFINE Goal == Settled(q)' <=> Settled(q)
  <2>1. CASE UNCHANGED vars
    BY <2>1 DEF vars, Settled
  <2>2. ASSUME NEW r \in Req, NEW op, NEW pc, NEW p, NEW x, NEW batch,
               Arrived(r, op, pc, p, x, batch), op = "save" => pc # "done"
        PROVE  Goal
    BY <2>2 DEF Arrived, Settled
  <2>3. ASSUME NEW r \in DOMAIN req, NEW pc, Moved(r, pc), req[r].pc # "done",
               req[r].op = "save" => pc # "done"
        PROVE  Goal
    BY <2>3 DEF Moved, Settled
  <2>4. ASSUME NEW r \in Req, CreateExam(r) \/ ReadExam(r) \/ ValidateSave(r) PROVE Goal
    <3>1. PICK p \in Person, x \in Exam, batch \in Batches \cup {<<>>},
               op \in {"create", "update", "publish", "withdraw", "save"},
               pc \in {"done", "write", "apply"} :
             Arrive(r, op, pc, p, x, batch) /\ (op = "save" => pc # "done")
      <4>1. CASE CreateExam(r)
        BY <4>1 DEF CreateExam, Person
      <4>2. CASE ReadExam(r)
        BY <4>2 DEF ReadExam
      <4>3. CASE ValidateSave(r)
        BY <4>3 DEF ValidateSave
      <4> QED BY <2>4, <4>1, <4>2, <4>3
    <3>2. Arrived(r, op, pc, p, x, batch)
      BY <1>0, <3>1, ArriveTypes
    <3> QED BY <2>2, <3>1, <3>2
  <2>5. ASSUME NEW r \in DOMAIN req, NEW pc \in {"done", "refused"}, Return(r, pc),
               req[r].pc # "done", req[r].op = "save" => pc # "done"
        PROVE  Goal
    <3>1. Moved(r, pc)
      BY <1>0, <2>5, ReturnTypes
    <3> QED BY <2>3, <2>5, <3>1
  <2>6. ASSUME NEW r \in DOMAIN req, NEW pc \in {"apply", "fail"}, Goto(r, pc), req[r].pc # "done"
        PROVE  Goal
    <3>1. Moved(r, pc)
      BY <1>0, <2>6, GotoTypes
    <3> QED BY <2>3, <2>6, <3>1
  <2>7. ASSUME NEW r \in Req, WriteUpdate(r) \/ WritePublish(r) \/ WriteWithdraw(r) PROVE Goal
    BY <2>5, <2>7 DEF WriteUpdate, WritePublish, WriteWithdraw, At
  <2>8. ASSUME NEW r \in Req, ValidateImport(r) \/ Rollback(r) PROVE Goal
    BY <2>5, <2>6, <2>8 DEF ValidateImport, Rollback, At, Applying
  <2>9. ASSUME NEW r \in Req, ApplyCell(r) PROVE Goal
    <3>1. r \in DOMAIN req /\ req[r] \in Request
          /\ req' = [req EXCEPT ![r] = [req[r] EXCEPT !.next = req[r].next + 1]]
      BY <1>0, <2>9 DEF ApplyCell, HasNext, Applying
    <3> QED BY <3>1 DEF Settled, Request
  <2>10. CASE Crash
    <3>1. DOMAIN req' = DOMAIN req
          /\ \A x \in DOMAIN req : req'[x] = IF Ended(x) THEN req[x] ELSE Ending(req[x], "crashed")
      BY <2>10 DEF Crash
    <3> QED BY <3>1 DEF Ending, Ended, Settled
  <2> QED BY <2>1, <2>4, <2>7, <2>8, <2>9, <2>10 DEF Next
<1> QED BY <1>1, <1>2, AnswerKept

\* What a transaction commits is its batch, whole.
LEMMA CommitPosts ==
    ASSUME IInv, NEW r \in Req, Commit(r)
    PROVE  /\ Batch(r) \in {b \in Batches : WellFormed(b)}
           /\ rows' = [rows EXCEPT ![req[r].exam] =
                [c \in Cell |-> Book!Written(r, req[r].actor, Batch(r), c, @[c])]]
<1>0. /\ TypeOK /\ RequestInv /\ TxOK(r) /\ req[r] \in Request /\ r \in DOMAIN req
      /\ Applying(r) /\ ~HasNext(r) /\ RequestOK(r)
  BY DEF IInv, TypeOK, TxInv, RequestInv, Commit, Applying
<1>1. Batch(r) \in Batches /\ WellFormed(Batch(r)) /\ Len(Batch(r)) \in Nat
  BY <1>0, StaticData DEF RequestOK, Applying, Batch
<1>2. \A i \in 1..Len(Batch(r)) :
         tx[r][CellAt(r, i)] = RowAt(r, i) /\ RowAt(r, i) # NoRow
  BY <1>0, <1>1, RowTypes DEF HasNext, TxOK, Request, Batch
<1>3. ASSUME NEW c \in Cell, NEW old
      PROVE  Book!Written(r, req[r].actor, Batch(r), c, old)
               = IF tx[r][c] = NoRow THEN old ELSE tx[r][c]
  <2> DEFINE P(i) == <<Batch(r)[i].student, Batch(r)[i].subject>> = c
  <2>1. CASE \E i \in 1..Len(Batch(r)) : P(i)
    <3> DEFINE i == CHOOSE j \in 1..Len(Batch(r)) : P(j)
    <3>1. i \in 1..Len(Batch(r)) /\ P(i)
      BY <2>1
    <3>2. Book!Written(r, req[r].actor, Batch(r), c, old) = RowAt(r, i)
      BY <2>1 DEF Book!Written, RowAt
    <3> HIDE DEF i
    <3> QED BY <1>2, <3>1, <3>2 DEF CellAt, CellOf
  <2>2. CASE ~\E i \in 1..Len(Batch(r)) : P(i)
    <3>1. tx[r][c] = NoRow
      BY <1>0, <2>2 DEF TxOK, CellAt, CellOf
    <3> QED BY <2>2, <3>1 DEF Book!Written
  <2> QED BY <2>1, <2>2
<1>4. rows' = [rows EXCEPT ![req[r].exam] =
                   [c \in Cell |-> IF tx[r][c] = NoRow THEN @[c] ELSE tx[r][c]]]
  BY DEF Commit
<1> QED BY <1>1, <1>3, <1>4

\* What a committed request answers.
LEMMA CommitAnswers ==
    ASSUME IInv, OpenImports, NEW r \in Req, Commit(r)
    PROVE  IF req[r].op = "save"
           THEN Answer[r] = "none" /\ Answer' = [Answer EXCEPT ![r] = "SAVED"]
           ELSE Answer[r] = "VALIDATING" /\ Answer' = [Answer EXCEPT ![r] = "APPLIED"]
<1>0. /\ TypeOK /\ req[r] \in Request /\ r \in DOMAIN req /\ DOMAIN req \subseteq Req
      /\ req[r].pc = "apply" /\ req[r].op \in {"save", "import"}
      /\ imports \in [Req -> ImportStatus \cup {"none"}]
  BY DEF IInv, TypeOK, RequestInv, RequestOK, Commit, Applying
<1>1. Moved(r, "done")
  BY <1>0, ReturnTypes DEF Commit
<1>2. imports' = IF req[r].op = "import" THEN [imports EXCEPT ![r] = "APPLIED"] ELSE imports
  BY DEF Commit
<1>3. imports[r] = IF req[r].op = "import" THEN "VALIDATING" ELSE "none"
  BY <1>0 DEF TypeOK, OpenImports, Ended
<1>4. \A q \in Req \ {r} : Settled(q)' <=> Settled(q)
  BY <1>1 DEF Moved, Settled
<1>5. ~Settled(r) /\ (Settled(r)' <=> req[r].op = "save")
  BY <1>0, <1>1 DEF Moved, Settled
<1>6. /\ Answer = [q \in Req |-> IF Settled(q) THEN "SAVED" ELSE imports[q]]
      /\ Answer' = [q \in Req |-> IF Settled(q)' THEN "SAVED" ELSE imports'[q]]
  BY DEF Answer, Settled
<1> QED BY <1>0, <1>2, <1>3, <1>4, <1>5, <1>6

\* Score entry implements the gradebook: whatever the interleaving of requests, row
\* locks, rollbacks and crashes does to committed scores is post whole batches, each
\* at most once and in the step that makes its answer (ScoreEntryService.save,
\* CsvImportService.import).
THEOREM Refinement == Spec => GradebookSpec
<1>1. Init => Book!Init
  BY DEF Init, Book!Init, Answer, Book!Cell, Cell
<1>2. IInv /\ OpenImports /\ [Next]_vars => [Book!Next]_<<rows, Answer>>
  <2> SUFFICES ASSUME IInv, OpenImports, [Next]_vars
               PROVE  [Book!Next]_<<rows, Answer>>
    OBVIOUS
  <2>0. TypeOK /\ req \in [DOMAIN req -> Request] /\ DOMAIN req \subseteq Req
        /\ imports \in [Req -> ImportStatus \cup {"none"}]
    BY DEF IInv, TypeOK
  <2>1. ASSUME NEW r \in Req, Commit(r) PROVE Book!Next
    <3>1. /\ req[r].exam \in Exam /\ req[r].actor \in Person
          /\ Batch(r) \in {b \in Batches : WellFormed(b)}
      BY <2>0, <2>1, CommitPosts DEF Commit, Applying, Request
    <3>2. rows' = [rows EXCEPT ![req[r].exam] =
                [c \in Cell |-> Book!Written(r, req[r].actor, Batch(r), c, @[c])]]
      BY <2>1, CommitPosts
    <3>3. Book!Save(r) \/ Book!Apply(r)
      BY <2>1, <3>1, <3>2, CommitAnswers DEF Book!Save, Book!Apply, Book!Post, Book!Cell, Cell
    <3> QED BY <3>3 DEF Book!Next
  <2>2. ASSUME NEW r \in Req, StartImport(r) PROVE Book!Next
    <3>1. r \notin DOMAIN req /\ rows' = rows /\ imports' = [imports EXCEPT ![r] = "VALIDATING"]
      BY <2>2 DEF StartImport, Arrive
    <3>2. PICK p \in Person, x \in Exam, batch \in Batches, pc \in {"validate", "fail"} :
             Arrive(r, "import", pc, p, x, batch)
      BY <2>2 DEF StartImport
    <3>3. Arrived(r, "import", pc, p, x, batch)
      BY <2>0, <3>2, ArriveTypes
    <3>4. imports[r] = "none"
      BY <2>0, <3>1 DEF TypeOK
    <3>5. ~Settled(r) /\ \A q \in Req : Settled(q)' <=> Settled(q)
      BY <3>1, <3>3 DEF Arrived, Settled
    <3>6. /\ Answer = [q \in Req |-> IF Settled(q) THEN "SAVED" ELSE imports[q]]
          /\ Answer' = [q \in Req |-> IF Settled(q)' THEN "SAVED" ELSE imports'[q]]
      BY DEF Answer, Settled
    <3>7. Answer[r] = "none" /\ Answer' = [Answer EXCEPT ![r] = "VALIDATING"]
      BY <2>0, <3>1, <3>4, <3>5, <3>6
    <3> QED BY <3>1, <3>7 DEF Book!Next, Book!Open
  <2>3. ASSUME NEW r \in Req, FailImport(r) PROVE Book!Next
    <3>1. /\ rows' = rows /\ imports' = [imports EXCEPT ![r] = "FAILED"]
          /\ r \in DOMAIN req /\ req[r].op = "import" /\ req[r].pc = "fail" /\ Return(r, "done")
      BY <2>3 DEF FailImport, At
    <3>2. Moved(r, "done")
      BY <2>0, <3>1, ReturnTypes
    <3>3. imports[r] = "VALIDATING"
      BY <3>1 DEF OpenImports, Ended
    <3>4. ~Settled(r) /\ \A q \in Req : Settled(q)' <=> Settled(q)
      BY <3>1, <3>2 DEF Moved, Settled
    <3>5. /\ Answer = [q \in Req |-> IF Settled(q) THEN "SAVED" ELSE imports[q]]
          /\ Answer' = [q \in Req |-> IF Settled(q)' THEN "SAVED" ELSE imports'[q]]
      BY DEF Answer, Settled
    <3>6. Answer[r] = "VALIDATING" /\ Answer' = [Answer EXCEPT ![r] = "FAILED"]
      BY <2>0, <3>1, <3>3, <3>4, <3>5
    <3> QED BY <3>1, <3>6 DEF Book!Next, Book!Fail
  <2> QED BY <2>1, <2>2, <2>3, OtherStepsAreStutters
<1> QED BY <1>1, <1>2, Invariance, OpenImportsHold, PTL DEF Spec, GradebookSpec, Book!Spec

================================================================================
