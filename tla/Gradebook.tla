------------------------------- MODULE Gradebook -------------------------------
(***************************************************************************)
(* What score entry promises (ScoreEntryService.save, CsvImportService     *)
(* .import): a grid or a file is posted to the scores whole or not at all, *)
(* at most once, in the same step as the answer that says so; a failed     *)
(* import posts nothing, and an answer is final.                           *)
(***************************************************************************)
EXTENDS Integers, Sequences

CONSTANTS Req, Exam, Person, Student, Course, Batches, NoRow

VARIABLES
    board,   \* the committed scores, exam -> (student, course) -> row
    answer   \* what became of each grid or file

Cell == Student \X Course

Init ==
    /\ board = [e \in Exam |-> [c \in Cell |-> NoRow]]
    /\ answer = [r \in Req |-> "none"]

\* The row of cell c that a batch carries.
Written(r, p, batch, c, old) ==
    IF \E i \in 1..Len(batch) : <<batch[i].student, batch[i].subject>> = c
    THEN LET i == CHOOSE i \in 1..Len(batch) : <<batch[i].student, batch[i].subject>> = c
         IN [value |-> batch[i].score, absent |-> batch[i].absent, grader |-> p, by |-> r]
    ELSE old

Post(r, from, to) ==
    /\ answer[r] = from
    /\ answer' = [answer EXCEPT ![r] = to]
    /\ \E e \in Exam, p \in Person, batch \in Batches :
          board' = [board EXCEPT ![e] = [c \in Cell |-> Written(r, p, batch, c, @[c])]]

Save(r) == Post(r, "none", "SAVED")
Apply(r) == Post(r, "VALIDATING", "APPLIED")

Open(r) ==
    /\ answer[r] = "none"
    /\ answer' = [answer EXCEPT ![r] = "VALIDATING"]
    /\ UNCHANGED board

Fail(r) ==
    /\ answer[r] = "VALIDATING"
    /\ answer' = [answer EXCEPT ![r] = "FAILED"]
    /\ UNCHANGED board

Next == \E r \in Req : Save(r) \/ Apply(r) \/ Open(r) \/ Fail(r)

Spec == Init /\ [][Next]_<<board, answer>>
================================================================================
