------------------------------ MODULE WidgetBatchProofs ------------------------------
(***************************************************************************)
(* What DemoSeed guarantees for every number of runs, students and         *)
(* demonstration exams, and WidgetBatch, which reads what it writes, for   *)
(* every set of requests.  In between: what the sums and ranks it shows    *)
(* are, by induction over sets.                                            *)
(***************************************************************************)
EXTENDS WidgetBatch, FiniteSetTheorems, TLAPS

(* The seed. *)
Row == [pc : {"idle", "begin", "find", "compare", "count", "commit"},
        students : SUBSET Student, found : Seq({"DRAFT", "PUBLISHED"})]
OneRun == \A r, q \in Run : InTransaction(r) /\ InTransaction(q) => r = q

\* What a transaction has found stays true until its end, but for a withdrawal.
FoundOK(r) == InTransaction(r) =>
    \A i \in DOMAIN seed[r].found :
        IF seed[r].found[i] = "DRAFT" THEN exam[DemoExams[i]] = "none"
        ELSE exam[DemoExams[i]] \in {"PUBLISHED", "WITHDRAWN"}

ProgressOK(r) ==
    /\ seed[r].pc # "idle" => seed[r].students # {}
    /\ seed[r].pc \in {"idle", "begin"} => seed[r].found = <<>>
    /\ seed[r].pc = "find" => Len(seed[r].found) < Len(DemoExams)
    /\ seed[r].pc \in {"compare", "count", "commit"} => Len(seed[r].found) = Len(DemoExams)
    /\ seed[r].pc \in {"count", "commit"} => Agrees(r)

SeedInv == /\ SeedTypeOK /\ SeedWhole /\ OneRun
        /\ drafted \cap Demo = {}
        /\ \A r \in Run : FoundOK(r) /\ ProgressOK(r)
--------------------------------------------------------------------------------
LEMMA DemoFacts ==
    /\ Demo \subseteq Exam /\ Len(DemoExams) \in Nat \ {0}
    /\ DOMAIN DemoExams = 1 .. Len(DemoExams)
    /\ \A d \in Demo : \A students : Expected(d, students) \in [Cell -> Value]
<1>1. Demo \subseteq Exam /\ Len(DemoExams) \in Nat \ {0} /\ DOMAIN DemoExams = 1 .. Len(DemoExams)
  BY SeedData DEF Demo
<1>2. ASSUME NEW d \in Demo, NEW students PROVE Expected(d, students) \in [Cell -> Value]
  <2>1. \A c \in Cell : DemoValue[d][c] \in 0 .. MaxScore
    BY SeedData
  <2> QED BY <2>1 DEF Expected, None, Value
<1> QED BY <1>1, <1>2

\* In a whole batch no demonstration exam is a draft.
LEMMA NoDraft == SeedInv => \A d \in Demo : exam[d] \in {"none", "PUBLISHED", "WITHDRAWN"}
BY DEF SeedInv, SeedWhole

LEMMA InitInv == SeedInit => SeedInv
<1> SUFFICES ASSUME SeedInit PROVE SeedInv
  OBVIOUS
<1>1. /\ \A r \in Run : seed[r] = Ready /\ seed[r].pc = "idle"
      /\ seed \in [Run -> Row]
  BY DEF SeedInit, Ready, Row
<1>2. SeedTypeOK
  <2>1. Empty \in [Cell -> Value]
    BY DEF Empty, None, Value
  <2> QED BY <1>1, <2>1, SeedData DEF SeedInit, SeedTypeOK, Row
<1>3. SeedWhole
  BY DemoFacts DEF SeedInit, SeedWhole
<1>4. OneRun /\ drafted \cap Demo = {} /\ \A r \in Run : FoundOK(r) /\ ProgressOK(r)
  BY <1>1 DEF SeedInit, OneRun, InTransaction, FoundOK, ProgressOK, Ready
<1> QED BY <1>2, <1>3, <1>4 DEF SeedInv

\* A run goes on without a change to the exams and scores.
LEMMA RunPreserves ==
    ASSUME SeedInv, NEW r \in Run, NEW w \in Row, seed' = [seed EXCEPT ![r] = w],
           UNCHANGED <<exam, drafted, score, known>>,
           InTransaction(r)' => InTransaction(r) \/ \A q \in Run : ~InTransaction(q),
           FoundOK(r)', ProgressOK(r)'
    PROVE  SeedInv'
<1>1. /\ seed' \in [Run -> Row] /\ \A q \in Run \ {r} : seed'[q] = seed[q]
  BY DEF SeedInv, SeedTypeOK, Row
<1>2. SeedTypeOK' /\ SeedWhole'
  BY <1>1 DEF SeedInv, SeedTypeOK, SeedWhole, Row
<1>3. OneRun'
  <2>1. \A q \in Run \ {r} : InTransaction(q)' <=> InTransaction(q)
    BY <1>1 DEF InTransaction
  <2> QED BY <2>1 DEF SeedInv, OneRun
<1>4. ASSUME NEW q \in Run, q # r PROVE FoundOK(q)' /\ ProgressOK(q)'
  <2>1. FoundOK(q) /\ ProgressOK(q) /\ seed'[q] = seed[q]
    BY <1>1, <1>4 DEF SeedInv
  <2> QED BY <2>1 DEF FoundOK, ProgressOK, InTransaction, Agrees
<1> QED BY <1>2, <1>3, <1>4 DEF SeedInv

LEMMA EndPreserves ==
    ASSUME SeedInv, NEW r \in Run, FailRun(r)
    PROVE  SeedInv'
<1>1. /\ Ready \in Row /\ Ready.pc = "idle" /\ seed' = [seed EXCEPT ![r] = Ready] /\ seed'[r] = Ready
      /\ UNCHANGED <<exam, drafted, score, known>>
  BY DEF FailRun, End, Ready, Row, SeedInv, SeedTypeOK
<1>2. ~InTransaction(r)' /\ FoundOK(r)' /\ ProgressOK(r)'
  BY <1>1 DEF InTransaction, FoundOK, ProgressOK, Ready
<1> QED BY <1>1, <1>2, RunPreserves

LEMMA ReadPreserves ==
    ASSUME SeedInv, NEW r \in Run, ReadStudents(r)
    PROVE  SeedInv'
<1> DEFINE w == [seed[r] EXCEPT !.pc = "begin", !.students = known]
<1>1. /\ seed[r] \in Row /\ seed[r].pc = "idle" /\ known \in SUBSET Student /\ known # {}
      /\ seed[r].found = <<>> /\ UNCHANGED <<exam, drafted, score, known>>
  BY DEF ReadStudents, Suitable, SeedInv, SeedTypeOK, Row, ProgressOK
<1>2. /\ w \in Row /\ w.pc = "begin" /\ w.students = known /\ w.found = <<>>
      /\ seed' = [seed EXCEPT ![r] = w]
  BY <1>1 DEF ReadStudents, Row
<1> HIDE DEF w
<1>3. seed'[r] = w
  BY <1>2 DEF SeedInv, SeedTypeOK
<1>4. ~InTransaction(r)' /\ FoundOK(r)' /\ ProgressOK(r)'
  BY <1>1, <1>2, <1>3 DEF InTransaction, FoundOK, ProgressOK
<1> QED BY <1>1, <1>2, <1>4, RunPreserves

LEMMA BeginPreserves ==
    ASSUME SeedInv, NEW r \in Run, Begin(r)
    PROVE  SeedInv'
<1> DEFINE w == [seed[r] EXCEPT !.pc = "find"]
<1>1. /\ seed[r] \in Row /\ seed[r].pc = "begin" /\ ProgressOK(r)
      /\ UNCHANGED <<exam, drafted, score, known>>
  BY DEF Begin, SeedInv, SeedTypeOK, Row
<1>2. /\ w \in Row /\ w.pc = "find" /\ w.students = seed[r].students /\ w.found = <<>>
      /\ seed' = [seed EXCEPT ![r] = w]
  BY <1>1 DEF Begin, Reach, Row, ProgressOK
<1> HIDE DEF w
<1>3. seed'[r] = w
  BY <1>2 DEF SeedInv, SeedTypeOK
<1>4. FoundOK(r)' /\ ProgressOK(r)'
  BY <1>1, <1>2, <1>3, DemoFacts DEF FoundOK, ProgressOK
<1> QED BY <1>1, <1>2, <1>4, RunPreserves DEF Begin

LEMMA FindPreserves ==
    ASSUME SeedInv, NEW r \in Run, FindExam(r)
    PROVE  SeedInv'
<1>1. /\ seed[r] \in Row /\ seed[r].pc = "find" /\ ProgressOK(r) /\ FoundOK(r) /\ InTransaction(r)
      /\ UNCHANGED <<exam, drafted, score, known>> /\ StatusFound(r) # "WITHDRAWN"
  BY DEF FindExam, SeedInv, SeedTypeOK, Row, InTransaction
<1> DEFINE found == seed[r].found
           n == Len(found) + 1
<1>2. /\ found \in Seq({"DRAFT", "PUBLISHED"}) /\ n \in Nat \ {0} /\ n <= Len(DemoExams)
  BY <1>1, DemoFacts DEF Row, ProgressOK
<1>3. NextDemo(r) = DemoExams[n] /\ DemoExams[n] \in Demo
  BY <1>2, DemoFacts DEF NextDemo, Demo
<1>4. /\ StatusFound(r) \in {"DRAFT", "PUBLISHED"}
      /\ IF StatusFound(r) = "DRAFT" THEN exam[DemoExams[n]] = "none"
         ELSE exam[DemoExams[n]] \in {"PUBLISHED", "WITHDRAWN"}
  BY <1>1, <1>3, NoDraft DEF StatusFound
<1>5. PICK next : next = Append(found, StatusFound(r))
  OBVIOUS
<1>6. /\ next \in Seq({"DRAFT", "PUBLISHED"}) /\ Len(next) = n /\ DOMAIN next = 1 .. n
      /\ next[n] = StatusFound(r) /\ \A i \in 1 .. n : i # n => i \in DOMAIN found /\ next[i] = found[i]
  BY <1>2, <1>4, <1>5
<1>7. PICK pc \in {"find", "compare"} :
        pc = IF n = Len(DemoExams) THEN "compare" ELSE "find"
  OBVIOUS
<1> DEFINE w == [seed[r] EXCEPT !.found = next, !.pc = pc]
<1>8. seed' = [seed EXCEPT ![r] = w]
  BY <1>1, <1>5, <1>7 DEF FindExam
<1>9. w \in Row /\ w.pc = pc /\ w.found = next /\ w.students = seed[r].students
  BY <1>1, <1>6 DEF Row
<1> HIDE DEF w, n, found
<1>10. seed'[r] = w
  BY <1>8, <1>9 DEF SeedInv, SeedTypeOK
<1>11. FoundOK(r)'
  <2>1. \A i \in DOMAIN found : IF found[i] = "DRAFT" THEN exam[DemoExams[i]] = "none"
                                ELSE exam[DemoExams[i]] \in {"PUBLISHED", "WITHDRAWN"}
    BY <1>1 DEF FoundOK, found
  <2> QED BY <1>1, <1>4, <1>6, <1>9, <1>10, <2>1 DEF FoundOK
<1>12. ProgressOK(r)'
  <2>1. seed'[r].pc = pc /\ seed'[r].found = next /\ seed'[r].students # {} /\ Len(next) = n
    BY <1>1, <1>6, <1>9, <1>10 DEF ProgressOK
  <2>2. IF pc = "find" THEN n < Len(DemoExams) ELSE n = Len(DemoExams)
    <3>1. Len(DemoExams) \in Nat
      BY DemoFacts
    <3>2. n \in Nat /\ n <= Len(DemoExams)
      BY <1>2
    <3>3. n # Len(DemoExams) => n < Len(DemoExams)
      BY <3>1, <3>2
    <3> QED BY <1>7, <3>3
  <2> QED BY <1>7, <2>1, <2>2 DEF ProgressOK
<1> QED BY <1>1, <1>8, <1>9, <1>11, <1>12, RunPreserves

LEMMA ComparePreserves ==
    ASSUME SeedInv, NEW r \in Run, Compare(r) \/ Count(r)
    PROVE  SeedInv'
<1>1. PICK pc \in {"count", "commit"} :
        /\ Reach(r, pc) /\ UNCHANGED <<exam, drafted, score, known>> /\ Agrees(r)
        /\ seed[r].pc \in {"compare", "count"}
  BY DEF Compare, Count, SeedInv, ProgressOK
<1> DEFINE w == [seed[r] EXCEPT !.pc = pc]
<1>2. seed[r] \in Row /\ ProgressOK(r) /\ FoundOK(r) /\ InTransaction(r)
  BY <1>1 DEF SeedInv, SeedTypeOK, Row, InTransaction
<1>3. /\ w \in Row /\ w.pc = pc /\ w.found = seed[r].found /\ w.students = seed[r].students
      /\ seed' = [seed EXCEPT ![r] = w]
  BY <1>1, <1>2 DEF Row, Reach
<1> HIDE DEF w
<1>4. seed'[r] = w
  BY <1>3 DEF SeedInv, SeedTypeOK
<1>5. FoundOK(r)' /\ ProgressOK(r)'
  BY <1>1, <1>2, <1>3, <1>4 DEF FoundOK, ProgressOK, Agrees
<1> QED BY <1>1, <1>2, <1>3, <1>5, RunPreserves

\* What a commit writes: the whole batch of the run's students.
LEMMA CommitWrites ==
    ASSUME SeedInv, NEW r \in Run, Commit(r)
    PROVE  \A d \in Demo : /\ exam'[d] \in {"PUBLISHED", "WITHDRAWN"}
                           /\ exam[d] = "WITHDRAWN" => exam'[d] = "WITHDRAWN"
                           /\ score'[d] = Expected(d, seed[r].students)
<1>1. /\ seed[r] \in Row /\ ProgressOK(r) /\ FoundOK(r) /\ InTransaction(r) /\ seed[r].pc = "commit"
      /\ Len(seed[r].found) = Len(DemoExams) /\ Agrees(r)
  BY DEF Commit, SeedInv, SeedTypeOK, Row, InTransaction, ProgressOK
<1>2. DOMAIN seed[r].found = DOMAIN DemoExams
  BY <1>1, DemoFacts DEF Row
<1>3. ASSUME NEW d \in Demo PROVE /\ exam'[d] \in {"PUBLISHED", "WITHDRAWN"}
                                  /\ exam[d] = "WITHDRAWN" => exam'[d] = "WITHDRAWN"
  <2>1. PICK i \in DOMAIN DemoExams : DemoExams[i] = d
    BY DEF Demo
  <2>2. exam'[d] = PublishFound(r, d)
    BY DemoFacts DEF Commit
  <2>3. CASE \E j \in DOMAIN DemoExams : DemoExams[j] = d /\ seed[r].found[j] = "DRAFT"
    <3>1. exam[d] = "none" /\ exam'[d] = "PUBLISHED"
      BY <1>1, <1>2, <2>2, <2>3 DEF FoundOK, PublishFound
    <3> QED BY <3>1
  <2>4. CASE ~\E j \in DOMAIN DemoExams : DemoExams[j] = d /\ seed[r].found[j] = "DRAFT"
    <3>1. exam[d] \in {"PUBLISHED", "WITHDRAWN"} /\ exam'[d] = exam[d]
      BY <1>1, <1>2, <2>1, <2>2, <2>4 DEF FoundOK, PublishFound
    <3> QED BY <3>1
  <2> QED BY <2>3, <2>4
<1>4. ASSUME NEW d \in Demo PROVE score'[d] = Expected(d, seed[r].students)
  <2>1. score'[d] = [c \in Cell |-> IF score[d][c] # None THEN score[d][c]
                                    ELSE Expected(d, seed[r].students)[c]]
    BY DemoFacts DEF Commit, AddScores
  <2>2. \A c \in Cell : (IF score[d][c] # None THEN score[d][c] ELSE Expected(d, seed[r].students)[c])
                       = Expected(d, seed[r].students)[c]
    BY <1>1 DEF Agrees
  <2>3. score'[d] = [c \in Cell |-> Expected(d, seed[r].students)[c]]
    BY <2>1, <2>2
  <2> QED BY <2>3, DemoFacts
<1> QED BY <1>3, <1>4

LEMMA CommitPreserves ==
    ASSUME SeedInv, NEW r \in Run, Commit(r)
    PROVE  SeedInv'
<1>1. /\ Ready \in Row /\ Ready.pc = "idle" /\ seed' = [seed EXCEPT ![r] = Ready] /\ seed'[r] = Ready
      /\ seed' \in [Run -> Row] /\ \A q \in Run \ {r} : seed'[q] = seed[q]
      /\ UNCHANGED known /\ InTransaction(r)
  BY DEF Commit, End, Ready, Row, SeedInv, SeedTypeOK, InTransaction
<1>2. seed[r].students \in SUBSET Student /\ seed[r].students # {}
  BY DEF Commit, SeedInv, SeedTypeOK, ProgressOK
<1>3. /\ exam' \in [Exam -> {"none", "DRAFT", "PUBLISHED", "WITHDRAWN"}]
      /\ drafted' \subseteq Exam
  BY DEF Commit, PublishFound, SeedInv, SeedTypeOK
<1>4. score' \in [Exam -> [Cell -> Value]]
  <2>1. ASSUME NEW e \in Exam PROVE AddScores(r, e) \in [Cell -> Value]
    BY DemoFacts DEF AddScores, SeedInv, SeedTypeOK
  <2> QED BY <2>1 DEF Commit
<1>5. SeedTypeOK'
  BY <1>1, <1>3, <1>4 DEF SeedInv, SeedTypeOK, Row
<1>6. SeedWhole'
  <2>1. \A d \in Demo : /\ exam'[d] \in {"PUBLISHED", "WITHDRAWN"}
                        /\ score'[d] = Expected(d, seed[r].students)
    BY CommitWrites
  <2>2. PICK students \in SUBSET Student : students = seed[r].students
    BY <1>2
  <2> QED BY <1>2, <2>1, <2>2 DEF SeedWhole
<1>7. drafted' \cap Demo = {}
  <2>1. \A d \in Demo : exam'[d] # "DRAFT"
    BY CommitWrites
  <2> QED BY <2>1 DEF Commit, SeedInv
<1>8. \A q \in Run : ~InTransaction(q)'
  BY <1>1 DEF InTransaction, SeedInv, OneRun
<1>9. ASSUME NEW q \in Run PROVE FoundOK(q)' /\ ProgressOK(q)'
  <2>1. FoundOK(q)'
    BY <1>8 DEF FoundOK
  <2>2. ProgressOK(q)'
    <3>1. ProgressOK(q)
      BY DEF SeedInv
    <3>2. CASE q = r
      BY <1>1, <3>2 DEF ProgressOK, Ready
    <3>3. CASE q # r
      BY <1>1, <1>8, <3>1, <3>3 DEF ProgressOK, InTransaction
    <3> QED BY <3>2, <3>3
  <2> QED BY <2>1, <2>2
<1> QED BY <1>5, <1>6, <1>7, <1>8, <1>9 DEF SeedInv, OneRun

\* Editors reach the demonstration exams only to withdraw them.
LEMMA EditPreserves ==
    ASSUME SeedInv, (\E e \in Exam : SaveGrid(e) \/ Publish(e) \/ Withdraw(e)) \/ NewStudent
    PROVE  SeedInv' /\ \A d \in Demo : score'[d] = score[d] /\ (exam'[d] = exam[d] \/ exam'[d] = "WITHDRAWN")
<1>1. UNCHANGED <<drafted, seed>>
  BY DEF SaveGrid, Publish, Withdraw, NewStudent
<1>2. /\ exam' \in [Exam -> {"none", "DRAFT", "PUBLISHED", "WITHDRAWN"}]
      /\ score' \in [Exam -> [Cell -> Value]] /\ known' \subseteq Student
  BY SeedData DEF SaveGrid, Publish, Withdraw, NewStudent, SeedInv, SeedTypeOK
<1>3. ASSUME NEW d \in Demo
      PROVE  /\ score'[d] = score[d]
             /\ exam'[d] = exam[d] \/ (exam[d] = "PUBLISHED" /\ exam'[d] = "WITHDRAWN")
  BY DemoFacts DEF SaveGrid, Publish, Withdraw, NewStudent, SeedInv, SeedTypeOK
<1>4. SeedWhole'
  BY <1>3 DEF SeedInv, SeedWhole
<1>5. OneRun'
  BY <1>1 DEF SeedInv, OneRun, InTransaction
<1>6. ASSUME NEW r \in Run PROVE FoundOK(r)' /\ ProgressOK(r)'
  <2>1. FoundOK(r) /\ ProgressOK(r) /\ seed[r] \in Row
    BY DEF SeedInv, SeedTypeOK, Row
  <2>2. InTransaction(r) => \A i \in DOMAIN seed[r].found : DemoExams[i] \in Demo
    <3>1. InTransaction(r) => Len(seed[r].found) <= Len(DemoExams) /\ Len(seed[r].found) \in Nat
      BY <2>1, DemoFacts DEF InTransaction, ProgressOK, Row
    <3> QED BY <2>1, <3>1, DemoFacts DEF Row, Demo
  <2>3. FoundOK(r)'
    BY <1>1, <1>3, <2>1, <2>2 DEF FoundOK, InTransaction
  <2>4. ProgressOK(r)'
    BY <1>1, <1>3, <2>1 DEF ProgressOK, Agrees
  <2> QED BY <2>3, <2>4
<1>7. SeedTypeOK' /\ drafted' \cap Demo = {}
  BY <1>1, <1>2 DEF SeedInv, SeedTypeOK
<1> QED BY <1>3, <1>4, <1>5, <1>6, <1>7 DEF SeedInv

LEMMA NextPreserves == SeedInv /\ [SeedNext]_seedVars => SeedInv'
<1> SUFFICES ASSUME SeedInv, [SeedNext]_seedVars PROVE SeedInv'
  OBVIOUS
<1>1. ASSUME NEW r \in Run, SeedStep(r) PROVE SeedInv'
  BY <1>1, ReadPreserves, BeginPreserves, FindPreserves, ComparePreserves, CommitPreserves, EndPreserves
     DEF SeedStep
<1>2. CASE (\E e \in Exam : SaveGrid(e) \/ Publish(e) \/ Withdraw(e)) \/ NewStudent
  BY <1>2, EditPreserves
<1>3. CASE UNCHANGED seedVars
  <2>1. SeedTypeOK' /\ SeedWhole' /\ OneRun' /\ drafted' \cap Demo = {}
    BY <1>3 DEF seedVars, SeedInv, SeedTypeOK, SeedWhole, OneRun, InTransaction
  <2>2. ASSUME NEW r \in Run PROVE FoundOK(r)' /\ ProgressOK(r)'
    <3>1. FoundOK(r) /\ ProgressOK(r)
      BY DEF SeedInv
    <3> QED BY <1>3, <3>1 DEF seedVars, FoundOK, ProgressOK, InTransaction, Agrees
  <2> QED BY <2>1, <2>2 DEF SeedInv
<1> QED BY <1>1, <1>2, <1>3 DEF SeedNext

THEOREM SeedInvariance == SeedSpec => []SeedInv
<1>1. SeedInit => SeedInv
  BY InitInv
<1>2. SeedInv /\ [SeedNext]_seedVars => SeedInv'
  BY NextPreserves
<1> QED BY <1>1, <1>2, PTL DEF SeedSpec
--------------------------------------------------------------------------------
\* Types of every variable.
THEOREM SeedTypeCorrect == SeedSpec => []SeedTypeOK
<1>1. SeedInv => SeedTypeOK
  BY DEF SeedInv
<1> QED BY <1>1, SeedInvariance, PTL

\* A batch of demonstration exams is there whole or not at all, however runs of
\* the script, their failures, editors and the directory sync interleave.
THEOREM Whole == SeedSpec => []SeedWhole
<1>1. SeedInv => SeedWhole
  BY DEF SeedInv
<1> QED BY <1>1, SeedInvariance, PTL

\* A run neither brings back a withdrawn exam nor changes a score.
THEOREM Stable == SeedSpec => DemoStable
<1> DEFINE A == \A d \in Demo : /\ exam[d] = "WITHDRAWN" => exam'[d] = "WITHDRAWN"
                                /\ \A c \in Cell : score[d][c] # None => score'[d][c] = score[d][c]
<1>1. SeedInv /\ [SeedNext]_seedVars => [A]_seedVars
  <2> SUFFICES ASSUME SeedInv, SeedNext PROVE A
    OBVIOUS
  <2>1. CASE (\E e \in Exam : SaveGrid(e) \/ Publish(e) \/ Withdraw(e)) \/ NewStudent
    BY <2>1, EditPreserves
  <2>2. ASSUME NEW r \in Run, Commit(r) PROVE A
    <3>1. \A d \in Demo, c \in Cell : score[d][c] # None => score'[d][c] = score[d][c]
      BY <2>2, DemoFacts DEF Commit, AddScores
    <3>2. \A d \in Demo : exam[d] = "WITHDRAWN" => exam'[d] = "WITHDRAWN"
      BY <2>2, CommitWrites
    <3> QED BY <3>1, <3>2
  <2>3. ASSUME NEW r \in Run, SeedStep(r), ~Commit(r) PROVE UNCHANGED <<exam, score>>
    BY <2>3 DEF SeedStep, ReadStudents, Begin, FindExam, Compare, Count, FailRun
  <2> QED BY <2>1, <2>2, <2>3 DEF SeedNext
<1>2. SeedSpec => [][A]_seedVars
  BY <1>1, SeedInvariance, PTL DEF SeedSpec
<1> QED BY <1>2, PTL DEF DemoStable

--------------------------------------------------------------------------------
(* Sums over finite sets. *)
\* A set of naturals with 0 and every successor has them all.
LEMMA AllNaturals ==
    ASSUME NEW T, 0 \in T, \A n \in Nat : n \in T => n + 1 \in T
    PROVE  Nat \subseteq T
<1> DEFINE bad == Nat \ T
<1> SUFFICES ASSUME bad # {} PROVE FALSE
  OBVIOUS
<1>1. IsWellFoundedOn(OpToRel(<, Nat), Nat)
  BY NatLessThanWellFounded
<1> DEFINE R == OpToRel(<, Nat)
<1>2. \A x, y \in Nat : x < y => <<x, y>> \in R
  BY DEF OpToRel
<1>a. IsWellFoundedOn(R, Nat)
  BY <1>1
<1> HIDE DEF R
<1>3. bad \subseteq Nat
  OBVIOUS
<1>4. PICK n \in bad : \A y \in bad : <<y, n>> \notin R
  <2> HIDE DEF bad
  <2> QED BY <1>a, <1>3, WFMin
<1>5. n \in Nat /\ n \notin T /\ n # 0 /\ n - 1 \in Nat /\ n - 1 < n
  BY <1>4
<1>6. n - 1 \in T
  BY <1>2, <1>4, <1>5
<1>7. (n - 1) + 1 \in T
  BY <1>5, <1>6
<1> QED BY <1>5, <1>7

\* What holds of a finite set when it holds of its proper subsets holds of all.
LEMMA AllSubsets ==
    ASSUME NEW U, IsFiniteSet(U), NEW F,
           \A s \in SUBSET U : (\A t \in SUBSET s : t # s => t \in F) => s \in F
    PROVE  SUBSET U \subseteq F
<1> DEFINE bad == (SUBSET U) \ F
           R == StrictSubsetOrdering(U)
<1> SUFFICES ASSUME bad # {} PROVE FALSE
  OBVIOUS
<1>1. FiniteSubsetsOf(U) = SUBSET U
  BY FS_FiniteSubsetsOfFinite
<1>2. IsWellFoundedOn(R, SUBSET U)
  <2>1. IsWellFoundedOn(R, FiniteSubsetsOf(U))
    BY FS_StrictSubsetOrderingWellFounded
  <2> QED BY <1>1, <2>1, Zenon
<1>3. \A s, t \in SUBSET U : t \subseteq s /\ t # s => <<t, s>> \in R
  BY DEF StrictSubsetOrdering
<1>4. bad \subseteq SUBSET U
  OBVIOUS
<1> HIDE DEF R
<1>5. PICK s \in bad : \A t \in bad : <<t, s>> \notin R
  <2> HIDE DEF bad
  <2> QED BY <1>2, <1>4, WFMin
<1>6. ASSUME NEW t \in SUBSET s, t # s PROVE t \in F
  <2>1. s \in SUBSET U /\ t \in SUBSET U
    OBVIOUS
  <2>2. <<t, s>> \in R
    BY <1>3, <1>6, <2>1
  <2> QED BY <1>5, <2>1, <2>2
<1> QED BY <1>5, <1>6

\* How the community modules add up, one element after the other.
Pick(s) == CHOOSE x \in s : TRUE
Step(f, h, s) == IF s = {} THEN 0 ELSE f[Pick(s)] + h[s \ {Pick(s)}]

Recurs(U, f, h) == h \in [SUBSET U -> Int] /\ \A s \in SUBSET U : h[s] = Step(f, h, s)
AddsUp(U, f, h) ==
    /\ h \in [SUBSET U -> Int] /\ h[{}] = 0
    /\ \A s \in SUBSET U : \A x \in s : h[s] = f[x] + h[s \ {x}]

LEMMA PickFacts == \A s : s # {} => Pick(s) \in s
BY DEF Pick

\* A function that is defined by its values for proper subsets is there.
Recursive(U, V, F) ==
    /\ F \in [(SUBSET U) \X [SUBSET U -> V] -> V]
    /\ \A s \in SUBSET U : \A g, h \in [SUBSET U -> V] :
         (\A t \in SUBSET s : t # s => g[t] = h[t]) => F[<<s, g>>] = F[<<s, h>>]
Solves(U, F, h) == \A s \in SUBSET U : h[s] = F[<<s, h>>]

LEMMA Recursion ==
    ASSUME NEW U, IsFiniteSet(U), NEW V, V # {}, NEW F, Recursive(U, V, F)
    PROVE  \E h \in [SUBSET U -> V] : Solves(U, F, h)
<1> DEFINE Good(h, n) == \A s \in SUBSET U : Cardinality(s) <= n => h[s] = F[<<s, h>>]
           T == {n \in Nat : \E h \in [SUBSET U -> V] : Good(h, n)}
<1> USE DEF Recursive
<1>0. \A s \in SUBSET U : IsFiniteSet(s) /\ Cardinality(s) \in Nat /\ Cardinality(s) <= Cardinality(U)
  BY FS_Subset, FS_CardinalityType
<1>1. ASSUME NEW s \in SUBSET U, NEW t \in SUBSET s, t # s PROVE Cardinality(t) < Cardinality(s)
  <2>1. Cardinality(t) <= Cardinality(s) /\ Cardinality(t) # Cardinality(s)
    BY <1>0, <1>1, FS_Subset
  <2> QED BY <1>0, <2>1
<1>2. ASSUME NEW h \in [SUBSET U -> V], NEW n \in Nat,
             \A s \in SUBSET U : Cardinality(s) < n => h[s] = F[<<s, h>>]
      PROVE  n \in T
  <2> DEFINE g == [s \in SUBSET U |-> F[<<s, h>>]]
  <2>1. g \in [SUBSET U -> V] /\ \A s \in SUBSET U : g[s] = F[<<s, h>>]
    OBVIOUS
  <2> HIDE DEF g
  <2>2. ASSUME NEW s \in SUBSET U, Cardinality(s) <= n PROVE g[s] = F[<<s, g>>]
    <3>1. \A t \in SUBSET s : t # s => g[t] = h[t]
      <4> SUFFICES ASSUME NEW t \in SUBSET s, t # s PROVE g[t] = h[t]
        OBVIOUS
      <4>1. Cardinality(t) < n /\ t \in SUBSET U
        BY <1>0, <1>1, <2>2
      <4> QED BY <1>2, <2>1, <4>1
    <3>2. F[<<s, g>>] = F[<<s, h>>]
      BY <2>1, <3>1
    <3> QED BY <2>1, <3>2
  <2> QED BY <2>1, <2>2
<1>3. 0 \in T
  <2>1. PICK v \in V : TRUE
    OBVIOUS
  <2>2. [s \in SUBSET U |-> v] \in [SUBSET U -> V]
    OBVIOUS
  <2>3. \A s \in SUBSET U : ~(Cardinality(s) < 0)
    BY <1>0
  <2> HIDE DEF T
  <2> QED BY <1>2, <2>2, <2>3
<1>4. ASSUME NEW n \in Nat, n \in T PROVE n + 1 \in T
  <2>1. PICK h \in [SUBSET U -> V] : Good(h, n)
    BY <1>4
  <2>2. \A s \in SUBSET U : Cardinality(s) < n + 1 => Cardinality(s) <= n
    BY <1>0
  <2>3. \A s \in SUBSET U : Cardinality(s) < n + 1 => h[s] = F[<<s, h>>]
    BY <2>1, <2>2
  <2>4. n + 1 \in Nat
    OBVIOUS
  <2> HIDE DEF T
  <2> QED BY <1>2, <2>3, <2>4
<1>5. Cardinality(U) \in T
  <2>1. Nat \subseteq T
    <3> HIDE DEF T
    <3> QED BY <1>3, <1>4, AllNaturals
  <2> QED BY <1>0, <2>1
<1> QED BY <1>0, <1>5 DEF Solves

\* The function by which the community modules add up is there.
LEMMA SumExists ==
    ASSUME NEW U, IsFiniteSet(U), NEW f \in [U -> Int]
    PROVE  \E h : Recurs(U, f, h)
<1> DEFINE F == [p \in (SUBSET U) \X [SUBSET U -> Int] |-> Step(f, p[2], p[1])]
<1>1. ASSUME NEW h \in [SUBSET U -> Int], NEW s \in SUBSET U PROVE Step(f, h, s) \in Int
  <2>1. CASE s = {}
    BY <2>1 DEF Step
  <2>2. CASE s # {}
    <3>1. Pick(s) \in U /\ s \ {Pick(s)} \in SUBSET U
      BY <2>2, PickFacts
    <3> QED BY <2>2, <3>1 DEF Step
  <2> QED BY <2>1, <2>2
<1>2. /\ F \in [(SUBSET U) \X [SUBSET U -> Int] -> Int]
      /\ \A s \in SUBSET U : \A h \in [SUBSET U -> Int] : F[<<s, h>>] = Step(f, h, s)
  BY <1>1
<1> HIDE DEF F
<1>3. ASSUME NEW s \in SUBSET U, NEW g \in [SUBSET U -> Int], NEW h \in [SUBSET U -> Int],
             \A t \in SUBSET s : t # s => g[t] = h[t]
      PROVE  F[<<s, g>>] = F[<<s, h>>]
  <2>1. s # {} => g[s \ {Pick(s)}] = h[s \ {Pick(s)}]
    BY <1>3, PickFacts
  <2>2. Step(f, g, s) = Step(f, h, s)
    BY <2>1 DEF Step
  <2> QED BY <1>2, <2>2
<1>4. Recursive(U, Int, F)
  BY <1>2, <1>3 DEF Recursive
<1>5. Int # {}
  OBVIOUS
<1>6. PICK h \in [SUBSET U -> Int] : Solves(U, F, h)
  BY <1>4, <1>5, Recursion
<1> QED BY <1>2, <1>6 DEF Recurs, Solves

\* It adds up in any order.
LEMMA AnyOrder ==
    ASSUME NEW U, IsFiniteSet(U), NEW f \in [U -> Int], NEW h, Recurs(U, f, h)
    PROVE  AddsUp(U, f, h)
<1>0. h \in [SUBSET U -> Int] /\ \A s \in SUBSET U : h[s] = Step(f, h, s)
  BY DEF Recurs
<1> DEFINE F == {s \in SUBSET U : \A x \in s : h[s] = f[x] + h[s \ {x}]}
<1>1. ASSUME NEW s \in SUBSET U, \A t \in SUBSET s : t # s => t \in F PROVE s \in F
  <2> SUFFICES ASSUME NEW x \in s PROVE h[s] = f[x] + h[s \ {x}]
    OBVIOUS
  <2>1. PICK c \in s : c = Pick(s) /\ h[s] = f[c] + h[s \ {c}]
    BY <1>0, PickFacts DEF Step
  <2>2. CASE x = c
    BY <2>1, <2>2
  <2>3. CASE x # c
    <3>1. /\ s \ {c} \in SUBSET s /\ s \ {c} # s /\ x \in s \ {c}
          /\ s \ {x} \in SUBSET s /\ s \ {x} # s /\ c \in s \ {x}
      BY <2>3
    <3>2. h[s \ {c}] = f[x] + h[(s \ {c}) \ {x}]
      BY <1>1, <3>1
    <3>3. h[s \ {x}] = f[c] + h[(s \ {x}) \ {c}]
      BY <1>1, <3>1
    <3>4. (s \ {c}) \ {x} = (s \ {x}) \ {c}
      OBVIOUS
    <3>5. f[x] \in Int /\ f[c] \in Int /\ h[(s \ {x}) \ {c}] \in Int
      BY <1>0
    <3>6. PICK a, b, rest \in Int : a = f[x] /\ b = f[c] /\ rest = h[(s \ {x}) \ {c}]
      BY <3>5
    <3>7. h[s] = b + (a + rest) /\ h[s \ {x}] = b + rest
      BY <2>1, <3>2, <3>3, <3>4, <3>6
    <3>8. b + (a + rest) = a + (b + rest)
      OBVIOUS
    <3> QED BY <3>6, <3>7, <3>8
  <2> QED BY <2>2, <2>3
<1> HIDE DEF F
<1>2. SUBSET U \subseteq F
  BY <1>1, AllSubsets
<1> QED BY <1>0, <1>2 DEF F, AddsUp, Step

\* SumFunctionOnSet() is the value of such a function.
LEMMA SumFacts ==
    ASSUME NEW D, NEW f \in [D -> Int], NEW U, U \subseteq D, IsFiniteSet(U)
    PROVE  \E h : AddsUp(U, f, h) /\ h[U] = SumFunctionOnSet(f, U)
<1> DEFINE g == [x \in U |-> f[x]]
           Eq(h) == h = [s \in SUBSET U |-> IF s = {} THEN 0 ELSE f[CHOOSE x \in s : TRUE] + h[s \ {CHOOSE x \in s : TRUE}]]
           it == CHOOSE h : Eq(h)
<1>1. SumFunctionOnSet(f, U) = it[U]
  BY DEF SumFunctionOnSet, FoldFunctionOnSet, MapThenFoldSet, Eq, it
<1>2. g \in [U -> Int] /\ \A x \in U : g[x] = f[x]
  OBVIOUS
<1> HIDE DEF g, Eq, it
<1>a. IsFiniteSet(U)
  OBVIOUS
<1>b. g \in [U -> Int]
  BY <1>2
<1>3. PICK h0 : Recurs(U, g, h0)
  BY ONLY <1>a, <1>b, SumExists
<1>4. \A s \in SUBSET U : s # {} => Pick(s) \in U /\ s \ {Pick(s)} \in SUBSET U
  BY PickFacts
<1>5. Eq(h0)
  <2>1. \A s \in SUBSET U : h0[s] = IF s = {} THEN 0 ELSE f[Pick(s)] + h0[s \ {Pick(s)}]
    BY <1>2, <1>3, <1>4 DEF Step, Recurs
  <2>2. h0 \in [SUBSET U -> Int]
    BY <1>3 DEF Recurs
  <2> QED BY <2>1, <2>2 DEF Pick, Eq
<1>6. Eq(it)
  BY <1>5 DEF it
<1>7. DOMAIN it = SUBSET U /\ it = [s \in SUBSET U |-> it[s]]
  BY <1>6 DEF Eq
<1>8. \A s \in SUBSET U : it[s] = IF s = {} THEN 0 ELSE f[Pick(s)] + it[s \ {Pick(s)}]
  BY <1>6 DEF Pick, Eq
<1>9. \A s \in SUBSET U : it[s] = Step(g, it, s)
  BY <1>2, <1>4, <1>8 DEF Step
<1>10. it \in [SUBSET U -> Int]
  <2> DEFINE F == {s \in SUBSET U : it[s] \in Int}
  <2>1. ASSUME NEW s \in SUBSET U, \A t \in SUBSET s : t # s => t \in F PROVE s \in F
    <3>1. CASE s = {}
      <4>1. it[s] = 0
        BY <1>8, <3>1
      <4> QED BY <4>1
    <3>2. CASE s # {}
      <4>1. Pick(s) \in s /\ Pick(s) \in U
        BY <1>4, <3>2, PickFacts
      <4>2. it[s \ {Pick(s)}] \in Int
        BY <2>1, <4>1
      <4>3. it[s] = f[Pick(s)] + it[s \ {Pick(s)}] /\ f[Pick(s)] \in Int
        BY <1>8, <3>2, <4>1
      <4> QED BY <4>2, <4>3
    <3> QED BY <3>1, <3>2
  <2> HIDE DEF F
  <2>2. SUBSET U \subseteq F
    BY ONLY <1>a, <2>1, AllSubsets
  <2> QED BY <1>7, <2>2 DEF F
<1>11. Recurs(U, g, it)
  BY <1>9, <1>10 DEF Recurs
<1>12. AddsUp(U, g, it)
  BY <1>a, <1>b, <1>11, AnyOrder
<1>13. AddsUp(U, f, it)
  BY <1>2, <1>12 DEF AddsUp
<1> QED BY <1>1, <1>13

\* The sum of the values that are numbers is the sum of all values, when those
\* that are not count nothing.
LEMMA ClippedSum ==
    ASSUME NEW D, IsFiniteSet(D), NEW f \in [D -> Nat \cup {None, Null}]
    PROVE  SumFunctionOnSet(f, {x \in D : f[x] \notin {None, Null}}) =
           SumFunction([x \in D |-> IF f[x] < 0 THEN 0 ELSE f[x]])
<1> DEFINE N == {x \in D : f[x] \notin {None, Null}}
           g == [x \in D |-> IF f[x] < 0 THEN 0 ELSE f[x]]
<1>1. /\ \A x \in N : f[x] \in Nat /\ g[x] = f[x]
      /\ \A x \in D \ N : g[x] = 0
      /\ f \in [D -> Int] /\ g \in [D -> Int] /\ DOMAIN g = D
  <2>1. \A x \in D : f[x] \in Nat \/ f[x] = -1 \/ f[x] = -2
    BY DEF None, Null
  <2> QED BY <2>1 DEF None, Null
<1>2. N \subseteq D /\ IsFiniteSet(N) /\ IsFiniteSet(D)
  BY FS_Subset
<1>3. SumFunction(g) = SumFunctionOnSet(g, D)
  BY <1>1 DEF SumFunction
<1>4. f \in [D -> Int] /\ g \in [D -> Int]
  BY <1>1
<1> HIDE DEF N, g
<1>5. PICK h : AddsUp(N, f, h) /\ h[N] = SumFunctionOnSet(f, N)
  <2>1. N \subseteq D /\ IsFiniteSet(N) /\ f \in [D -> Int]
    BY <1>2, <1>4
  <2> QED BY <2>1, SumFacts
<1>6. PICK k : AddsUp(D, g, k) /\ k[D] = SumFunctionOnSet(g, D)
  <2>1. D \subseteq D /\ IsFiniteSet(D) /\ g \in [D -> Int]
    BY <1>2, <1>4
  <2> QED BY <2>1, SumFacts
<1> DEFINE F == {s \in SUBSET D : h[s \cap N] = k[s]}
<1>7. ASSUME NEW s \in SUBSET D, \A t \in SUBSET s : t # s => t \in F PROVE s \in F
  <2>1. CASE s = {}
    <3>1. s \cap N = {} /\ h[{}] = 0 /\ k[{}] = 0
      BY <1>5, <1>6, <2>1 DEF AddsUp
    <3> QED BY <2>1, <3>1
  <2>2. CASE s # {}
    <3>1. PICK x \in s : TRUE
      BY <2>2
    <3>2. k[s] = g[x] + k[s \ {x}]
      BY <1>6 DEF AddsUp
    <3>3. s \ {x} \in SUBSET s /\ s \ {x} # s
      OBVIOUS
    <3>4. h[(s \ {x}) \cap N] = k[s \ {x}]
      BY <1>7, <3>3
    <3>5. h[(s \ {x}) \cap N] \in Int
      BY <1>5 DEF AddsUp
    <3>6. CASE x \in N
      <4>1. s \cap N \in SUBSET N /\ x \in s \cap N /\ (s \cap N) \ {x} = (s \ {x}) \cap N
        BY <3>6
      <4>2. h[s \cap N] = f[x] + h[(s \cap N) \ {x}]
        BY <1>5, <4>1 DEF AddsUp
      <4> QED BY <1>1, <3>2, <3>4, <3>6, <4>1, <4>2
    <3>7. CASE x \notin N
      <4>1. s \cap N = (s \ {x}) \cap N /\ g[x] = 0
        BY <1>1, <3>7
      <4>2. k[s] = k[s \ {x}]
        BY <3>2, <3>4, <3>5, <4>1
      <4> QED BY <3>4, <4>1, <4>2
    <3> QED BY <3>6, <3>7
  <2> QED BY <2>1, <2>2
<1> HIDE DEF F
<1>8. SUBSET D \subseteq F
  BY <1>7, AllSubsets
<1>9. h[D \cap N] = k[D] /\ D \cap N = N
  BY <1>2, <1>8 DEF F
<1>10. SumFunctionOnSet(f, N) = SumFunction(g)
  BY <1>3, <1>5, <1>6, <1>9
<1> QED BY <1>10 DEF N, g
--------------------------------------------------------------------------------
(* Competition ranks. *)
\* One value for each of finitely many students.
Values(V) ==
    /\ IsFiniteSet(V) /\ V \subseteq Nat \X Int
    /\ \A v, w \in V : v[1] = w[1] => v = w
InOrder(V, rows) ==
    /\ rows \in [1 .. Cardinality(V) -> V]
    /\ \A i, j \in 1 .. Cardinality(V) : i < j => Before(rows[i], rows[j])

LEMMA Ordered ==
    ASSUME NEW V, Values(V)
    PROVE  /\ \A v, w \in V : v = w \/ Before(v, w) \/ Before(w, v)
           /\ \A v, w \in V : ~(Before(v, w) /\ Before(w, v))
           /\ \A u, v, w \in V : Before(u, v) /\ Before(v, w) => Before(u, w)
<1>1. \A v \in V : v[1] \in Int /\ v[2] \in Int
  BY DEF Values
<1>2. \A v, w \in V : v[1] = w[1] => v = w
  BY DEF Values
<1>3. \A a, b \in Int : a < b \/ a = b \/ a > b
  OBVIOUS
<1>4. \A v, w \in V : v = w \/ Before(v, w) \/ Before(w, v)
  BY <1>1, <1>2, <1>3 DEF Before
<1>5. \A v, w \in V : ~(Before(v, w) /\ Before(w, v))
  BY <1>1 DEF Before
<1>6. \A u, v, w \in V : Before(u, v) /\ Before(v, w) => Before(u, w)
  BY <1>1 DEF Before
<1> QED BY <1>4, <1>5, <1>6

\* The rows can be sorted: the place of each is the number of those before it.
LEMMA SortedExists ==
    ASSUME NEW V, Values(V)
    PROVE  \E rows : InOrder(V, rows)
<1> DEFINE n == Cardinality(V)
           Ahead(v) == {w \in V : Before(w, v)}
           place == [v \in V |-> Cardinality(Ahead(v)) + 1]
<1>0. IsFiniteSet(V) /\ n \in Nat
  BY FS_CardinalityType DEF Values
<1>1. ASSUME NEW v \in V PROVE /\ IsFiniteSet(Ahead(v)) /\ Cardinality(Ahead(v)) \in Nat
                               /\ Cardinality(Ahead(v)) < n
  <2>1. Ahead(v) \in SUBSET V /\ v \notin Ahead(v)
    BY Ordered
  <2>2. IsFiniteSet(Ahead(v)) /\ Cardinality(Ahead(v)) <= n /\ Cardinality(Ahead(v)) # n
    <3> HIDE DEF Ahead
    <3> QED BY <1>0, <2>1, FS_Subset
  <2>3. Cardinality(Ahead(v)) \in Nat
    <3> HIDE DEF Ahead
    <3> QED BY <2>2, FS_CardinalityType
  <2> QED BY <1>0, <2>2, <2>3
<1>2. place \in [V -> 1 .. n] /\ \A v \in V : place[v] = Cardinality(Ahead(v)) + 1
  <2> HIDE DEF Ahead, n
  <2> QED BY <1>0, <1>1
<1>3. ASSUME NEW v \in V, NEW w \in V, Before(v, w) PROVE place[v] < place[w]
  <2>1. Ahead(v) \in SUBSET Ahead(w) /\ v \in Ahead(w) /\ v \notin Ahead(v)
    BY <1>3, Ordered
  <2>2. Cardinality(Ahead(v)) <= Cardinality(Ahead(w)) /\ Cardinality(Ahead(v)) # Cardinality(Ahead(w))
    <3> HIDE DEF Ahead
    <3> QED BY <1>1, <2>1, FS_Subset
  <2> HIDE DEF Ahead, place
  <2> QED BY <1>1, <1>2, <2>2
<1> HIDE DEF Ahead, place, n
<1>4. place \in Injection(V, 1 .. n)
  <2>1. \A v, w \in V : place[v] = place[w] => v = w
    <3>1. \A v \in V : place[v] \in Int
      BY <1>0, <1>2
    <3> QED BY <1>3, <3>1, Ordered
  <2> QED BY <1>2, <2>1 DEF Injection, IsInjective
<1>5. IsFiniteSet(1 .. n) /\ Cardinality(1 .. n) = n
  BY <1>0, FS_Interval
<1>6. place \in Surjection(V, 1 .. n)
  BY <1>4, <1>5, FS_Injection DEF n
<1>7. \A i \in 1 .. n : \E v \in V : place[v] = i
  BY <1>6 DEF Surjection
<1> DEFINE rows == [i \in 1 .. n |-> CHOOSE v \in V : place[v] = i]
<1>8. \A i \in 1 .. n : rows[i] \in V /\ place[rows[i]] = i
  BY <1>7
<1>9. rows \in [1 .. n -> V]
  BY <1>8
<1> HIDE DEF rows
<1>10. ASSUME NEW i \in 1 .. n, NEW j \in 1 .. n, i < j PROVE Before(rows[i], rows[j])
  <2>1. ~(j < i) /\ i # j
    BY <1>0, <1>10
  <2> QED BY <1>3, <1>8, <2>1, Ordered
<1>11. InOrder(V, rows)
  BY <1>9, <1>10 DEF InOrder, n
<1> QED BY <1>11

LEMMA SortedInOrder ==
    ASSUME NEW V, Values(V)
    PROVE  InOrder(V, Sorted(V))
<1> DEFINE R == [1 .. Cardinality(V) -> V]
           P(rows) == \A i, j \in DOMAIN rows : i < j => Before(rows[i], rows[j])
<1>1. PICK rows : InOrder(V, rows)
  BY SortedExists
<1>2. rows \in R /\ P(rows)
  BY <1>1 DEF InOrder
<1>3. Sorted(V) = CHOOSE r \in R : P(r)
  BY DEF Sorted
<1>4. Sorted(V) \in R /\ P(Sorted(V))
  <2> HIDE DEF R, P
  <2> QED BY <1>2, <1>3, Zenon
<1> QED BY <1>4 DEF InOrder

\* Every value has one place.
LEMMA OnePlace ==
    ASSUME NEW V, Values(V), NEW rows, InOrder(V, rows)
    PROVE  rows \in Bijection(1 .. Cardinality(V), V)
<1> DEFINE n == Cardinality(V)
<1>1. IsFiniteSet(V) /\ n \in Nat
  BY FS_CardinalityType DEF Values
<1>2. IsFiniteSet(1 .. n) /\ Cardinality(1 .. n) = n
  BY <1>1, FS_Interval
<1>3. \A i, j \in 1 .. n : rows[i] = rows[j] => i = j
  <2>1. \A i, j \in 1 .. n : i = j \/ i < j \/ j < i
    BY <1>1
  <2> QED BY <2>1, Ordered DEF InOrder
<1>4. rows \in Injection(1 .. n, V)
  BY <1>3 DEF InOrder, Injection, IsInjective
<1>5. rows \in Surjection(1 .. n, V)
  <2> HIDE DEF n
  <2>1. Cardinality(1 .. n) = Cardinality(V)
    BY <1>2 DEF n
  <2> QED BY <1>1, <1>2, <1>4, <2>1, FS_Injection
<1> QED BY <1>4, <1>5 DEF Bijection

\* How many are better than the one at a place.
Better(rows, n, i) == {j \in 1 .. n : rows[j][2] > rows[i][2]}
RankAt(rows, n, i) == 1 + Cardinality(Better(rows, n, i))

\* The equation of the code's loop over the sorted rows.
LEMMA RankEquation ==
    ASSUME NEW V, Values(V), NEW rows, InOrder(V, rows), NEW i \in 1 .. Cardinality(V)
    PROVE  RankAt(rows, Cardinality(V), i) =
           IF i > 1 /\ rows[i - 1][2] = rows[i][2] THEN RankAt(rows, Cardinality(V), i - 1) ELSE i
<1> DEFINE n == Cardinality(V)
<1>1. n \in Nat /\ i \in Nat /\ i >= 1
  BY FS_CardinalityType DEF Values
<1> HIDE DEF n
<1>2. \A j \in 1 .. n : rows[j] \in V /\ rows[j][2] \in Int
  BY DEF InOrder, Values, n
<1>3. \A j, k \in 1 .. n : j < k => rows[j][2] >= rows[k][2]
  BY <1>2 DEF InOrder, Before, n
<1>4. i \in 1 .. n
  BY DEF n
<1>5. CASE i > 1 /\ rows[i - 1][2] = rows[i][2]
  <2>1. Better(rows, n, i) = Better(rows, n, i - 1)
    BY <1>5 DEF Better
  <2> QED BY <1>5, <2>1 DEF RankAt, n
<1>6. CASE ~(i > 1 /\ rows[i - 1][2] = rows[i][2])
  <2>1. ASSUME NEW j \in 1 .. n, j < i PROVE rows[j][2] > rows[i][2]
    <3>1. i - 1 \in 1 .. n /\ i > 1 /\ (j < i - 1 \/ j = i - 1)
      BY <1>1, <1>4, <2>1
    <3>2. rows[i - 1][2] >= rows[i][2] /\ rows[i - 1][2] # rows[i][2]
      BY <1>3, <1>4, <1>6, <3>1
    <3>3. rows[j][2] >= rows[i - 1][2]
      BY <1>2, <1>3, <3>1
    <3> QED BY <1>2, <1>4, <3>1, <3>2, <3>3
  <2>2. ASSUME NEW j \in 1 .. n, ~(j < i) PROVE ~(rows[j][2] > rows[i][2])
    <3>1. j = i \/ i < j
      BY <1>1, <2>2
    <3> QED BY <1>2, <1>3, <1>4, <3>1
  <2>3. Better(rows, n, i) = 1 .. i - 1
    <3>1. \A j : j \in 1 .. i - 1 <=> j \in 1 .. n /\ j < i
      BY <1>1, <1>4
    <3> QED BY <2>1, <2>2, <3>1 DEF Better
  <2>4. Cardinality(1 .. i - 1) = i - 1
    BY <1>1, FS_Interval
  <2>5. RankAt(rows, n, i) = i
    BY <1>1, <2>3, <2>4 DEF RankAt
  <2> QED BY <1>6, <2>5 DEF n
<1> QED BY <1>5, <1>6

\* The recursive function of CompetitionRanks() has these values.
LEMMA RankFunction ==
    ASSUME NEW V, Values(V)
    PROVE  CompetitionRanks(V) =
           {<<Sorted(V)[i][1], RankAt(Sorted(V), Cardinality(V), i)>> : i \in 1 .. Cardinality(V)}
<1> DEFINE rows == Sorted(V)
           n == Cardinality(V)
           Eq(r) == r = [i \in DOMAIN rows |-> IF i > 1 /\ rows[i - 1][2] = rows[i][2] THEN r[i - 1] ELSE i]
           rank == CHOOSE r : Eq(r)
           at == [i \in 1 .. n |-> RankAt(rows, n, i)]
<1>1. CompetitionRanks(V) = {<<rows[i][1], rank[i]>> : i \in DOMAIN rows}
  BY DEF CompetitionRanks
<1>2. InOrder(V, rows) /\ DOMAIN rows = 1 .. n /\ n \in Nat
  BY SortedInOrder, FS_CardinalityType DEF InOrder, Values
<1>3. \A i \in 1 .. n : RankAt(rows, n, i) =
        IF i > 1 /\ rows[i - 1][2] = rows[i][2] THEN RankAt(rows, n, i - 1) ELSE i
  <2> HIDE DEF rows
  <2> QED BY <1>2, RankEquation
<1> HIDE DEF rows, n
<1>4. Eq(at)
  <2>1. \A i \in 1 .. n : i > 1 => i - 1 \in 1 .. n
    BY <1>2
  <2>2. \A i \in 1 .. n : at[i] = IF i > 1 /\ rows[i - 1][2] = rows[i][2] THEN at[i - 1] ELSE i
    BY <1>3, <2>1
  <2> QED BY <1>2, <2>2
<1>5. Eq(rank)
  BY <1>4
<1> HIDE DEF rank
<1>6. \A i \in 1 .. n : rank[i] = IF i > 1 /\ rows[i - 1][2] = rows[i][2] THEN rank[i - 1] ELSE i
  BY <1>2, <1>5
<1> DEFINE T == {k \in Nat : k \in 1 .. n => rank[k] = RankAt(rows, n, k)}
<1>7. 0 \in T
  OBVIOUS
<1>8. ASSUME NEW k \in Nat, k \in T PROVE k + 1 \in T
  <2> SUFFICES ASSUME k + 1 \in 1 .. n PROVE rank[k + 1] = RankAt(rows, n, k + 1)
    OBVIOUS
  <2>1. (k + 1) - 1 = k /\ (k + 1 > 1 => k \in 1 .. n)
    BY <1>2
  <2> QED BY <1>3, <1>6, <1>8, <2>1
<1>9. \A i \in 1 .. n : rank[i] = RankAt(rows, n, i)
  <2>1. Nat \subseteq T
    <3> HIDE DEF T
    <3> QED BY <1>7, <1>8, AllNaturals
  <2>2. \A i \in 1 .. n : i \in Nat
    OBVIOUS
  <2> QED BY <2>1, <2>2
<1>10. CompetitionRanks(V) = {<<rows[i][1], RankAt(rows, n, i)>> : i \in 1 .. n}
  BY <1>1, <1>2, <1>9
<1> QED BY <1>10 DEF rows, n

\* A student's rank is one more than the number of those who are better.
LEMMA RankCounts ==
    ASSUME NEW V, Values(V), NEW v \in V
    PROVE  RankIn(V, v[1]) = 1 + Cardinality({w \in V : w[2] > v[2]})
<1> DEFINE rows == Sorted(V)
           n == Cardinality(V)
           s == v[1]
           mine == {r \in CompetitionRanks(V) : r[1] = s}
           above == {w \in V : w[2] > v[2]}
<1>1. InOrder(V, rows) /\ rows \in Bijection(1 .. n, V) /\ n \in Nat
  BY SortedInOrder, OnePlace, FS_CardinalityType DEF Values
<1>2. CompetitionRanks(V) = {<<rows[i][1], RankAt(rows, n, i)>> : i \in 1 .. n}
  BY RankFunction
<1>3. RankIn(V, s) = IF mine = {} THEN 0 ELSE (CHOOSE r \in mine : TRUE)[2]
  BY DEF RankIn
<1> HIDE DEF rows, n
<1>4. /\ rows \in [1 .. n -> V] /\ \A w \in V : \E i \in 1 .. n : rows[i] = w
      /\ \A i, j \in 1 .. n : rows[i] = rows[j] => i = j
  BY <1>1 DEF Bijection, Injection, Surjection, IsInjective
<1>5. PICK i \in 1 .. n : rows[i] = v
  BY <1>4
<1>6. mine = {<<s, RankAt(rows, n, i)>>}
  <2>1. \A j \in 1 .. n : rows[j][1] = s <=> j = i
    BY <1>4, <1>5 DEF Values
  <2>2. <<s, RankAt(rows, n, i)>> \in mine
    BY <1>2, <1>5
  <2>3. ASSUME NEW r \in mine PROVE r = <<s, RankAt(rows, n, i)>>
    <3>1. PICK j \in 1 .. n : r = <<rows[j][1], RankAt(rows, n, j)>>
      BY <1>2
    <3> QED BY <2>1, <3>1
  <2> HIDE DEF mine
  <2> QED BY <2>2, <2>3
<1>7. RankIn(V, s) = RankAt(rows, n, i)
  <2> HIDE DEF mine
  <2>1. mine # {} /\ (CHOOSE r \in mine : TRUE) \in mine
    BY <1>6
  <2>2. (CHOOSE r \in mine : TRUE) = <<s, RankAt(rows, n, i)>>
    BY <1>6, <2>1
  <2>3. RankIn(V, s) = (CHOOSE r \in mine : TRUE)[2]
    BY <1>3, <2>1, Zenon
  <2>4. \A x : <<s, x>>[2] = x
    OBVIOUS
  <2> QED BY <2>2, <2>3, <2>4
<1>8. Cardinality(Better(rows, n, i)) = Cardinality(above)
  <2> DEFINE better == Better(rows, n, i)
             f == [j \in better |-> rows[j]]
  <2>1. IsFiniteSet(better)
    <3>1. better \in SUBSET (1 .. n) /\ IsFiniteSet(1 .. n)
      BY <1>1, FS_Interval DEF Better
    <3> HIDE DEF better
    <3> QED BY <3>1, FS_Subset
  <2>2. \A j \in better : j \in 1 .. n /\ rows[j] \in above
    BY <1>4, <1>5 DEF Better
  <2>3. \A w \in above : \E j \in better : rows[j] = w
    BY <1>4, <1>5 DEF Better
  <2> HIDE DEF better, above
  <2>4. f \in Bijection(better, above)
    <3>1. f \in [better -> above] /\ \A j \in better : f[j] = rows[j]
      BY <2>2
    <3> HIDE DEF f
    <3>2. IsInjective(f)
      BY <1>4, <2>2, <3>1 DEF IsInjective
    <3> QED BY <2>3, <3>1, <3>2 DEF Bijection, Injection, Surjection
  <2>5. ExistsBijection(better, above)
    BY <2>4 DEF ExistsBijection
  <2>6. Cardinality(above) = Cardinality(better)
    BY <2>1, <2>5, FS_Bijection
  <2> QED BY <2>6 DEF better
<1> QED BY <1>7, <1>8 DEF RankAt
--------------------------------------------------------------------------------
(* The totals: additions that round. *)
NumberTotal(column) == SumFunctionOnSet([b \in Subject |-> Shown(column[b])], Numeric(column))
AddUp(column, h, s) ==
    IF s = {} THEN {0} ELSE UNION {{Plus[<<x, ToNumber[column[b]]>>] : x \in h[s \ {b}]} : b \in s}
Near(t, x, d) == t <= x + d /\ x <= t + d

LEMMA NumberTypes ==
    /\ Number \subseteq Nat /\ 0 \in Number
    /\ \A v \in 0 .. MaxScore : ToNumber[v] \in Number
    /\ \A x, y \in Number : Plus[<<x, y>>] \in Number
<1>1. Plus \in [Number \X Number -> Number] /\ ToNumber \in [0 .. MaxScore -> Number]
  BY Doubles
<1> QED BY <1>1, Doubles

LEMMA ErrorTypes == Error \in Nat /\ Top \in Nat /\ MaxScore \in Nat
BY Precision, SeedData

LEMMA ApartFacts == \A x, y, d \in Nat : /\ Apart(x, y) \in Nat
                                         /\ Apart(x, y) <= d <=> Near(x, y, d)
BY DEF Apart, Near

\* Multiples, for the provers.
LEMMA Multiples ==
    ASSUME NEW c \in Nat, NEW d \in Nat, NEW q \in Nat, c <= d
    PROVE  /\ c * q \in Nat /\ d * q \in Nat /\ c * q <= d * q
           /\ (c + 1) * q = c * q + q
OBVIOUS

LEMMA Distributes ==
    ASSUME NEW i \in Nat, NEW j \in Nat, NEW k \in Nat
    PROVE  i + j \in Nat /\ i * k \in Nat /\ j * k \in Nat /\ (i + j) * k = i * k + j * k
OBVIOUS

LEMMA Hundredths ==
    ASSUME NEW a \in Nat
    PROVE  \E n \in Nat : 100 * n <= a /\ a < 100 * n + 100
<1> DEFINE T == {b \in Nat : \E n \in Nat : 100 * n <= b /\ b < 100 * n + 100}
<1>1. 0 \in T
  OBVIOUS
<1>2. ASSUME NEW b \in Nat, b \in T PROVE b + 1 \in T
  <2>1. PICK n \in Nat : 100 * n <= b /\ b < 100 * n + 100
    BY <1>2
  <2>2. CASE b + 1 < 100 * n + 100
    BY <2>1, <2>2
  <2>3. CASE b + 1 = 100 * n + 100
    <3>1. n + 1 \in Nat /\ 100 * (n + 1) <= b + 1 /\ b + 1 < 100 * (n + 1) + 100
      BY <2>3
    <3> QED BY <3>1
  <2> QED BY <2>1, <2>2, <2>3
<1> HIDE DEF T
<1>3. Nat \subseteq T
  BY <1>1, <1>2, AllNaturals
<1> QED BY <1>3 DEF T

LEMMA Subjects ==
    /\ IsFiniteSet(Subject) /\ Cardinality(Subject) \in Nat
    /\ Scale \in Nat /\ Top \in Nat /\ Error \in Nat /\ MaxScore \in Nat /\ Rounding \in Nat
    /\ Cardinality(Subject) * Rounding \in Nat /\ MaxScore * Scale \in Nat
    /\ 2 * (Cardinality(Subject) * Rounding) < Scale
    /\ \A b \in Subject : /\ Cardinality(Subject) >= 1
                          /\ MaxScore * Scale + Rounding <= 100 * Top
                          /\ 2 * Rounding < Scale
<1> DEFINE C == Cardinality(Subject)
<1>1. IsFiniteSet(Subject) /\ C \in Nat
  BY BatchData, FS_CardinalityType
<1>2. /\ Scale \in Nat /\ Top \in Nat /\ Error \in Nat /\ MaxScore \in Nat /\ Rounding \in Nat
      /\ MaxScore * Scale \in Nat
  BY Precision, SeedData DEF Rounding
<1>3. C * (MaxScore * Scale + Rounding) <= 100 * Top /\ 2 * C * Rounding < Scale
  BY Precision
<1> HIDE DEF C
<1>4. C * Rounding \in Nat /\ 2 * (C * Rounding) < Scale
  BY <1>1, <1>2, <1>3
<1>5. ASSUME NEW b \in Subject
      PROVE  C >= 1 /\ MaxScore * Scale + Rounding <= 100 * Top /\ 2 * Rounding < Scale
  <2>1. C >= 1
    BY <1>1, FS_EmptySet DEF C
  <2>2. 1 * Rounding <= C * Rounding
    BY <1>1, <1>2, <2>1, Multiples
  <2> DEFINE q == MaxScore * Scale + Rounding
  <2>3. q \in Nat /\ C * q <= 100 * Top
    BY <1>2, <1>3
  <2> HIDE DEF q
  <2>4. 1 * q <= C * q /\ C * q \in Nat
    BY <1>1, <2>1, <2>3, Multiples
  <2>5. q <= 100 * Top
    BY <1>2, <2>3, <2>4
  <2>6. 2 * Rounding < Scale
    BY <1>2, <1>4, <2>2
  <2> QED BY <2>1, <2>5, <2>6 DEF q
<1> QED BY <1>1, <1>2, <1>4, <1>5 DEF C

\* A conversion is exact to a hundred times the error and one unit.
LEMMA ToNumberNear ==
    ASSUME NEW v \in 0 .. MaxScore, NEW b \in Subject
    PROVE  /\ ToNumber[v] \in Number /\ ToNumber[v] \in Nat
           /\ v * Scale \in Nat /\ v * Scale <= MaxScore * Scale
           /\ Near(100 * ToNumber[v], v * Scale, 100 * (Error + 1))
<1>1. v \in Nat /\ v <= MaxScore /\ ToNumber[v] \in Number /\ ToNumber[v] \in Nat
  <2>1. ToNumber[v] \in Number /\ ToNumber[v] \in Nat
    BY NumberTypes
  <2> QED BY <2>1, ErrorTypes
<1>2. v * Scale \in Nat /\ v * Scale <= MaxScore * Scale
  BY <1>1, Subjects, Multiples
<1> DEFINE a == v * Scale
<1>3. a \in Nat /\ a <= 100 * Top
  BY <1>2, Subjects
<1>4. \A y \in Number : Apart(100 * ToNumber[v], a) <= Apart(100 * y, a)
  BY Doubles
<1> HIDE DEF a
<1>5. PICK n \in Nat : 100 * n <= a /\ a < 100 * n + 100
  BY <1>3, Hundredths
<1>6. n \in 0 .. Top
  BY <1>3, <1>5, Subjects
<1>7. PICK y \in Number : y \in Nat /\ Apart(y, n) <= Error
  BY <1>6, Precision, Doubles
<1>8. Near(y, n, Error)
  BY <1>7, ApartFacts, Subjects
<1>9. Near(100 * y, a, 100 * (Error + 1))
  BY <1>3, <1>5, <1>7, <1>8, Subjects DEF Near
<1>10. 100 * y \in Nat /\ 100 * ToNumber[v] \in Nat /\ 100 * (Error + 1) \in Nat
  BY <1>1, <1>7, Subjects
<1>11. Apart(100 * y, a) \in Nat /\ Apart(100 * y, a) <= 100 * (Error + 1)
  BY <1>3, <1>9, <1>10, ApartFacts
<1>12. Apart(100 * ToNumber[v], a) \in Nat /\ Apart(100 * ToNumber[v], a) <= Apart(100 * y, a)
  BY <1>3, <1>4, <1>7, <1>10, ApartFacts
<1>13. Apart(100 * ToNumber[v], a) <= 100 * (Error + 1)
  BY <1>10, <1>11, <1>12
<1>14. Near(100 * ToNumber[v], a, 100 * (Error + 1))
  BY <1>3, <1>10, <1>13, ApartFacts
<1> QED BY <1>1, <1>2, <1>14 DEF a

\* An addition is exact to the error.
LEMMA PlusNear ==
    ASSUME NEW x \in Number, NEW y \in Number, x + y <= Top
    PROVE  Plus[<<x, y>>] \in Number /\ Plus[<<x, y>>] \in Nat /\ Near(Plus[<<x, y>>], x + y, Error)
<1>1. Plus[<<x, y>>] \in Number /\ Plus[<<x, y>>] \in Nat /\ x \in Nat /\ y \in Nat
  BY NumberTypes
<1> DEFINE n == x + y
<1>2. n \in Nat /\ n \in 0 .. Top
  BY <1>1, ErrorTypes
<1>3. \A z \in Number : Apart(Plus[<<x, y>>], n) <= Apart(z, n)
  BY Doubles
<1> HIDE DEF n
<1>4. PICK z \in Number : z \in Nat /\ Apart(z, n) <= Error
  BY <1>2, Precision, NumberTypes
<1>5. Apart(Plus[<<x, y>>], n) \in Nat /\ Apart(z, n) \in Nat
  BY <1>1, <1>2, <1>4, ApartFacts
<1>6. Apart(Plus[<<x, y>>], n) <= Error
  BY <1>3, <1>4, <1>5, ErrorTypes
<1>7. Near(Plus[<<x, y>>], n, Error)
  BY <1>1, <1>2, <1>6, ApartFacts, ErrorTypes
<1> QED BY <1>1, <1>7 DEF n

\* Scores that differ are different numbers, in the same order.
LEMMA ToNumberGrows ==
    ASSUME NEW v \in 0 .. MaxScore, NEW w \in 0 .. MaxScore, NEW b \in Subject, v < w
    PROVE  ToNumber[v] < ToNumber[w]
<1>1. /\ Near(100 * ToNumber[v], v * Scale, 100 * (Error + 1)) /\ ToNumber[v] \in Nat /\ v * Scale \in Nat
      /\ Near(100 * ToNumber[w], w * Scale, 100 * (Error + 1)) /\ ToNumber[w] \in Nat /\ w * Scale \in Nat
  BY ToNumberNear
<1>2. (v + 1) * Scale <= w * Scale /\ (v + 1) * Scale = v * Scale + Scale
  <2>1. v \in Nat /\ w \in Nat /\ v + 1 \in Nat /\ v + 1 <= w /\ Scale \in Nat
    BY Subjects
  <2> QED BY <2>1, Multiples
<1>3. 2 * (100 * (2 * Error + 1)) < Scale /\ Error \in Nat /\ Scale \in Nat
  BY Subjects DEF Rounding
<1> QED BY <1>1, <1>2, <1>3 DEF Near

IsLast(column, h, s, y) ==
    \E b \in s : \E x \in h[s \ {b}] : y = Plus[<<x, ToNumber[column[b]]>>]
LEMMA AddUpMember ==
    ASSUME NEW column, NEW h, NEW s, s # {}, NEW y
    PROVE  y \in AddUp(column, h, s) <=> IsLast(column, h, s, y)
<1> DEFINE last(b) == {Plus[<<x, ToNumber[column[b]]>>] : x \in h[s \ {b}]}
<1>1. AddUp(column, h, s) = UNION {last(b) : b \in s}
  BY DEF AddUp
<1>2. \A b : y \in last(b) <=> \E x \in h[s \ {b}] : y = Plus[<<x, ToNumber[column[b]]>>]
  OBVIOUS
<1> HIDE DEF last
<1>3. y \in UNION {last(b) : b \in s} <=> \E b \in s : y \in last(b)
  OBVIOUS
<1>4. y \in AddUp(column, h, s) <=> \E b \in s : \E x \in h[s \ {b}] : y = Plus[<<x, ToNumber[column[b]]>>]
  BY <1>1, <1>2, <1>3, Zenon
<1> QED BY <1>4 DEF IsLast

LEMMA AddUpDepends ==
    ASSUME NEW column, NEW g, NEW h, NEW s, \A b \in s : g[s \ {b}] = h[s \ {b}]
    PROVE  AddUp(column, g, s) = AddUp(column, h, s)
<1>1. CASE s = {}
  BY <1>1 DEF AddUp
<1>2. CASE s # {}
  <2>1. \A y : y \in AddUp(column, g, s) <=> y \in AddUp(column, h, s)
    <3> SUFFICES ASSUME NEW y PROVE y \in AddUp(column, g, s) <=> y \in AddUp(column, h, s)
      OBVIOUS
    <3>1. y \in AddUp(column, g, s) <=> IsLast(column, g, s, y)
      BY <1>2, AddUpMember
    <3>2. y \in AddUp(column, h, s) <=> IsLast(column, h, s, y)
      BY <1>2, AddUpMember
    <3> QED BY <3>1, <3>2 DEF IsLast
  <2> QED BY <2>1, SetExtensionality
<1> QED BY <1>1, <1>2

\* What is read in some order: the function by which it adds up is there.
LEMMA SumsExist ==
    ASSUME NEW column \in [Subject -> Value]
    PROVE  \E h \in [SUBSET Numeric(column) -> SUBSET Number] :
             /\ Sums(column) = h[Numeric(column)]
             /\ \A s \in SUBSET Numeric(column) : h[s] = AddUp(column, h, s)
<1> DEFINE N == Numeric(column)
           V == SUBSET Number
           Eq(h) == h = [S \in SUBSET N |->
                          IF S = {} THEN {0}
                          ELSE UNION {{Plus[<<x, ToNumber[column[b]]>>] : x \in h[S \ {b}]} : b \in S}]
           it == CHOOSE h : Eq(h)
           F == [p \in (SUBSET N) \X [SUBSET N -> V] |-> AddUp(column, p[2], p[1])]
<1>1. Sums(column) = it[N]
  BY DEF Sums
<1>2. IsFiniteSet(N) /\ \A b \in N : column[b] \in 0 .. MaxScore
  <2>1. N \in SUBSET Subject
    BY DEF Numeric
  <2>2. \A b \in N : column[b] \in Value /\ column[b] \notin {None, Null}
    BY DEF Numeric
  <2> HIDE DEF N
  <2> QED BY <2>1, <2>2, Subjects, FS_Subset DEF Value
<1> HIDE DEF N, it, Eq
<1>3. ASSUME NEW h \in [SUBSET N -> V], NEW s \in SUBSET N PROVE AddUp(column, h, s) \in V
  <2>1. CASE s = {}
    BY <2>1, NumberTypes DEF AddUp
  <2>2. CASE s # {}
    <3>1. ASSUME NEW b \in s, NEW x \in h[s \ {b}] PROVE Plus[<<x, ToNumber[column[b]]>>] \in Number
      <4>1. ToNumber[column[b]] \in Number /\ s \ {b} \in SUBSET N
        BY <1>2, NumberTypes
      <4>2. x \in Number
        BY <4>1
      <4> QED BY <4>1, <4>2, NumberTypes
    <3>2. \A y : IsLast(column, h, s, y) => y \in Number
      BY <3>1 DEF IsLast
    <3>3. \A y : y \in AddUp(column, h, s) => IsLast(column, h, s, y)
      BY <2>2, AddUpMember
    <3> QED BY <3>2, <3>3
  <2> QED BY <2>1, <2>2
<1>4. /\ F \in [(SUBSET N) \X [SUBSET N -> V] -> V]
      /\ \A s \in SUBSET N : \A h \in [SUBSET N -> V] : F[<<s, h>>] = AddUp(column, h, s)
  BY <1>3
<1> HIDE DEF F
<1>5. Recursive(N, V, F)
  <2>1. ASSUME NEW s \in SUBSET N, NEW g \in [SUBSET N -> V], NEW h \in [SUBSET N -> V],
               \A t \in SUBSET s : t # s => g[t] = h[t]
        PROVE  F[<<s, g>>] = F[<<s, h>>]
    <3>1. \A b \in s : g[s \ {b}] = h[s \ {b}]
      BY <2>1
    <3>2. AddUp(column, g, s) = AddUp(column, h, s)
      BY <3>1, AddUpDepends
    <3> QED BY <1>4, <3>2
  <2> HIDE DEF V
  <2> QED BY <1>4, <2>1 DEF Recursive
<1>6. V # {}
  OBVIOUS
<1> HIDE DEF V
<1>7. PICK h \in [SUBSET N -> V] : Solves(N, F, h)
  BY <1>2, <1>5, <1>6, Recursion
<1>8. \A s \in SUBSET N : h[s] = AddUp(column, h, s)
  BY <1>4, <1>7 DEF Solves
<1>9. Eq(h)
  BY <1>7, <1>8 DEF Eq, AddUp
<1>10. Eq(it)
  BY <1>9 DEF it
<1>11. DOMAIN it = SUBSET N /\ it = [s \in SUBSET N |-> it[s]]
  BY <1>10 DEF Eq
<1>12. \A s \in SUBSET N : it[s] = AddUp(column, it, s)
  BY <1>10 DEF Eq, AddUp
<1>13. it \in [SUBSET N -> V]
  <2> DEFINE G == {s \in SUBSET N : it[s] = h[s]}
  <2>1. ASSUME NEW s \in SUBSET N, \A t \in SUBSET s : t # s => t \in G PROVE s \in G
    <3>1. \A b \in s : it[s \ {b}] = h[s \ {b}]
      BY <2>1
    <3>2. AddUp(column, it, s) = AddUp(column, h, s)
      BY <3>1, AddUpDepends
    <3> QED BY <1>8, <1>12, <3>2
  <2> HIDE DEF G
  <2>2. SUBSET N \subseteq G
    BY <1>2, <2>1, AllSubsets
  <2>3. \A s \in SUBSET N : it[s] \in V
    BY <1>7, <2>2 DEF G
  <2> QED BY <1>11, <2>3
<1> QED BY <1>1, <1>12, <1>13 DEF N, V

\* Sums of some scores: x is the exact sum of their numbers, ds that of the database in
\* units; P bounds x, and Q and R what it and the rounded sums are away.
CloseTo(x, ds, sums, P, Q, R) ==
    /\ x \in Nat /\ ds \in Nat /\ 100 * x <= P /\ Near(100 * x, ds, Q)
    /\ \A y \in sums : y \in Nat /\ Near(y, x, R)

LEMMA OneMore ==
    ASSUME NEW x, NEW ds, NEW sums, NEW P \in Nat, NEW Q \in Nat, NEW R \in Nat,
           CloseTo(x, ds, sums, P, Q, R),
           NEW n \in Nat, NEW vs \in Nat, NEW m \in Nat, NEW q \in Nat,
           vs <= m, Near(100 * n, vs, q)
    PROVE  /\ n + x \in Nat /\ 100 * (n + x) <= P + (m + q)
           /\ Near(100 * (n + x), vs + ds, Q + q)
BY DEF CloseTo, Near

LEMMA OneRounding ==
    ASSUME NEW x \in Nat, NEW n \in Nat, NEW P \in Nat, NEW R \in Nat, NEW e \in Nat, NEW top \in Nat,
           100 * (n + x) <= P, P + 100 * (R + e) <= 100 * top, NEW z \in Nat, Near(z, x, R)
    PROVE  z + n <= top /\ \A y \in Nat : Near(y, z + n, e) => Near(y, n + x, R + e)
BY DEF Near

\* However the scores are added up, the total is near the exact one, and near that of
\* the database.
LEMMA SumsClose ==
    ASSUME NEW column \in [Subject -> Value], NEW t \in Sums(column)
    PROVE  /\ t \in Nat /\ NumberTotal(column) \in Nat /\ DecimalTotal(column) \in Nat
           /\ Near(t, NumberTotal(column), Cardinality(Subject) * Error)
           /\ Near(100 * t, DecimalTotal(column) * Scale, Cardinality(Subject) * Rounding)
<1> DEFINE N == Numeric(column)
           number == [b \in Subject |-> Shown(column[b])]
           C == Cardinality(Subject)
<1>1. /\ IsFiniteSet(N) /\ N \subseteq Subject
      /\ \A b \in N : column[b] \in 0 .. MaxScore /\ column[b] \in Nat
      /\ \A b \in N : number[b] = ToNumber[column[b]] /\ number[b] \in Number /\ number[b] \in Nat
  <2>1. N \in SUBSET Subject
    BY DEF Numeric
  <2>2. \A b \in N : column[b] \in Value /\ column[b] \notin {None, Null}
    BY DEF Numeric
  <2>3. \A b \in N : column[b] \in 0 .. MaxScore /\ number[b] = ToNumber[column[b]]
    BY <2>1, <2>2 DEF Value, Shown
  <2> HIDE DEF N, number
  <2>4. IsFiniteSet(N) /\ N \subseteq Subject
    BY <2>1, Subjects, FS_Subset
  <2>5. \A b \in N : ToNumber[column[b]] \in Number /\ ToNumber[column[b]] \in Nat
    BY <2>3, NumberTypes
  <2>6. \A b \in N : column[b] \in Nat
    BY <2>3, ErrorTypes
  <2> QED BY <2>3, <2>4, <2>5, <2>6
<1>2. column \in [Subject -> Int] /\ number \in [Subject -> Int]
  <2>1. \A b \in Subject : column[b] \in Int /\ Shown(column[b]) \in Int
    <3> SUFFICES ASSUME NEW b \in Subject PROVE column[b] \in Int /\ Shown(column[b]) \in Int
      OBVIOUS
    <3>1. column[b] \in 0 .. MaxScore \/ column[b] = None \/ column[b] = Null
      BY DEF Value
    <3>2. CASE column[b] \in 0 .. MaxScore
      <4>1. ToNumber[column[b]] \in Nat
        BY <3>2, NumberTypes
      <4> QED BY <3>2, <4>1, ErrorTypes DEF Shown, None, Null
    <3> QED BY <3>1, <3>2 DEF Shown, None, Null
  <2> QED BY <2>1
<1>3. NumberTotal(column) = SumFunctionOnSet(number, N)
  BY DEF NumberTotal
<1>4. DecimalTotal(column) = SumFunctionOnSet(column, N)
  BY DEF DecimalTotal
<1> HIDE DEF N, number
<1>5. PICK x : AddsUp(N, number, x) /\ x[N] = SumFunctionOnSet(number, N)
  BY <1>1, <1>2, SumFacts
<1>6. PICK d : AddsUp(N, column, d) /\ d[N] = SumFunctionOnSet(column, N)
  BY <1>1, <1>2, SumFacts
<1>7. PICK h \in [SUBSET N -> SUBSET Number] :
         Sums(column) = h[N] /\ \A s \in SUBSET N : h[s] = AddUp(column, h, s)
  BY SumsExist DEF N
<1>8. \A s \in SUBSET N : IsFiniteSet(s) /\ Cardinality(s) \in Nat /\ Cardinality(s) <= C
  BY <1>1, Subjects, FS_Subset, FS_CardinalityType
<1> HIDE DEF C
<1> DEFINE q == 100 * (Error + 1)
           m == MaxScore * Scale
           Close(s, c) == /\ d[s] \in Nat
                          /\ CloseTo(x[s], d[s] * Scale, h[s], c * (m + q), c * q, c * Error)
           G == {s \in SUBSET N : Close(s, Cardinality(s))}
<1>a. q \in Nat /\ m \in Nat /\ m + q \in Nat /\ Error \in Nat /\ Scale \in Nat /\ C \in Nat
  BY Subjects DEF C
<1>b. m + Rounding = (m + q) + 100 * Error /\ Rounding = q + 100 * Error /\ C * (m + Rounding) <= 100 * Top
  BY <1>a, Precision DEF Rounding, C
<1> HIDE DEF q, m
<1>9. ASSUME NEW s \in SUBSET N, \A u \in SUBSET s : u # s => u \in G PROVE s \in G
  <2>1. CASE s = {}
    <3>1. Cardinality(s) = 0 /\ x[s] = 0 /\ d[s] = 0 /\ h[s] = {0}
      BY <1>5, <1>6, <1>7, <2>1, FS_EmptySet DEF AddsUp, AddUp
    <3>2. 0 * (m + q) = 0 /\ 0 * q = 0 /\ 0 * Error = 0 /\ 0 * Scale = 0
      BY <1>a
    <3>3. CloseTo(0, 0, {0}, 0, 0, 0)
      BY DEF CloseTo, Near
    <3>4. Close(s, 0)
      BY <3>1, <3>2, <3>3
    <3> HIDE DEF Close
    <3> QED BY <3>1, <3>4
  <2>2. CASE s # {}
    <3> DEFINE c == Cardinality(s) - 1
    <3>1. c \in Nat /\ c + 1 = Cardinality(s) /\ \A b \in s : Cardinality(s \ {b}) = c
      <4>1. IsFiniteSet(s) /\ Cardinality(s) \in Nat /\ Cardinality(s) # 0
        BY <1>8, <2>2, FS_EmptySet
      <4>2. \A b \in s : Cardinality(s \ {b}) = Cardinality(s) - 1
        BY <4>1, FS_RemoveElement
      <4> QED BY <4>1, <4>2
    <3>2. c + 1 \in Nat /\ c + 1 <= C
      BY <1>8, <3>1
    <3> HIDE DEF c
    <3> DEFINE P == c * (m + q)
               Q == c * q
               R == c * Error
    <3>3. /\ P \in Nat /\ (c + 1) * (m + q) = P + (m + q)
          /\ Q \in Nat /\ (c + 1) * q = Q + q
          /\ R \in Nat /\ (c + 1) * Error = R + Error
      BY <1>a, <3>1, Multiples
    <3>4. (P + (m + q)) + 100 * (R + Error) <= 100 * Top
      <4>1. (c + 1) * (m + Rounding) <= C * (m + Rounding) /\ (c + 1) * (m + Rounding) \in Nat
            /\ C * (m + Rounding) \in Nat
        <5>1. m + Rounding \in Nat
          BY <1>a, Subjects
        <5> QED BY <1>a, <3>2, <5>1, Multiples
      <4>2. (c + 1) * (m + Rounding) = (c + 1) * (m + q) + 100 * ((c + 1) * Error)
        BY <1>a, <1>b, <3>2
      <4>3. (c + 1) * (m + Rounding) = (P + (m + q)) + 100 * (R + Error)
        BY <3>3, <4>2
      <4> QED BY <1>a, <1>b, <4>1, <4>3, ErrorTypes
    <3>5. ASSUME NEW b \in s
          PROVE  /\ x[s] = number[b] + x[s \ {b}] /\ d[s] = column[b] + d[s \ {b}]
                 /\ d[s \ {b}] \in Nat /\ CloseTo(x[s \ {b}], d[s \ {b}] * Scale, h[s \ {b}], P, Q, R)
                 /\ number[b] = ToNumber[column[b]]
                 /\ number[b] \in Nat /\ column[b] \in Nat /\ number[b] \in Number
                 /\ column[b] * Scale \in Nat /\ column[b] * Scale <= m
                 /\ Near(100 * number[b], column[b] * Scale, q)
      <4>1. x[s] = number[b] + x[s \ {b}] /\ d[s] = column[b] + d[s \ {b}]
        BY <1>5, <1>6 DEF AddsUp
      <4>2. s \ {b} \in G /\ b \in N /\ b \in Subject
        <5> HIDE DEF G
        <5> QED BY <1>1, <1>9
      <4>3. Close(s \ {b}, c)
        BY <3>1, <4>2
      <4>4. /\ column[b] * Scale \in Nat /\ column[b] * Scale <= m
            /\ Near(100 * ToNumber[column[b]], column[b] * Scale, q)
        BY <1>1, <4>2, ToNumberNear DEF m, q
      <4> QED BY <1>1, <4>1, <4>2, <4>3, <4>4
    <3> HIDE DEF P, Q, R, G
    <3>6. ASSUME NEW b \in s
          PROVE  /\ x[s] \in Nat /\ 100 * x[s] <= P + (m + q)
                 /\ d[s] \in Nat /\ d[s] * Scale \in Nat /\ Near(100 * x[s], d[s] * Scale, Q + q)
      <4> DEFINE ds == d[s \ {b}] * Scale
                 vs == column[b] * Scale
      <4>1. ds \in Nat /\ d[s] * Scale = vs + ds /\ d[s] \in Nat
        <5>1. d[s] = column[b] + d[s \ {b}] /\ column[b] \in Nat /\ d[s \ {b}] \in Nat
          BY <3>5
        <5> QED BY ONLY <1>a, <5>1, Distributes
      <4>2. vs \in Nat /\ vs <= m /\ CloseTo(x[s \ {b}], ds, h[s \ {b}], P, Q, R)
            /\ Near(100 * number[b], vs, q) /\ number[b] \in Nat
        BY <3>5
      <4> HIDE DEF ds, vs
      <4>4. /\ number[b] + x[s \ {b}] \in Nat /\ 100 * (number[b] + x[s \ {b}]) <= P + (m + q)
            /\ Near(100 * (number[b] + x[s \ {b}]), vs + ds, Q + q)
        BY <1>a, <3>3, <4>2, OneMore
      <4>5. vs + ds \in Nat
        BY <4>1, <4>2
      <4> QED BY <3>5, <4>1, <4>4, <4>5
    <3>7. ASSUME NEW y \in h[s] PROVE y \in Nat /\ Near(y, x[s], R + Error)
      <4>0. y \in AddUp(column, h, s)
        BY <1>7
      <4>a. IsLast(column, h, s, y)
        BY <2>2, <4>0, AddUpMember
      <4>1. PICK a \in s : \E z \in h[s \ {a}] : y = Plus[<<z, ToNumber[column[a]]>>]
        BY <4>a DEF IsLast
      <4>2. PICK z \in h[s \ {a}] : y = Plus[<<z, ToNumber[column[a]]>>]
        BY <4>1
      <4>3. /\ z \in Number /\ z \in Nat /\ x[s \ {a}] \in Nat /\ Near(z, x[s \ {a}], R)
            /\ number[a] \in Nat /\ number[a] \in Number /\ y = Plus[<<z, number[a]>>]
            /\ x[s] = number[a] + x[s \ {a}]
        <5>1. CloseTo(x[s \ {a}], d[s \ {a}] * Scale, h[s \ {a}], P, Q, R) /\ s \ {a} \in SUBSET N
          BY <3>5
        <5>2. z \in Number /\ z \in Nat /\ x[s \ {a}] \in Nat /\ Near(z, x[s \ {a}], R)
          BY <1>7, <5>1 DEF CloseTo
        <5> QED BY <3>5, <4>2, <5>2
      <4> DEFINE T == P + (m + q)
      <4>4. T \in Nat /\ 100 * (number[a] + x[s \ {a}]) <= T /\ T + 100 * (R + Error) <= 100 * Top
        <5>1. 100 * x[s] <= T /\ x[s] = number[a] + x[s \ {a}]
          BY <3>6, <4>3
        <5>2. T \in Nat
          BY <1>a, <3>3
        <5>3. T + 100 * (R + Error) <= 100 * Top
          BY <3>4
        <5> HIDE DEF T
        <5> QED BY <5>1, <5>2, <5>3
      <4> HIDE DEF T
      <4>5. z + number[a] <= Top
        BY <1>a, <3>3, <4>3, <4>4, OneRounding, ErrorTypes
      <4>6. y \in Nat /\ Near(y, z + number[a], Error)
        BY <4>3, <4>5, PlusNear
      <4>7. Near(y, number[a] + x[s \ {a}], R + Error)
        BY <1>a, <3>3, <4>3, <4>4, <4>6, OneRounding, ErrorTypes
      <4> QED BY <4>3, <4>6, <4>7
    <3>8. CloseTo(x[s], d[s] * Scale, h[s], P + (m + q), Q + q, R + Error) /\ d[s] \in Nat
      <4>1. PICK b \in s : TRUE
        BY <2>2
      <4>2. /\ x[s] \in Nat /\ 100 * x[s] <= P + (m + q)
            /\ d[s] \in Nat /\ d[s] * Scale \in Nat /\ Near(100 * x[s], d[s] * Scale, Q + q)
        BY <3>6, <4>1
      <4> QED BY <3>7, <4>2 DEF CloseTo
    <3>9. Close(s, Cardinality(s))
      BY <3>1, <3>3, <3>8
    <3> QED BY <3>9 DEF G
  <2> QED BY <2>1, <2>2
<1>10. N \in G
  <2> HIDE DEF G
  <2> QED BY <1>1, <1>9, AllSubsets
<1>11. Close(N, Cardinality(N))
  BY <1>10
<1> DEFINE k == Cardinality(N)
<1>12. k \in Nat /\ k <= C
  BY <1>8
<1>13. /\ x[N] \in Nat /\ d[N] \in Nat /\ d[N] * Scale \in Nat /\ t \in Nat
       /\ Near(t, x[N], k * Error) /\ Near(100 * x[N], d[N] * Scale, k * q)
  BY <1>7, <1>11 DEF CloseTo
<1> HIDE DEF k
<1>14. Near(t, x[N], C * Error)
  <2>1. k * Error <= C * Error /\ k * Error \in Nat /\ C * Error \in Nat
    BY <1>a, <1>12, Multiples
  <2> QED BY <1>13, <2>1 DEF Near
<1>15. Near(100 * t, d[N] * Scale, C * Rounding)
  <2>1. k * Rounding = k * q + 100 * (k * Error) /\ k * q \in Nat /\ k * Error \in Nat
    BY <1>a, <1>b, <1>12
  <2>2. k * Rounding <= C * Rounding /\ C * Rounding \in Nat /\ k * Rounding \in Nat
    BY <1>a, <1>12, Multiples, Subjects
  <2> QED BY <1>13, <2>1, <2>2 DEF Near
<1> QED BY <1>3, <1>4, <1>5, <1>6, <1>13, <1>14, <1>15 DEF C

\* The totals of an exam: one per student with a score, made of that student's.
LEMMA ColumnType ==
    ASSUME NEW table \in [Cell -> Value], NEW s \in Student
    PROVE  Column(table, s) \in [Subject -> Value] /\ \A b \in Subject : Column(table, s)[b] = table[<<b, s>>]
BY DEF Column, Cell

LEMMA TotalsFacts ==
    ASSUME NEW table, NEW totals \in Totals(table)
    PROVE  /\ \A v \in totals : v[1] \in Student /\ v = <<v[1], v[2]>> /\ v[2] \in Sums(Column(table, v[1]))
           /\ \A v, w \in totals : v[1] = w[1] => v = w
           /\ \A s \in Student : Numeric(Column(table, s)) # {} => \E v \in totals : v[1] = s
<1> DEFINE T == {t \in Student : Numeric(Column(table, t)) # {}}
           may(s) == {s} \X Sums(Column(table, s))
           sets == {may(s) : s \in T}
<1>1. totals \in OneOfEach(sets)
  BY DEF Totals
<1>2. /\ \A v \in totals : \E S \in sets : v \in S
      /\ \A S \in sets : \E x \in S : totals \cap S = {x}
  <2> HIDE DEF sets
  <2> QED BY <1>1 DEF OneOfEach
<1>3. \A s, v : v \in may(s) => v[1] = s /\ v = <<v[1], v[2]>> /\ v[2] \in Sums(Column(table, s))
  OBVIOUS
<1> HIDE DEF may
<1>4. /\ \A v \in totals : \E s \in T : v \in may(s)
      /\ \A s \in T : \E x \in may(s) : totals \cap may(s) = {x}
  BY <1>2
<1>5. ASSUME NEW v \in totals PROVE v[1] \in T /\ v \in may(v[1])
  BY <1>3, <1>4
<1>6. ASSUME NEW v \in totals, NEW w \in totals, v[1] = w[1] PROVE v = w
  <2>1. v[1] \in T /\ v \in may(v[1]) /\ w \in may(v[1])
    BY <1>5, <1>6
  <2>2. PICK x : totals \cap may(v[1]) = {x}
    BY <1>4, <2>1
  <2> QED BY <2>1, <2>2
<1>7. \A s \in T : \E v \in totals : v[1] = s
  BY <1>3, <1>4
<1> QED BY <1>3, <1>5, <1>6, <1>7

LEMMA TotalOfStudent ==
    ASSUME NEW table \in [Cell -> Value], NEW totals \in Totals(table), NEW s \in Student
    PROVE  TotalIn(totals, s) \in Sums(Column(table, s))
<1> DEFINE mine == {v \in totals : v[1] = s}
           column == Column(table, s)
<1>1. TotalIn(totals, s) = IF mine = {} THEN 0 ELSE (CHOOSE v \in mine : TRUE)[2]
  BY DEF TotalIn
<1>2. CASE mine = {}
  <2>1. Numeric(column) = {}
    BY <1>2, TotalsFacts
  <2>2. PICK h : Sums(column) = h[Numeric(column)] /\ \A u \in SUBSET Numeric(column) : h[u] = AddUp(column, h, u)
    BY ColumnType, SumsExist
  <2>3. Sums(column) = {0}
    BY <2>1, <2>2 DEF AddUp
  <2> QED BY <1>1, <1>2, <2>3
<1>3. CASE mine # {}
  <2> DEFINE v == CHOOSE v \in mine : TRUE
  <2>1. v \in mine
    BY <1>3
  <2>2. TotalIn(totals, s) = v[2]
    BY <1>1, <1>3
  <2> HIDE DEF v
  <2> QED BY <2>1, <2>2, TotalsFacts
<1> QED BY <1>2, <1>3

\* One exam of a student: the total is that of its rows, to the hundredth.
LEMMA RowsAddUp ==
    ASSUME NEW e, NEW s \in Student, NEW table \in [Cell -> Value], NEW r \in StudentExams(e, table, s)
    PROVE  r.exam = e /\ SameToTheHundredth(r.total, RowsTotal(r.rows))
<1> DEFINE column == Column(table, s)
           rows == [b \in Subject |-> [score |-> Shown(table[<<b, s>>]),
                                       rank |-> RankIn(InSubject(table, b), s)]]
           f == [b \in Subject |-> Shown(column[b])]
           g == [x \in Subject |-> IF f[x] < 0 THEN 0 ELSE f[x]]
           C == Cardinality(Subject)
<1>1. column \in [Subject -> Value] /\ \A b \in Subject : column[b] = table[<<b, s>>]
  BY ColumnType
<1>2. PICK totals \in Totals(table) :
         r = [exam |-> e, total |-> TotalIn(totals, s), scored |-> Cardinality(Numeric(Column(table, s))),
              rank |-> RankIn(totals, s), rows |-> rows]
  BY DEF StudentExams
<1>3. r.exam = e /\ r.rows = rows /\ r.total = TotalIn(totals, s)
  BY <1>2
<1>4. r.total \in Sums(column)
  BY <1>3, TotalOfStudent
<1>5. \A b \in Subject : rows[b].score = f[b]
  BY <1>1
<1> HIDE DEF rows
<1>6. RowsTotal(rows) = SumFunction(g)
  BY <1>5 DEF RowsTotal
<1>7. /\ f \in [Subject -> Nat \cup {None, Null}]
      /\ {b \in Subject : f[b] \notin {None, Null}} = Numeric(column)
  <2> SUFFICES ASSUME NEW b \in Subject
               PROVE  /\ Shown(column[b]) \in Nat \cup {None, Null}
                      /\ Shown(column[b]) \notin {None, Null} <=> column[b] \notin {None, Null}
    BY DEF Numeric
  <2>1. CASE column[b] \in {None, Null}
    BY <2>1 DEF Shown
  <2>2. CASE column[b] \notin {None, Null}
    <3>1. column[b] \in 0 .. MaxScore
      BY <1>1, <2>2 DEF Value
    <3>2. ToNumber[column[b]] \in Nat
      BY <3>1, NumberTypes
    <3> QED BY <2>2, <3>2 DEF Shown, None, Null
  <2> QED BY <2>1, <2>2
<1>8. NumberTotal(column) = SumFunctionOnSet(f, Numeric(column))
  BY DEF NumberTotal
<1> HIDE DEF column, f
<1>9. SumFunctionOnSet(f, {b \in Subject : f[b] \notin {None, Null}}) = SumFunction(g)
  <2> HIDE DEF g
  <2>1. f \in [Subject -> Nat \cup {None, Null}] /\ IsFiniteSet(Subject)
    BY <1>7, Subjects
  <2> QED BY <2>1, ClippedSum DEF g
<1>10. RowsTotal(rows) = NumberTotal(column)
  BY <1>6, <1>7, <1>8, <1>9
<1>11. r.total \in Nat /\ NumberTotal(column) \in Nat /\ Near(r.total, NumberTotal(column), C * Error)
  BY <1>1, <1>4, SumsClose
<1>12. 200 * (C * Error) < Scale /\ C * Error \in Nat
  <2>1. C * Rounding = 200 * (C * Error) + 100 * C /\ C * Error \in Nat /\ C \in Nat
    BY Subjects DEF Rounding
  <2> QED BY <2>1, Subjects
<1>13. Apart(r.total, NumberTotal(column)) <= C * Error /\ Apart(r.total, NumberTotal(column)) \in Nat
  BY <1>11, <1>12, ApartFacts
<1>14. SameToTheHundredth(r.total, NumberTotal(column))
  BY <1>12, <1>13, Subjects DEF SameToTheHundredth
<1> QED BY <1>3, <1>10, <1>14

LEMMA PerStudent ==
    ASSUME NEW V, V \subseteq Nat \X Int, \A v \in V : v[1] \in Student,
           \A v, w \in V : v[1] = w[1] => v = w
    PROVE  Values(V)
<1> DEFINE first == [v \in V |-> v[1]]
<1>1. first \in Injection(V, Student)
  BY DEF Injection, IsInjective
<1>2. IsFiniteSet(V)
  <2> HIDE DEF first
  <2> QED BY <1>1, BatchData, FS_Injection
<1> QED BY <1>2 DEF Values

LEMMA TotalsValues ==
    ASSUME NEW table \in [Cell -> Value], NEW totals \in Totals(table)
    PROVE  Values(totals)
<1>1. \A v \in totals : v[1] \in Student /\ v = <<v[1], v[2]>> /\ v[2] \in Nat /\ v[1] \in Nat
  <2> SUFFICES ASSUME NEW v \in totals
               PROVE  v[1] \in Student /\ v = <<v[1], v[2]>> /\ v[2] \in Nat /\ v[1] \in Nat
    OBVIOUS
  <2>1. v[1] \in Student /\ v = <<v[1], v[2]>> /\ v[2] \in Sums(Column(table, v[1]))
    BY TotalsFacts
  <2>2. v[2] \in Nat
    BY <2>1, ColumnType, SumsClose
  <2> QED BY <2>1, <2>2, BatchData
<1>2. \A v, w \in totals : v[1] = w[1] => v = w
  BY TotalsFacts
<1> QED BY <1>1, <1>2, PerStudent

\* In a subject, the numbers are in the order of the scores.
LEMMA SubjectValues ==
    ASSUME NEW table \in [Cell -> Value], NEW b \in Subject
    PROVE  /\ Values(InSubject(table, b))
           /\ \A v, w \in InSubject(table, b) : w[2] > v[2] <=> table[<<b, w[1]>>] > table[<<b, v[1]>>]
<1> DEFINE V == InSubject(table, b)
           score_(v) == table[<<b, v[1]>>]
<1>1. ASSUME NEW v \in V
      PROVE  /\ v[1] \in Student /\ v = <<v[1], v[2]>> /\ score_(v) \in 0 .. MaxScore
             /\ v[2] = ToNumber[score_(v)] /\ v[2] \in Nat /\ score_(v) \in Nat /\ v[1] \in Nat
  <2>1. PICK s \in Student : table[<<b, s>>] \notin {None, Null} /\ v = <<s, ToNumber[table[<<b, s>>]]>>
    BY DEF InSubject
  <2>2. table[<<b, s>>] \in 0 .. MaxScore
    BY <2>1 DEF Cell, Value
  <2>3. ToNumber[table[<<b, s>>]] \in Nat
    BY <2>2, NumberTypes
  <2> QED BY <2>1, <2>2, <2>3, ErrorTypes, BatchData
<1> HIDE DEF V
<1>2. Values(V)
  <2>1. V \subseteq Nat \X Int /\ \A v \in V : v[1] \in Student
    <3> HIDE DEF score_
    <3> QED BY <1>1
  <2>2. ASSUME NEW v \in V, NEW w \in V, v[1] = w[1] PROVE v = w
    <3>1. score_(v) = score_(w)
      BY <2>2
    <3> HIDE DEF score_
    <3> QED BY <1>1, <2>2, <3>1
  <2> QED BY <2>1, <2>2, PerStudent
<1>3. ASSUME NEW v \in V, NEW w \in V PROVE w[2] > v[2] <=> score_(w) > score_(v)
  <2>1. score_(v) < score_(w) => v[2] < w[2]
    BY <1>1, ToNumberGrows
  <2>2. score_(w) < score_(v) => w[2] < v[2]
    BY <1>1, ToNumberGrows
  <2>3. score_(w) = score_(v) => w[2] = v[2]
    BY <1>1
  <2>4. /\ v[2] \in Nat /\ w[2] \in Nat /\ score_(v) \in Nat /\ score_(w) \in Nat
    BY <1>1
  <2> HIDE DEF score_
  <2> QED BY <2>1, <2>2, <2>3, <2>4
<1> QED BY <1>2, <1>3 DEF V

\* Whoever has more in the database has the greater sum.
LEMMA TotalsGrow ==
    ASSUME NEW table \in [Cell -> Value], NEW totals \in Totals(table), NEW v \in totals, NEW w \in totals,
           DecimalTotal(Column(table, w[1])) > DecimalTotal(Column(table, v[1]))
    PROVE  w[2] > v[2]
<1> DEFINE d(u) == DecimalTotal(Column(table, u[1]))
           R == Cardinality(Subject) * Rounding
<1>1. ASSUME NEW u \in totals PROVE u[2] \in Nat /\ d(u) \in Nat /\ Near(100 * u[2], d(u) * Scale, R)
  <2>1. u[1] \in Student /\ u[2] \in Sums(Column(table, u[1]))
    BY TotalsFacts
  <2> QED BY <2>1, ColumnType, SumsClose
<1>2. /\ v[2] \in Nat /\ d(v) \in Nat /\ Near(100 * v[2], d(v) * Scale, R)
      /\ w[2] \in Nat /\ d(w) \in Nat /\ Near(100 * w[2], d(w) * Scale, R)
  BY <1>1
<1>3. R \in Nat /\ 2 * R < Scale /\ Scale \in Nat
  BY Subjects
<1>4. d(w) > d(v)
  OBVIOUS
<1> HIDE DEF d, R
<1>5. (d(v) + 1) * Scale <= d(w) * Scale /\ (d(v) + 1) * Scale = d(v) * Scale + Scale
      /\ d(v) * Scale \in Nat /\ d(w) * Scale \in Nat
  <2>1. d(v) + 1 \in Nat /\ d(v) + 1 <= d(w)
    BY <1>2, <1>4
  <2> QED BY <1>2, <1>3, <2>1, Multiples
<1> QED BY <1>2, <1>3, <1>5 DEF Near

LEMMA RanksOfTotals ==
    ASSUME NEW table \in [Cell -> Value], NEW totals \in Totals(table)
    PROVE  RanksFollow(totals, table)
<1> DEFINE rank == [v \in totals |-> RankIn(totals, v[1])]
           above(v) == {u \in totals : u[2] > v[2]}
<1>1. Values(totals)
  BY TotalsValues
<1>2. \A v \in totals : rank[v] = 1 + Cardinality(above(v))
  BY <1>1, RankCounts
<1>3. ASSUME NEW v \in totals, NEW w \in totals,
             DecimalTotal(Column(table, w[1])) > DecimalTotal(Column(table, v[1]))
      PROVE  rank[w] < rank[v]
  <2>1. w[2] > v[2]
    BY <1>3, TotalsGrow
  <2>2. \A u \in totals : u[2] \in Int
    BY <1>1 DEF Values
  <2>3. above(w) \subseteq above(v) /\ w \in above(v) /\ w \notin above(w)
    BY <2>1, <2>2
  <2>4. IsFiniteSet(above(v)) /\ above(v) \in SUBSET totals
    BY <1>1, FS_Subset DEF Values
  <2> HIDE DEF above, rank
  <2>5. /\ Cardinality(above(v)) \in Nat /\ Cardinality(above(w)) \in Nat
        /\ Cardinality(above(w)) <= Cardinality(above(v)) /\ Cardinality(above(w)) # Cardinality(above(v))
    BY <2>3, <2>4, FS_Subset, FS_CardinalityType
  <2> QED BY <1>2, <2>5
<1> HIDE DEF rank
<1>4. \A v \in totals : /\ rank[v] = 1 + Cardinality({w \in totals : w[2] > v[2]})
                        /\ \A w \in totals : DecimalTotal(Column(table, w[1])) > DecimalTotal(Column(table, v[1]))
                             => rank[w] < rank[v]
  BY <1>2, <1>3
<1> QED BY <1>4 DEF RanksFollow, rank

--------------------------------------------------------------------------------
(* The batch. *)

\* A request for widgets and the changes of relations leave the exams and scores
\* alone (ResultsService only reads).
THEOREM ReadsOnly == Spec => SeedSpec
<1>1. Init => SeedInit
  BY DEF Init
<1>2. [Next]_vars => [SeedNext]_seedVars
  BY DEF Next, vars, seedVars, Receive, FindPerson, Refuse, ReadChildren, NoChild, StartRead,
     UseRemembered, CheckAccess, ReadExams, ReadScores, FailRead, OtherStep, ChangeRelation,
     Answer, Fixed
<1> QED BY <1>1, <1>2, PTL DEF Spec, SeedSpec

\* Whatever is read meanwhile, the demonstration exams are whole.
THEOREM SeedIsWhole == Spec => []SeedWhole
BY ReadsOnly, Whole, PTL

\* Nor does a request bring back a withdrawn demonstration exam or change its scores.
THEOREM SeedIsStable == Spec => DemoStable
BY ReadsOnly, Stable, PTL

Widget == [key : STRING, endpoint : STRING, preset : STRING, child : Nat]
Reading == batch.pc \in {"access", "exams", "scores"}
Fields ==
    batch = [pc |-> batch.pc, items |-> batch.items, out |-> batch.out, memo |-> batch.memo,
             target |-> batch.target, exams |-> batch.exams, reader |-> batch.reader,
             token |-> batch.token]

\* The student a reader asks about may be seen by that reader; 0 is no student.
MaySee(s) ==
    /\ s \in Student \cup {0}
    /\ batch.reader.kind = "STUDENT" => s \in Student
    /\ batch.reader.kind = "PARENT" => s \in Student /\ <<batch.reader.who, s>> \in since.related

IsSequence(q) == Len(q) \in Nat /\ q = [i \in 1 .. Len(q) |-> q[i]]

\* A request that is not answered has an item to answer; what it is reading is not
\* remembered yet.
BatchOK ==
    /\ Fields
    /\ batch.pc \in {"idle", "person", "item", "access", "exams", "scores", "done"}
    /\ batch.items \in Seq(Widget) /\ IsSequence(batch.out)
    /\ batch.pc = "idle" => batch = Idle
    /\ batch.pc # "idle" =>
         /\ batch.items # <<>>
         /\ batch.reader.kind = "STUDENT" => batch.reader.who \in Student
    /\ batch.pc = "person" => batch.out = <<>> /\ batch.memo = {}
    /\ batch.pc \notin {"idle", "done"} => Len(batch.out) < Len(batch.items)
    /\ batch.pc = "done" => Len(batch.out) = Len(batch.items)
    /\ Reading => MaySee(batch.target) /\ Remembered(KeyOf(Item, batch.target)) = {}
    /\ batch.pc = "scores" => batch.exams \subseteq since.published /\ batch.exams \subseteq Exam

\* The history has what is true now.
SinceOK ==
    /\ related \subseteq Parent \X Student
    /\ batch.pc # "idle" =>
         /\ {e \in Exam : exam[e] = "PUBLISHED"} \subseteq since.published
         /\ related \subseteq since.related

\* What is remembered: the related children, or results of exams that have been
\* published; those of a student add up, one per exam.
MemoOK(m) ==
    /\ m.key = ChildrenKey \/ m.key \in (Student \cup {0}) \X {1, 12}
    /\ m.key = ChildrenKey =>
         \A s \in m.data : s \in Student /\ <<batch.reader.who, s>> \in since.related
    /\ m.key # ChildrenKey => \A d \in m.data : d.exam \in since.published
    /\ m.key[1] # 0 => /\ \A d \in m.data : SameToTheHundredth(d.total, RowsTotal(d.rows))
                       /\ \A d, f \in m.data : d.exam = f.exam => d = f
MemoInv ==
    /\ \A m \in batch.memo : MemoOK(m)
    /\ \A m, n \in batch.memo : m.key = n.key => m = n

\* An answer shows what was remembered for its student and widget.
AnswerOK(a, item) ==
    /\ \A d \in a.data : d.exam \in since.published
    /\ a.code = "ok" => MaySee(a.student)
    /\ a.code = "ok" /\ batch.reader.kind \in {"STUDENT", "PARENT"} =>
         \E m \in batch.memo : m.key = KeyOf(item, a.student) /\ a.data = Payload(item.key, m.data)
    /\ a.code = "WIDGET_NOT_AUTHORIZED" => ~Authorized(item)
    /\ a.code = "WIDGET_DATA_UNAVAILABLE" =>
         \E m \in batch.memo : ~m.ok /\ (m.key = ChildrenKey \/ m.key[2] = LimitOf(item))
OutOK(i) == AnswerOK(batch.out[i], batch.items[i])
OutInv == \A i \in 1 .. Len(batch.out) : OutOK(i)

BatchInv == BatchOK /\ SinceOK /\ MemoInv /\ OutInv
--------------------------------------------------------------------------------
LEMMA IdleFields ==
    Idle = [pc |-> "idle", items |-> <<>>, out |-> <<>>, memo |-> {}, target |-> 0, exams |-> {},
            reader |-> [kind |-> "", who |-> 0], token |-> {}]
BY DEF Idle

LEMMA IdleEmpty == Idle.items = <<>> /\ Idle.out = <<>> /\ Idle.memo = {}
BY IdleFields

LEMMA KeyFacts ==
    /\ ChildrenKey[1] = 0 /\ ChildrenKey[2] = 0
    /\ \A item, s : /\ KeyOf(item, s)[1] = s /\ KeyOf(item, s)[2] = LimitOf(item)
                    /\ KeyOf(item, s) # ChildrenKey
                    /\ s \in Student \cup {0} => KeyOf(item, s) \in (Student \cup {0}) \X {1, 12}
<1>1. \A item : LimitOf(item) \in {1, 12}
  BY DEF LimitOf
<1> QED BY <1>1 DEF ChildrenKey, KeyOf

LEMMA StudentFacts == \A s \in Student : s \in Nat /\ s # 0
BY BatchData

LEMMA SequenceForm ==
    ASSUME NEW S, NEW q \in Seq(S)
    PROVE  IsSequence(q)
BY DEF IsSequence

\* One more answer.
LEMMA AppendAny ==
    ASSUME NEW q, IsSequence(q), NEW a
    PROVE  /\ IsSequence(Append(q, a))
           /\ Len(q) \in Nat /\ Len(Append(q, a)) = Len(q) + 1
           /\ Append(q, a)[Len(q) + 1] = a
           /\ \A i \in 1 .. Len(q) : Append(q, a)[i] = q[i]
<1> DEFINE S == {q[i] : i \in 1 .. Len(q)} \cup {a}
<1>1. q \in Seq(S) /\ a \in S
  BY DEF IsSequence
<1> HIDE DEF S
<1>2. Append(q, a) \in Seq(S) /\ Len(Append(q, a)) = Len(q) + 1 /\ Len(q) \in Nat
  BY <1>1
<1>3. IsSequence(Append(q, a))
  BY <1>2, SequenceForm
<1> QED BY <1>1, <1>2, <1>3

\* Every request starts idle, so only the history and the types have to be shown.
LEMMA BatchInit == Init => BatchInv
<1> SUFFICES ASSUME Init PROVE BatchInv
  OBVIOUS
<1>1. batch = Idle /\ related = Family
  BY DEF Init
<1>2. BatchOK
  <2>1. <<>> \in Seq(Widget) /\ IsSequence(<<>>)
    BY DEF IsSequence
  <2> QED BY <1>1, <2>1, IdleFields DEF BatchOK, Fields, Reading
<1>3. SinceOK
  BY <1>1, BatchData, IdleFields DEF SinceOK
<1>4. batch.memo = {} /\ 1 .. Len(batch.out) = {}
  <2>1. batch.memo = {} /\ batch.out = <<>>
    BY <1>1, IdleFields
  <2> QED BY <2>1
<1>5. MemoInv /\ OutInv
  BY <1>4 DEF MemoInv, OutInv
<1> QED BY <1>2, <1>3, <1>5 DEF BatchInv

\* What a request remembers and has answered stays right while it goes on.
SameRequest ==
    /\ batch'.items = batch.items /\ batch'.reader = batch.reader /\ batch'.token = batch.token
    /\ since.published \subseteq since'.published /\ since.related \subseteq since'.related

LEMMA KeptMemo ==
    ASSUME SameRequest, NEW m, MemoOK(m)
    PROVE  MemoOK(m)'
BY DEF SameRequest, MemoOK

LEMMA KeptAnswer ==
    ASSUME SameRequest, batch.memo \subseteq batch'.memo, NEW a, NEW item, AnswerOK(a, item)
    PROVE  AnswerOK(a, item)'
<1>1. Authorized(item)' <=> Authorized(item)
  BY DEF SameRequest, Authorized
<1>2. a.code = "ok" /\ MaySee(a.student) => MaySee(a.student)'
  BY DEF SameRequest, MaySee
<1> QED BY <1>1, <1>2 DEF SameRequest, AnswerOK

LEMMA KeptOut ==
    ASSUME SameRequest, batch.memo \subseteq batch'.memo, NEW i, OutOK(i), batch'.out[i] = batch.out[i]
    PROVE  OutOK(i)'
<1>1. PICK a, item : a = batch.out[i] /\ item = batch.items[i]
  OBVIOUS
<1>2. AnswerOK(a, item)'
  BY <1>1, KeptAnswer DEF OutOK
<1> QED BY <1>1, <1>2 DEF SameRequest, OutOK

LEMMA NothingNew ==
    ASSUME BatchInv, SameRequest, batch'.memo = batch.memo, batch'.out = batch.out
    PROVE  MemoInv' /\ OutInv'
<1>1. MemoInv'
  BY KeptMemo DEF BatchInv, MemoInv
<1>2. ASSUME NEW i \in 1 .. Len(batch.out) PROVE OutOK(i)'
  BY KeptOut DEF BatchInv, OutInv
<1> QED BY <1>1, <1>2 DEF OutInv

LEMMA OneRemembered ==
    ASSUME BatchInv, SameRequest, batch'.out = batch.out, NEW m, MemoOK(m)',
           batch'.memo = batch.memo \cup {m}, Remembered(m.key) = {}
    PROVE  MemoInv' /\ OutInv'
<1>1. \A n \in batch'.memo : MemoOK(n)'
  <2>1. \A n \in batch.memo : MemoOK(n)'
    BY KeptMemo DEF BatchInv, MemoInv
  <2> QED BY <2>1
<1>2. \A n, k \in batch'.memo : n.key = k.key => n = k
  BY DEF BatchInv, MemoInv, Remembered
<1>3. ASSUME NEW i \in 1 .. Len(batch.out) PROVE OutOK(i)'
  BY KeptOut DEF BatchInv, OutInv
<1> QED BY <1>1, <1>2, <1>3 DEF MemoInv, OutInv

LEMMA OneAnswered ==
    ASSUME BatchInv, SameRequest, batch'.memo = batch.memo, NEW a,
           batch'.out = Append(batch.out, a), NEW n, n = Len(batch.out) + 1, OutOK(n)'
    PROVE  MemoInv' /\ OutInv'
<1>1. MemoInv'
  BY KeptMemo DEF BatchInv, MemoInv
<1>2. /\ Len(batch.out) \in Nat /\ Len(batch'.out) = Len(batch.out) + 1
      /\ \A i \in 1 .. Len(batch.out) : batch'.out[i] = batch.out[i]
  BY AppendAny DEF BatchInv, BatchOK
<1>3. ASSUME NEW i \in 1 .. Len(batch.out) PROVE OutOK(i)'
  BY <1>2, KeptOut DEF BatchInv, OutInv
<1>4. \A i \in 1 .. Len(batch'.out) : i \in 1 .. Len(batch.out) \/ i = n
  BY <1>2
<1>5. \A i \in 1 .. Len(batch'.out) : OutOK(i)'
  BY <1>3, <1>4
<1> QED BY <1>1, <1>5 DEF OutInv

Now(pc, target, exams, memo) ==
    [batch EXCEPT !.pc = pc, !.target = target, !.exams = exams, !.memo = memo]

\* A request goes on and reads or remembers something, but answers no item.
LEMMA GoesOn ==
    ASSUME BatchInv, NEW pc \in {"item", "access", "exams", "scores"},
           NEW target, NEW exams, NEW memo,
           batch.pc \notin {"idle", "done", "person"} \/ (batch.pc = "person" /\ pc = "item"),
           batch' = Now(pc, target, exams, memo),
           UNCHANGED since, Fixed
    PROVE  /\ SameRequest /\ SinceOK' /\ batch'.pc = pc /\ batch'.target = target
           /\ batch'.exams = exams /\ batch'.memo = memo /\ batch'.out = batch.out
           /\ Item' = Item
           /\ (/\ pc # "item" => MaySee(target) /\ \A m \in memo : m.key # KeyOf(Item, target)
               /\ pc = "scores" => exams \subseteq since.published /\ exams \subseteq Exam)
              => BatchOK'
<1>1. Fields
  BY DEF BatchInv, BatchOK
<1>2. batch' = [pc |-> pc, items |-> batch.items, out |-> batch.out, memo |-> memo,
                target |-> target, exams |-> exams, reader |-> batch.reader, token |-> batch.token]
  BY <1>1 DEF Fields, Now
<1>3. /\ batch'.pc = pc /\ batch'.target = target /\ batch'.exams = exams /\ batch'.memo = memo
      /\ batch'.out = batch.out /\ batch'.items = batch.items /\ batch'.reader = batch.reader
      /\ batch'.token = batch.token
  BY <1>2
<1>4. Fields'
  BY <1>2, <1>3 DEF Fields
<1>5. SameRequest /\ SinceOK' /\ Item' = Item
  BY <1>3 DEF SameRequest, SinceOK, Fixed, Item, BatchInv
<1>6. ASSUME pc # "item" => MaySee(target) /\ \A m \in memo : m.key # KeyOf(Item, target),
             pc = "scores" => exams \subseteq since.published /\ exams \subseteq Exam
      PROVE  BatchOK'
  <2>1. pc # "item" => (MaySee(batch.target) /\ Remembered(KeyOf(Item, batch.target)) = {})'
    <3>1. pc # "item" => MaySee(batch.target)'
      BY <1>3, <1>6 DEF MaySee
    <3>2. KeyOf(Item, batch.target)' = KeyOf(Item, target)
      BY <1>3, <1>5 DEF KeyOf, LimitOf
    <3>3. (Remembered(KeyOf(Item, batch.target)))' = {m \in batch'.memo : m.key = KeyOf(Item, batch.target)'}
      BY DEF Remembered
    <3> QED BY <1>3, <1>6, <3>1, <3>2, <3>3
  <2>2. pc \notin {"idle", "done", "person"}
    OBVIOUS
  <2> QED BY <1>3, <1>4, <1>6, <2>1, <2>2 DEF BatchInv, BatchOK, Reading
<1> QED BY <1>3, <1>5, <1>6

\* The step of a request, with the fields it changes; the rest stays.
LEMMA Steps ==
    ASSUME Fields, NEW pc
    PROVE  /\ [batch EXCEPT !.pc = pc] = Now(pc, batch.target, batch.exams, batch.memo)
           /\ \A s : [batch EXCEPT !.pc = pc, !.target = s] =
                     Now(pc, s, batch.exams, batch.memo)
           /\ \A exams : [batch EXCEPT !.pc = pc, !.exams = exams] =
                     Now(pc, batch.target, exams, batch.memo)
           /\ \A memo : [batch EXCEPT !.memo = memo, !.pc = pc, !.exams = {}] =
                     Now(pc, batch.target, {}, memo)
<1>1. batch = [pc |-> batch.pc, items |-> batch.items, out |-> batch.out, memo |-> batch.memo,
               target |-> batch.target, exams |-> batch.exams, reader |-> batch.reader,
               token |-> batch.token]
  BY DEF Fields
<1> QED BY <1>1 DEF Now

\* Only a child that is related, or who asks, is shown.
LEMMA TargetsSeen ==
    ASSUME BatchInv, batch.pc = "item", NEW s \in Targets, s \in Student \cup {0}
    PROVE  MaySee(s)
<1>1. CASE batch.reader.kind = "STUDENT"
  BY <1>1 DEF Targets, MaySee, BatchInv, BatchOK
<1>2. CASE batch.reader.kind = "PARENT"
  <2>1. s \in Candidates
    BY <1>2 DEF Targets
  <2>2. PICK m \in batch.memo : m.key = ChildrenKey /\ s \in m.data
    BY <2>1 DEF Candidates, Remembered
  <2>3. s \in Student /\ <<batch.reader.who, s>> \in since.related
    BY <2>2 DEF BatchInv, MemoInv, MemoOK
  <2> QED BY <1>2, <2>3 DEF MaySee
<1>3. CASE batch.reader.kind \notin {"STUDENT", "PARENT"}
  BY <1>3 DEF MaySee
<1> QED BY <1>1, <1>2, <1>3

LEMMA StartReadStep ==
    ASSUME BatchInv, NEW s \in Student \cup {0}, StartRead(s)
    PROVE  BatchInv'
<1>1. batch' = Now("access", s, batch.exams, batch.memo)
  BY Steps DEF StartRead, BatchInv, BatchOK
<1>2. batch.pc = "item" /\ MaySee(s) /\ \A m \in batch.memo : m.key # KeyOf(Item, s)
  BY TargetsSeen DEF StartRead, Remembered
<1>3. UNCHANGED since /\ Fixed
  BY DEF StartRead
<1>4. SameRequest /\ SinceOK' /\ BatchOK' /\ batch'.memo = batch.memo /\ batch'.out = batch.out
  BY <1>1, <1>2, <1>3, GoesOn
<1> QED BY <1>4, NothingNew DEF BatchInv

\* Access is granted.
LEMMA AccessStep ==
    ASSUME BatchInv, batch.pc = "access", batch' = [batch EXCEPT !.pc = "exams"], UNCHANGED since, Fixed
    PROVE  BatchInv'
<1>1. batch' = Now("exams", batch.target, batch.exams, batch.memo)
  BY Steps DEF BatchInv, BatchOK
<1>2. MaySee(batch.target) /\ \A m \in batch.memo : m.key # KeyOf(Item, batch.target)
  BY DEF BatchInv, BatchOK, Reading, Remembered
<1>3. SameRequest /\ SinceOK' /\ BatchOK' /\ batch'.memo = batch.memo /\ batch'.out = batch.out
  BY <1>1, <1>2, GoesOn
<1> QED BY <1>3, NothingNew DEF BatchInv

LEMMA ReadExamsStep ==
    ASSUME BatchInv, ReadExams
    PROVE  BatchInv'
<1> DEFINE exams == Listed(batch.reader, batch.target, LimitOf(Item))
<1>1. batch' = Now("scores", batch.target, exams, batch.memo)
  BY Steps DEF ReadExams, BatchInv, BatchOK
<1>2. MaySee(batch.target) /\ \A m \in batch.memo : m.key # KeyOf(Item, batch.target)
  BY DEF ReadExams, BatchInv, BatchOK, Reading, Remembered
<1>3. exams \subseteq {e \in Exam : exam[e] = "PUBLISHED"}
  BY DEF Listed, Newest, ShownTo
<1>4. exams \subseteq since.published /\ exams \subseteq Exam
  BY <1>3 DEF ReadExams, BatchInv, SinceOK
<1>5. UNCHANGED since /\ Fixed /\ batch.pc = "exams"
  BY DEF ReadExams
<1> HIDE DEF exams
<1>6. SameRequest /\ SinceOK' /\ BatchOK' /\ batch'.memo = batch.memo /\ batch'.out = batch.out
  BY <1>1, <1>2, <1>4, <1>5, GoesOn
<1> QED BY <1>6, NothingNew DEF BatchInv

\* A result that was not remembered yet is remembered.
LEMMA RememberStep ==
    ASSUME BatchInv, batch.pc \in {"item", "access", "exams", "scores"}, NEW key, NEW ok, NEW data,
           Remember(key, ok, data), Remembered(key) = {}, UNCHANGED since, Fixed,
           MemoOK([key |-> key, ok |-> ok, data |-> data])
    PROVE  BatchInv'
<1> DEFINE m == [key |-> key, ok |-> ok, data |-> data]
           memo == batch.memo \cup {m}
<1>1. batch' = Now("item", batch.target, {}, memo)
  BY Steps DEF Remember, BatchInv, BatchOK
<1>2. m.key = key
  OBVIOUS
<1> HIDE DEF m
<1>3. SameRequest /\ SinceOK' /\ BatchOK' /\ batch'.memo = memo /\ batch'.out = batch.out
  <2> HIDE DEF memo
  <2> QED BY <1>1, GoesOn
<1>4. MemoOK(m)'
  BY <1>3, KeptMemo DEF m
<1>5. MemoInv' /\ OutInv'
  BY <1>2, <1>3, <1>4, OneRemembered
<1> QED BY <1>3, <1>5 DEF BatchInv

LEMMA ReadChildrenStep ==
    ASSUME BatchInv, ReadChildren
    PROVE  BatchInv'
<1>1. batch.pc = "item" /\ Remembered(ChildrenKey) = {} /\ UNCHANGED since /\ Fixed
  BY DEF ReadChildren, NeedsChildren
<1>2. related \subseteq since.related
  BY <1>1 DEF BatchInv, SinceOK
<1> DEFINE children == {s \in Student \ Inactive : <<batch.reader.who, s>> \in Related}
<1>3. \A s \in children : s \in Student /\ <<batch.reader.who, s>> \in since.related
  BY <1>2 DEF Related
<1>4. Remember(ChildrenKey, TRUE, children) \/ Remember(ChildrenKey, FALSE, {})
  BY DEF ReadChildren
<1> HIDE DEF children
<1>5. /\ MemoOK([key |-> ChildrenKey, ok |-> TRUE, data |-> children])
      /\ MemoOK([key |-> ChildrenKey, ok |-> FALSE, data |-> {}])
  BY <1>3, KeyFacts DEF MemoOK
<1> QED BY <1>1, <1>4, <1>5, RememberStep

\* What an item reads is not remembered under its key yet.
LEMMA KeyAtHand ==
    ASSUME BatchInv, Reading
    PROVE  /\ Remembered(KeyOf(Item, batch.target)) = {}
           /\ KeyOf(Item, batch.target) # ChildrenKey
           /\ KeyOf(Item, batch.target) \in (Student \cup {0}) \X {1, 12}
           /\ KeyOf(Item, batch.target)[1] = batch.target
<1>1. MaySee(batch.target) /\ Remembered(KeyOf(Item, batch.target)) = {}
  BY DEF BatchInv, BatchOK
<1>2. batch.target \in Student \cup {0}
  BY <1>1 DEF MaySee
<1> QED BY <1>1, <1>2, KeyFacts

LEMMA EmptyStep ==
    ASSUME BatchInv, Reading, NEW ok, Remember(KeyOf(Item, batch.target), ok, {}), UNCHANGED since, Fixed
    PROVE  BatchInv'
<1> DEFINE key == KeyOf(Item, batch.target)
<1>1. Remembered(key) = {} /\ key # ChildrenKey /\ key \in (Student \cup {0}) \X {1, 12}
  BY KeyAtHand
<1>2. Remember(key, ok, {}) /\ batch.pc \in {"item", "access", "exams", "scores"}
  BY DEF Reading
<1> HIDE DEF key
<1>3. MemoOK([key |-> key, ok |-> ok, data |-> {}])
  BY <1>1 DEF MemoOK
<1> QED BY <1>1, <1>2, <1>3, RememberStep

LEMMA CheckAccessStep ==
    ASSUME BatchInv, CheckAccess
    PROVE  BatchInv'
<1>1. Reading /\ batch.pc = "access" /\ UNCHANGED since /\ Fixed
  BY DEF CheckAccess, Reading
<1>2. \/ \E ok : Remember(KeyOf(Item, batch.target), ok, {})
      \/ batch' = [batch EXCEPT !.pc = "exams"]
  BY DEF CheckAccess
<1> QED BY <1>1, <1>2, EmptyStep, AccessStep

LEMMA FailReadStep ==
    ASSUME BatchInv, FailRead
    PROVE  BatchInv'
<1>1. Reading /\ Remember(KeyOf(Item, batch.target), FALSE, {}) /\ UNCHANGED since /\ Fixed
  BY DEF FailRead, Reading
<1> QED BY <1>1, EmptyStep

LEMMA AnswerStep ==
    ASSUME BatchInv, batch.pc = "item", NEW a, Answer(a), AnswerOK(a, Item)
    PROVE  BatchInv'
<1>1. Fields /\ Len(batch.out) < Len(batch.items) /\ Len(batch.out) \in Nat /\ IsSequence(batch.out)
  BY DEF BatchInv, BatchOK, IsSequence
<1>0. PICK n : n = Len(batch.out) + 1
  OBVIOUS
<1> DEFINE out == Append(batch.out, a)
           pc == Ends(1)
<1>2. /\ n \in Nat /\ n = Len(batch.out) + 1 /\ out = Append(batch.out, a)
      /\ IsSequence(out) /\ Len(out) = n /\ out[n] = a
  BY <1>0, <1>1, AppendAny
<1>3. pc = IF n = Len(batch.items) THEN "done" ELSE "item"
  BY <1>0 DEF Ends
<1>4. UNCHANGED since /\ Fixed /\ batch' = [batch EXCEPT !.out = out, !.pc = pc, !.target = 0]
  BY DEF Answer, After
<1> HIDE DEF out, pc
<1>5. batch' = [pc |-> pc, items |-> batch.items, out |-> out, memo |-> batch.memo,
                target |-> 0, exams |-> batch.exams, reader |-> batch.reader, token |-> batch.token]
  BY <1>1, <1>4 DEF Fields
<1>6. /\ batch'.pc = pc /\ batch'.items = batch.items /\ batch'.out = out /\ batch'.memo = batch.memo
      /\ batch'.reader = batch.reader /\ batch'.token = batch.token
  BY <1>5
<1>7. SameRequest /\ SinceOK'
  BY <1>3, <1>4, <1>6 DEF SameRequest, SinceOK, Fixed, BatchInv
<1>8. BatchOK'
  <2>1. Fields'
    BY <1>5, <1>6 DEF Fields
  <2>2. Len(batch.items) \in Nat /\ n <= Len(batch.items)
    BY <1>1, <1>2 DEF BatchInv, BatchOK
  <2>3. pc \notin {"idle", "person", "access", "exams", "scores"}
    BY <1>3
  <2>4. /\ pc \notin {"idle", "done"} => n < Len(batch.items)
        /\ pc = "done" => n = Len(batch.items)
    BY <1>2, <1>3, <2>2
  <2> QED BY <1>2, <1>3, <1>6, <2>1, <2>3, <2>4 DEF BatchInv, BatchOK, Reading
<1>9. OutOK(n)'
  <2>1. PICK item : item = Item
    OBVIOUS
  <2>2. AnswerOK(a, item)'
    BY <1>6, <1>7, <2>1, KeptAnswer
  <2>3. batch'.out[n] = a /\ batch'.items[n] = item
    BY <1>2, <1>6, <2>1 DEF Item
  <2> QED BY <2>2, <2>3 DEF OutOK
<1>10. MemoInv' /\ OutInv'
  BY <1>2, <1>6, <1>7, <1>9, OneAnswered
<1> QED BY <1>7, <1>8, <1>10 DEF BatchInv

LEMMA FailureOK ==
    ASSUME NEW code, NEW item,
           code \in {"WIDGET_NOT_AUTHORIZED", "INVALID_WIDGET_PARAMS", "ROLE_NOT_APPLICABLE",
                     "CHILD_NOT_AUTHORIZED", "WIDGET_DATA_UNAVAILABLE", "IDENTITY_NOT_SYNCED"},
           code = "WIDGET_NOT_AUTHORIZED" => ~Authorized(item),
           code = "WIDGET_DATA_UNAVAILABLE" =>
             \E m \in batch.memo : ~m.ok /\ (m.key = ChildrenKey \/ m.key[2] = LimitOf(item))
    PROVE  AnswerOK(Failure(code), item)
<1>1. Failure(code).data = {} /\ Failure(code).code = code
  BY DEF Failure
<1>2. code # "ok"
  OBVIOUS
<1> QED BY <1>1, <1>2 DEF AnswerOK

LEMMA RefuseStep ==
    ASSUME BatchInv, Refuse
    PROVE  BatchInv'
<1>1. PICK code : code = RefusalOf(Item)
  OBVIOUS
<1>2. /\ code \in {"WIDGET_NOT_AUTHORIZED", "INVALID_WIDGET_PARAMS", "ROLE_NOT_APPLICABLE"}
      /\ code = "WIDGET_NOT_AUTHORIZED" => ~Authorized(Item)
  BY <1>1 DEF Refuse, RefusalOf
<1>3. AnswerOK(Failure(code), Item)
  BY <1>2, FailureOK
<1>4. batch.pc = "item" /\ Answer(Failure(code))
  BY <1>1 DEF Refuse
<1> QED BY <1>3, <1>4, AnswerStep

LEMMA NoChildStep ==
    ASSUME BatchInv, NoChild
    PROVE  BatchInv'
<1>1. PICK m \in Remembered(ChildrenKey) :
         \/ Answer(Failure("CHILD_NOT_AUTHORIZED"))
         \/ ~m.ok /\ Answer(Failure("WIDGET_DATA_UNAVAILABLE"))
  BY DEF NoChild
<1>2. batch.pc = "item" /\ m \in batch.memo /\ m.key = ChildrenKey
  BY DEF NoChild, NeedsChildren, Remembered
<1>3. /\ AnswerOK(Failure("CHILD_NOT_AUTHORIZED"), Item)
      /\ ~m.ok => AnswerOK(Failure("WIDGET_DATA_UNAVAILABLE"), Item)
  BY <1>2, FailureOK
<1> QED BY <1>1, <1>2, <1>3, AnswerStep

\* The parts of the results that a widget shows are of the same exams.
LEMMA PayloadExams ==
    ASSUME NEW key, NEW results, NEW d \in Payload(key, results)
    PROVE  \E r \in results : d.exam = r.exam
BY DEF Payload, Latest

LEMMA UseRememberedStep ==
    ASSUME BatchInv, NEW s \in Student \cup {0}, UseRemembered(s)
    PROVE  BatchInv'
<1>1. batch.pc = "item" /\ s \in Targets /\ MaySee(s)
  BY TargetsSeen DEF UseRemembered
<1>2. PICK m \in Remembered(KeyOf(Item, s)) :
         Answer(IF m.ok
                THEN [code |-> "ok", student |-> s,
                      data |-> IF s = 0 THEN m.data ELSE Payload(Item.key, m.data)]
                ELSE Failure("WIDGET_DATA_UNAVAILABLE"))
  BY DEF UseRemembered
<1>3. m \in batch.memo /\ m.key = KeyOf(Item, s)
  BY DEF Remembered
<1>4. CASE ~m.ok
  <2>1. m.key[2] = LimitOf(Item)
    BY <1>3, KeyFacts
  <2>2. AnswerOK(Failure("WIDGET_DATA_UNAVAILABLE"), Item)
    BY <1>3, <1>4, <2>1, FailureOK
  <2> QED BY <1>1, <1>2, <1>4, <2>2, AnswerStep
<1>5. CASE m.ok
  <2> DEFINE data == IF s = 0 THEN m.data ELSE Payload(Item.key, m.data)
             a == [code |-> "ok", student |-> s, data |-> data]
  <2>1. a.code = "ok" /\ a.student = s /\ a.data = data
    OBVIOUS
  <2>2. \A d \in data : d.exam \in since.published
    <3>1. \A d \in m.data : d.exam \in since.published
      BY <1>3, KeyFacts DEF BatchInv, MemoInv, MemoOK
    <3> QED BY <3>1, PayloadExams
  <2>3. batch.reader.kind \in {"STUDENT", "PARENT"} => data = Payload(Item.key, m.data)
    BY <1>1, StudentFacts DEF MaySee
  <2>4. Answer(a)
    BY <1>2, <1>5
  <2> HIDE DEF data, a
  <2>5. AnswerOK(a, Item)
    BY <1>1, <1>3, <2>1, <2>2, <2>3 DEF AnswerOK
  <2> QED BY <1>1, <2>4, <2>5, AnswerStep
<1> QED BY <1>4, <1>5

\* The person of the token is found, or every item is answered with a failure.
LEMMA FindPersonStep ==
    ASSUME BatchInv, FindPerson
    PROVE  BatchInv'
<1>1. /\ Fields /\ batch.pc = "person" /\ batch.out = <<>> /\ batch.memo = {} /\ batch.items # <<>>
      /\ batch.items \in Seq(Widget) /\ UNCHANGED since /\ Fixed
  BY DEF FindPerson, BatchInv, BatchOK
<1>2. CASE batch' = [batch EXCEPT !.pc = "item"]
  <2>1. batch' = Now("item", batch.target, batch.exams, batch.memo)
    BY <1>1, <1>2, Steps
  <2>2. SameRequest /\ SinceOK' /\ BatchOK' /\ batch'.memo = batch.memo /\ batch'.out = batch.out
    BY <1>1, <2>1, GoesOn
  <2> QED BY <2>2, NothingNew DEF BatchInv
<1>3. CASE batch' = [batch EXCEPT !.pc = "done",
                                  !.out = [i \in DOMAIN batch.items |-> Failure("IDENTITY_NOT_SYNCED")]]
  <2> DEFINE n == Len(batch.items)
             none == Failure("IDENTITY_NOT_SYNCED")
             out == [i \in 1 .. n |-> none]
  <2>1. n \in Nat /\ DOMAIN batch.items = 1 .. n
    BY <1>1
  <2>2. batch' = [batch EXCEPT !.pc = "done", !.out = out]
    BY <1>3, <2>1
  <2>3. /\ Len(out) = n /\ IsSequence(out)
        /\ \A i \in 1 .. n : out[i] = none
    <3> HIDE DEF none
    <3>1. out \in Seq({none}) /\ Len(out) = n
      BY <2>1
    <3> QED BY <3>1, SequenceForm
  <2> HIDE DEF n, out, none
  <2>4. batch' = [pc |-> "done", items |-> batch.items, out |-> out, memo |-> batch.memo,
                  target |-> batch.target, exams |-> batch.exams, reader |-> batch.reader,
                  token |-> batch.token]
    BY <1>1, <2>2 DEF Fields
  <2>5. /\ batch'.pc = "done" /\ batch'.items = batch.items /\ batch'.out = out /\ batch'.memo = batch.memo
        /\ batch'.target = batch.target /\ batch'.exams = batch.exams
        /\ batch'.reader = batch.reader /\ batch'.token = batch.token
    BY <2>4
  <2>6. SinceOK'
    BY <1>1, <2>5 DEF SinceOK, Fixed, BatchInv
  <2>7. BatchOK'
    <3>1. Fields'
      BY <2>4, <2>5 DEF Fields
    <3>2. n = Len(batch.items)
      BY DEF n
    <3> QED BY <1>1, <2>3, <2>5, <3>1, <3>2 DEF BatchInv, BatchOK, Reading
  <2>8. MemoInv'
    BY <1>1, <2>5 DEF MemoInv
  <2>9. ASSUME NEW i \in 1 .. n PROVE OutOK(i)'
    <3>1. out[i].code = "IDENTITY_NOT_SYNCED" /\ out[i].data = {}
      BY <2>3 DEF none, Failure
    <3> QED BY <2>5, <3>1 DEF OutOK, AnswerOK
  <2>10. OutInv'
    BY <2>3, <2>5, <2>9 DEF OutInv
  <2> QED BY <2>6, <2>7, <2>8, <2>10 DEF BatchInv
<1> QED BY <1>2, <1>3 DEF FindPerson

LEMMA ReceiveStep ==
    ASSUME BatchInv, NEW q \in Requests, Receive(q)
    PROVE  BatchInv'
<1>1. /\ q.items \in Seq(Widget) /\ Len(q.items) >= 1
      /\ q.kind = "STUDENT" => q.who \in Student
  <2>1. q.items \in Seq(Widget) /\ (q.kind = "STUDENT" => q.who \in Student)
    BY ONLY BatchData, q \in Requests DEF Widget
  <2>2. Len(q.items) \in 1 .. 20
    BY DEF Receive, ValidBatch
  <2>3. \A n \in 1 .. 20 : n >= 1
    OBVIOUS
  <2> QED BY <2>1, <2>2, <2>3
<1> DEFINE reader == [kind |-> q.kind, who |-> q.who]
<1>2. reader.kind = q.kind /\ reader.who = q.who
  OBVIOUS
<1>3. batch' = [Idle EXCEPT !.pc = "person", !.items = q.items, !.token = q.token, !.reader = reader]
  BY DEF Receive
<1> HIDE DEF reader
<1>4. batch' = [pc |-> "person", items |-> q.items, out |-> <<>>, memo |-> {}, target |-> 0,
                exams |-> {}, reader |-> reader, token |-> q.token]
  BY <1>3, IdleFields
<1>5. /\ batch'.pc = "person" /\ batch'.items = q.items /\ batch'.out = <<>> /\ batch'.memo = {}
      /\ batch'.target = 0 /\ batch'.exams = {} /\ batch'.reader = reader /\ batch'.token = q.token
  BY <1>4
<1>6. BatchOK'
  <2>1. Fields'
    BY <1>4, <1>5 DEF Fields
  <2>2. q.items # <<>> /\ Len(<<>>) = 0 /\ IsSequence(<<>>) /\ Len(q.items) \in Nat
    BY <1>1 DEF IsSequence
  <2>3. Len(batch'.out) < Len(batch'.items)
    BY <1>1, <1>5, <2>2
  <2> QED BY <1>1, <1>2, <1>5, <2>1, <2>2, <2>3 DEF BatchOK, Reading
<1>7. SinceOK'
  BY <1>5 DEF Receive, Fixed, SinceOK, BatchInv
<1>8. 1 .. Len(batch'.out) = {}
  BY <1>5
<1>9. MemoInv' /\ OutInv'
  BY <1>5, <1>8 DEF MemoInv, OutInv
<1> QED BY <1>6, <1>7, <1>9 DEF BatchInv

\* The rest of the system moves while a request waits for its next statement.
LEMMA OthersStep ==
    ASSUME BatchInv, UNCHANGED batch, related' \subseteq Parent \X Student,
           Watch \/ UNCHANGED <<exam, related, since>>
    PROVE  BatchInv'
<1>1. SameRequest
  BY DEF SameRequest, Watch
<1>2. SinceOK'
  BY DEF SinceOK, Watch, BatchInv
<1>3. BatchOK'
  <2>1. (Reading => MaySee(batch.target) /\ Remembered(KeyOf(Item, batch.target)) = {})'
    BY <1>1 DEF BatchInv, BatchOK, SameRequest, Reading, MaySee, Remembered, Item
  <2>2. (batch.pc = "scores" => batch.exams \subseteq since.published /\ batch.exams \subseteq Exam)'
    BY <1>1 DEF BatchInv, BatchOK, SameRequest
  <2> QED BY <2>1, <2>2 DEF BatchInv, BatchOK, Fields
<1> QED BY <1>1, <1>2, <1>3, NothingNew DEF BatchInv

LEMMA OtherSteps ==
    ASSUME BatchInv, OtherStep \/ ChangeRelation \/ UNCHANGED vars
    PROVE  BatchInv'
<1>1. UNCHANGED batch /\ (Watch \/ UNCHANGED <<exam, related, since>>)
  BY DEF OtherStep, ChangeRelation, vars
<1>2. related' \subseteq Parent \X Student
  BY BatchData DEF OtherStep, ChangeRelation, vars, BatchInv, SinceOK
<1> QED BY <1>1, <1>2, OthersStep

LEMMA TeacherExams ==
    \A e, table, reader : \A r \in TeacherRows(e, table, reader) : r.exam = e
<1> SUFFICES ASSUME NEW e, NEW table, NEW reader, NEW r \in TeacherRows(e, table, reader)
             PROVE  r.exam = e
  OBVIOUS
<1>1. PICK c : r = [exam |-> e, student |-> c[2], subject |-> c[1], score |-> Shown(table[c]),
                    rank |-> RankIn(InSubject(table, c[1]), c[2])]
  BY Zenon DEF TeacherRows
<1> QED BY <1>1

\* What is read is of exams that were published when the request saw them.
LEMMA ReadScoresStep ==
    ASSUME BatchInv, SeedTypeOK, ReadScores
    PROVE  BatchInv'
<1> DEFINE key == KeyOf(Item, batch.target)
           exams(e) == StudentExams(e, score[e], batch.target)
           rows == UNION {TeacherRows(e, score[e], batch.reader) : e \in batch.exams}
<1>1. /\ Reading /\ batch.pc = "scores" /\ UNCHANGED since /\ Fixed
      /\ batch.pc \in {"item", "access", "exams", "scores"}
  BY DEF ReadScores, Reading
<1>2. /\ Remembered(key) = {} /\ key # ChildrenKey /\ key \in (Student \cup {0}) \X {1, 12}
      /\ key[1] = batch.target
  BY <1>1, KeyAtHand
<1>3. batch.exams \subseteq since.published /\ batch.exams \subseteq Exam
  BY <1>1 DEF BatchInv, BatchOK
<1>4. batch.target \in Student \cup {0}
  BY <1>1 DEF BatchInv, BatchOK, MaySee
<1>5. CASE batch.target = 0
  <2>1. Remember(key, TRUE, rows)
    BY <1>5 DEF ReadScores
  <2>2. \A d \in rows : d.exam \in since.published
    <3>1. \A e : \A r \in TeacherRows(e, score[e], batch.reader) : r.exam = e
      BY TeacherExams
    <3> QED BY <1>3, <3>1
  <2> HIDE DEF key, rows
  <2>3. MemoOK([key |-> key, ok |-> TRUE, data |-> rows])
    BY <1>2, <1>5, <2>2 DEF MemoOK
  <2> QED BY <1>1, <1>2, <2>1, <2>3, RememberStep
<1>6. CASE batch.target # 0
  <2>1. PICK data \in OneOfEach({exams(e) : e \in batch.exams}) : Remember(key, TRUE, data)
    BY <1>6 DEF ReadScores
  <2>2. ASSUME NEW e \in batch.exams, NEW d \in exams(e)
        PROVE  d.exam = e /\ SameToTheHundredth(d.total, RowsTotal(d.rows))
    <3>1. score[e] \in [Cell -> Value] /\ batch.target \in Student
      BY <1>3, <1>4, <1>6 DEF SeedTypeOK
    <3> QED BY <3>1, RowsAddUp
  <2> HIDE DEF key, exams
  <2>3. /\ \A d \in data : \E e \in batch.exams : d \in exams(e)
        /\ \A e \in batch.exams : \E x \in exams(e) : data \cap exams(e) = {x}
    BY <2>1 DEF OneOfEach
  <2>4. \A d \in data : d.exam \in since.published /\ SameToTheHundredth(d.total, RowsTotal(d.rows))
    BY <1>3, <2>2, <2>3
  <2>5. ASSUME NEW d \in data, NEW f \in data, d.exam = f.exam PROVE d = f
    <3>1. PICK e \in batch.exams : d \in exams(e)
      BY <2>3
    <3>2. f \in exams(e)
      BY <2>2, <2>3, <2>5, <3>1
    <3>3. PICK x : data \cap exams(e) = {x}
      BY <2>3
    <3> QED BY <3>1, <3>2, <3>3
  <2>6. MemoOK([key |-> key, ok |-> TRUE, data |-> data])
    BY <1>2, <2>4, <2>5 DEF MemoOK
  <2> QED BY <1>1, <1>2, <2>1, <2>6, RememberStep
<1> QED BY <1>5, <1>6
--------------------------------------------------------------------------------
LEMMA BatchStep == BatchInv /\ SeedTypeOK /\ [Next]_vars => BatchInv'
<1> SUFFICES ASSUME BatchInv, SeedTypeOK, [Next]_vars PROVE BatchInv'
  OBVIOUS
<1>1. ASSUME NEW q \in Requests, Receive(q) PROVE BatchInv'
  BY <1>1, ReceiveStep
<1>2. ASSUME NEW s \in Student \cup {0}, StartRead(s) \/ UseRemembered(s) PROVE BatchInv'
  BY <1>2, StartReadStep, UseRememberedStep
<1>3. CASE FindPerson \/ Refuse \/ ReadChildren \/ NoChild
  BY <1>3, FindPersonStep, RefuseStep, ReadChildrenStep, NoChildStep
<1>4. CASE CheckAccess \/ ReadExams \/ ReadScores \/ FailRead
  BY <1>4, CheckAccessStep, ReadExamsStep, ReadScoresStep, FailReadStep
<1>5. CASE OtherStep \/ ChangeRelation \/ UNCHANGED vars
  BY <1>5, OtherSteps
<1> QED BY <1>1, <1>2, <1>3, <1>4, <1>5 DEF Next

\* The types of the exams and scores, whoever reads them.
THEOREM ReadTypes == Spec => []SeedTypeOK
BY ReadsOnly, SeedTypeCorrect, PTL

\* The inductive invariant of the batch request.
THEOREM Invariance == Spec => []BatchInv
BY BatchInit, BatchStep, ReadTypes, PTL DEF Spec

\* Types of every variable; nothing is remembered twice, and a request is done
\* when every item has its answer.
THEOREM TypeCorrect == Spec => []TypeOK
<1>1. BatchInv /\ SeedTypeOK => TypeOK
  <2> SUFFICES ASSUME BatchInv, SeedTypeOK PROVE TypeOK
    OBVIOUS
  <2>0. batch.pc = "idle" => batch = Idle
    BY DEF BatchInv, BatchOK
  <2>1. Len(batch.out) \in Nat /\ Len(batch.items) \in Nat
    BY DEF BatchInv, BatchOK, IsSequence
  <2>2. Len(batch.out) <= Len(batch.items)
    <3>1. CASE batch.pc = "idle"
      <4>1. batch.out = <<>> /\ batch.items = <<>>
        BY <2>0, <3>1, IdleEmpty
      <4> QED BY <4>1
    <3>2. CASE batch.pc # "idle"
      BY <2>1, <3>2 DEF BatchInv, BatchOK
    <3> QED BY <3>1, <3>2
  <2>3. batch.pc = "done" <=> batch.items # <<>> /\ Len(batch.out) = Len(batch.items)
    <3>1. CASE batch.pc = "idle"
      <4>1. batch.items = <<>>
        BY <2>0, <3>1, IdleEmpty
      <4> QED BY <3>1, <4>1
    <3>2. CASE batch.pc # "idle"
      BY <2>1, <3>2 DEF BatchInv, BatchOK
    <3> QED BY <3>1, <3>2
  <2> QED BY <2>2, <2>3 DEF TypeOK, BatchInv, BatchOK, SinceOK, MemoInv
<1> QED BY <1>1, Invariance, ReadTypes, PTL

\* An answer shows nothing that was a draft all the time it was made.
THEOREM OnlyPublished == Spec => []ShownWasPublished
<1>1. BatchInv => ShownWasPublished
  <2> SUFFICES ASSUME BatchInv, NEW i \in DOMAIN batch.out PROVE OutOK(i)
    BY DEF ShownWasPublished, OutOK, AnswerOK
  <2>1. i \in 1 .. Len(batch.out)
    BY DEF BatchInv, BatchOK, IsSequence
  <2> QED BY <2>1 DEF BatchInv, OutInv
<1> QED BY <1>1, Invariance, PTL

\* A parent gets the results of nobody who was not related while the answer was made.
THEOREM OnlyRelated == Spec => []OnlyRelatedChildren
<1>1. BatchInv => OnlyRelatedChildren
  <2> SUFFICES ASSUME BatchInv, batch.reader.kind = "PARENT", NEW i \in DOMAIN batch.out,
                      batch.out[i].code = "ok"
               PROVE  <<batch.reader.who, batch.out[i].student>> \in since.related
    BY DEF OnlyRelatedChildren
  <2>1. i \in 1 .. Len(batch.out)
    BY DEF BatchInv, BatchOK, IsSequence
  <2>2. MaySee(batch.out[i].student)
    BY <2>1 DEF BatchInv, OutInv, OutOK, AnswerOK
  <2> QED BY <2>2 DEF MaySee
<1> QED BY <1>1, Invariance, PTL

\* An item that is refused or cannot be read is so for its own reasons.
THEOREM Isolated == Spec => []FailuresIsolated
<1>1. BatchInv => FailuresIsolated
  <2> SUFFICES ASSUME BatchInv, NEW i \in DOMAIN batch.out PROVE AnswerOK(batch.out[i], batch.items[i])
    BY DEF FailuresIsolated, AnswerOK
  <2>1. i \in 1 .. Len(batch.out)
    BY DEF BatchInv, BatchOK, IsSequence
  <2> QED BY <2>1 DEF BatchInv, OutInv, OutOK
<1> QED BY <1>1, Invariance, PTL

\* The summary and the table of a student come from the one result that is
\* remembered for both, whose totals are the sums of its rows to the hundredth.
THEOREM SummaryMatches == Spec => []SummaryMatchesTable
<1>1. BatchInv => SummaryMatchesTable
  <2> SUFFICES ASSUME BatchInv, batch.reader.kind \in {"STUDENT", "PARENT"},
                      NEW i \in DOMAIN batch.out, NEW j \in DOMAIN batch.out,
                      Answered(i, "exam-latest-summary"), Answered(j, "exam-score-table"),
                      batch.out[i].student = batch.out[j].student
               PROVE  /\ {d.exam : d \in batch.out[i].data} = {f.exam : f \in batch.out[j].data}
                      /\ \A d \in batch.out[i].data, f \in batch.out[j].data :
                           d.exam = f.exam => SameToTheHundredth(d.total, RowsTotal(f.rows))
    BY DEF SummaryMatchesTable
  <2> DEFINE s == batch.out[i].student
  <2>1. /\ AnswerOK(batch.out[i], batch.items[i]) /\ AnswerOK(batch.out[j], batch.items[j])
        /\ batch.out[i].code = "ok" /\ batch.items[i].key = "exam-latest-summary"
        /\ batch.out[j].code = "ok" /\ batch.items[j].key = "exam-score-table"
    <3>1. i \in 1 .. Len(batch.out) /\ j \in 1 .. Len(batch.out)
      BY DEF BatchInv, BatchOK, IsSequence
    <3> QED BY <3>1 DEF BatchInv, OutInv, OutOK, Answered
  <2>2. s \in Student
    BY <2>1 DEF AnswerOK, MaySee
  <2>3. KeyOf(batch.items[i], s) = <<s, 1>> /\ KeyOf(batch.items[j], s) = <<s, 1>>
    BY <2>1 DEF KeyOf, LimitOf
  <2>4. PICK m \in batch.memo :
           /\ m.key = <<s, 1>> /\ batch.out[i].data = Payload("exam-latest-summary", m.data)
    BY <2>1, <2>3 DEF AnswerOK
  <2>5. PICK n \in batch.memo :
           /\ n.key = <<s, 1>> /\ batch.out[j].data = Payload("exam-score-table", n.data)
    BY <2>1, <2>3 DEF AnswerOK
  <2>6. m = n
    BY <2>4, <2>5 DEF BatchInv, MemoInv
  <2>7. /\ \A r \in m.data : SameToTheHundredth(r.total, RowsTotal(r.rows))
        /\ \A r, q \in m.data : r.exam = q.exam => r = q
    <3>1. m.key[1] # 0
      BY <2>2, <2>4, StudentFacts
    <3> QED BY <3>1 DEF BatchInv, MemoInv, MemoOK
  <2>8. batch.out[i].data = {[exam |-> r.exam, total |-> r.total, scored |-> r.scored, rank |-> r.rank] :
                               r \in Latest(m.data)}
    BY <2>4 DEF Payload
  <2>9. batch.out[j].data = {[exam |-> r.exam, rows |-> r.rows] : r \in Latest(m.data)}
    BY <2>5, <2>6 DEF Payload
  <2> DEFINE summary(r) == [exam |-> r.exam, total |-> r.total, scored |-> r.scored, rank |-> r.rank]
             shown(r) == [exam |-> r.exam, rows |-> r.rows]
  <2>10. /\ \A r : summary(r).exam = r.exam /\ summary(r).total = r.total
         /\ \A r : shown(r).exam = r.exam /\ shown(r).rows = r.rows
    OBVIOUS
  <2>11. /\ batch.out[i].data = {summary(r) : r \in Latest(m.data)}
         /\ batch.out[j].data = {shown(r) : r \in Latest(m.data)}
    BY <2>8, <2>9
  <2> HIDE DEF summary, shown
  <2>12. ASSUME NEW d \in batch.out[i].data, NEW f \in batch.out[j].data, d.exam = f.exam
         PROVE  SameToTheHundredth(d.total, RowsTotal(f.rows))
    <3>1. PICK r \in Latest(m.data) : d = summary(r)
      BY <2>11
    <3>2. PICK q \in Latest(m.data) : f = shown(q)
      BY <2>11
    <3>3. r \in m.data /\ q \in m.data /\ r.exam = q.exam
      BY <2>10, <2>12, <3>1, <3>2 DEF Latest
    <3>4. r = q
      BY <2>7, <3>3
    <3> QED BY <2>7, <2>10, <3>1, <3>2, <3>3, <3>4
  <2>13. {d.exam : d \in batch.out[i].data} = {f.exam : f \in batch.out[j].data}
    BY <2>10, <2>11
  <2> QED BY <2>12, <2>13
<1> QED BY <1>1, Invariance, PTL

\* Whatever is read, and in whatever order it is added up: ranks count those with a
\* better score or sum, and more in the database is a better sum.
THEOREM RanksRight == Spec => []RanksCompete
<1>1. BatchInv /\ SeedTypeOK => RanksCompete
  <2> SUFFICES ASSUME BatchInv, SeedTypeOK, batch.pc = "scores", NEW e \in batch.exams
               PROVE  /\ \A b \in Subject : \A v \in InSubject(score[e], b) :
                           RankIn(InSubject(score[e], b), v[1]) =
                             1 + Cardinality({w \in InSubject(score[e], b) :
                                                score[e][<<b, w[1]>>] > score[e][<<b, v[1]>>]})
                      /\ \A totals \in Totals(score[e]) : RanksFollow(totals, score[e])
    BY DEF RanksCompete
  <2>1. score[e] \in [Cell -> Value]
    BY DEF BatchInv, BatchOK, SeedTypeOK
  <2>2. ASSUME NEW b \in Subject, NEW v \in InSubject(score[e], b)
        PROVE  RankIn(InSubject(score[e], b), v[1]) =
                 1 + Cardinality({w \in InSubject(score[e], b) :
                                    score[e][<<b, w[1]>>] > score[e][<<b, v[1]>>]})
    <3> DEFINE V == InSubject(score[e], b)
    <3>1. Values(V) /\ \A w \in V : w[2] > v[2] <=> score[e][<<b, w[1]>>] > score[e][<<b, v[1]>>]
      BY <2>1, SubjectValues
    <3>2. v \in V
      OBVIOUS
    <3> HIDE DEF V
    <3>3. {w \in V : w[2] > v[2]} = {w \in V : score[e][<<b, w[1]>>] > score[e][<<b, v[1]>>]}
      BY <3>1
    <3>4. RankIn(V, v[1]) = 1 + Cardinality({w \in V : w[2] > v[2]})
      BY <3>1, <3>2, RankCounts
    <3> QED BY <3>3, <3>4 DEF V
  <2>3. \A totals \in Totals(score[e]) : RanksFollow(totals, score[e])
    BY <2>1, RanksOfTotals
  <2> QED BY <2>2, <2>3
<1> QED BY <1>1, Invariance, ReadTypes, PTL
================================================================================
