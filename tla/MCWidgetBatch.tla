----------------------------- MODULE MCWidgetBatch -----------------------------
(* Two demonstration exams and an ordinary one; a student, the parent of     *)
(* the students (one of them deactivated) and two teachers ask for widgets.  *)
EXTENDS WidgetBatch

CONSTANTS r1, r2, d1, d2, e1

MCStudent == {1, 2, 3}
MCSubject == {"art", "math", "sport"}
MCExam == {d1, d2, e1}
MCDemoExams == <<d1, d2>>
\* Two students have the same total in the first exam, by different scores.
MCDemoValue == d1 :> [c \in Cell |-> IF c[2] = 2 \/ c = <<"sport", 1>> THEN 2
                                     ELSE IF c[2] = 3 \/ c[1] = "art" THEN 1 ELSE 3]
               @@ d2 :> [c \in Cell |-> IF c[2] = 1 THEN 3 ELSE 2]
MCUserIdOf == 1 :> "901" @@ 2 :> "902" @@ 3 :> "none"
\* Equal scores with a lower one and an absence, and a correction.
MCFirstGrid == [c \in Cell |-> IF c = <<"math", 2>> THEN Null ELSE IF c[2] = 3 THEN 1 ELSE 3]
MCGrids == {[c \in Cell |-> IF c[2] = 1 THEN 2 ELSE 3]}
MCMaxScore == 3
\* Far coarser numbers than the doubles: every whole number below 64, then every
\* second one.  1 + 2 + 3 gives 120 or 122, by the order, and 2 + 2 + 2 gives 124.
MCNumber == (0 .. 63) \cup {2 * n : n \in 32 .. 100}
MCScale == 2048
MCTop == 200
MCError == 1
MCToNumber == 0 :> 0 @@ 1 :> 20 @@ 2 :> 41 @@ 3 :> 61
\* To the nearest number, of two to the even multiple of two.
Even(n) == IF n % 2 = 0 THEN n ELSE IF n % 4 = 1 THEN n - 1 ELSE n + 1
MCPlus == [p \in MCNumber \X MCNumber |->
             IF p[1] + p[2] < 64 THEN p[1] + p[2]
             ELSE IF p[1] + p[2] > MCTop THEN MCTop ELSE Even(p[1] + p[2])]
MCKnown == {1, 3}
MCRun == {r1, r2}
Runs == Permutations(MCRun)
MCDateOf == d1 :> 1 @@ e1 :> 2 @@ d2 :> 3
MCClassOf == d1 :> "demo" @@ d2 :> "demo" @@ e1 :> "k1"
MCParent == {9}
MCFamily == {9} \X {1, 3}
MCInactive == {1}
MCChanging == {<<9, 2>>}
MCTeaches == 7 :> {} @@ 8 :> {<<"k1", "math">>}

Wants(key, child) == [key |-> key, endpoint |-> key, preset |-> "", child |-> child]
Token(keys) == [widgets |-> keys, endpoints |-> keys, pairs |-> {<<k, k, "">> : k \in keys}]
Dangling == [Token({"exam-score-table"}) EXCEPT !.endpoints = {"exam-score-trend"}]
MCRequests ==
    {[kind |-> "STAFF", who |-> 7, token |-> Dangling, items |-> <<Wants("exam-score-table", 0)>>],
     [kind |-> "STUDENT", who |-> 1, token |-> Token(WidgetKeys),
      items |-> <<Wants("exam-latest-summary", 0), Wants("exam-score-table", 0)>>],
     [kind |-> "STUDENT", who |-> 1, token |-> Token(WidgetKeys),
      items |-> <<Wants("exam-score-trend", 0)>>],
     [kind |-> "PARENT", who |-> 9, token |-> Token(WidgetKeys),
      items |-> <<Wants("exam-latest-summary", 1), Wants("exam-score-table", 0)>>],
     [kind |-> "TEACHER", who |-> 7, token |-> Token(WidgetKeys),
      items |-> <<Wants("exam-score-table", 0)>>],
     [kind |-> "TEACHER", who |-> 8, token |-> Token(WidgetKeys \ {"exam-score-trend"}),
      items |-> <<Wants("exam-score-trend", 0), Wants("exam-latest-summary", 0),
                  Wants("exam-score-table", 0)>>]}
=============================================================================
