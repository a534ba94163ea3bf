------------------------------ MODULE WidgetBatch ------------------------------
(***************************************************************************)
(* WidgetDataService.batch() and ResultsService (src/backend/src/widgets   *)
(* and results): one request asks for several widgets, whose data are read *)
(* from the exams and scores by separate statements while exams are        *)
(* published, withdrawn, graded and seeded (DemoSeed) and relations        *)
(* change.  What an item reads is remembered for the later items.          *)
(***************************************************************************)
EXTENDS DemoSeed, SequencesExt

CONSTANTS
    DateOf,    \* the order of the exams by date and id
    ClassOf,   \* the class of an exam
    Parent,    \* the parents
    Family,    \* the relations that are active at first
    Changing,  \* bound: the relations that others end and renew
    Inactive,  \* the students the directory has deactivated
    Teaches,   \* per teacher the classes and subjects of the active assignments
    Requests,  \* what may be asked: [kind, who, token, items]
    Number,    \* the doubles of JavaScript, in units that make all of them whole
    Scale,     \* the units of one point
    ToNumber,  \* toNumber(): the double of a score
    Plus,      \* the sum of two doubles, rounded to a double
    Top, Error \* bounds: up to Top units, a double is at most Error units away

ASSUME BatchData ==
    /\ Student \subseteq Nat \ {0} /\ IsFiniteSet(Student) /\ IsFiniteSet(Subject)
    /\ Family \subseteq Parent \X Student /\ Changing \subseteq Parent \X Student
    /\ \A q \in Requests :
         /\ q.kind \in {"STUDENT", "PARENT", "TEACHER", "STAFF"}
         /\ q.kind = "STUDENT" => q.who \in Student
         /\ q.items \in Seq([key : STRING, endpoint : STRING, preset : STRING, child : Nat])

Apart(x, y) == IF x < y THEN y - x ELSE x - y
\* A conversion and an addition give a number as near as any to the exact result.
ASSUME Doubles ==
    /\ Number \subseteq Nat /\ IsFiniteSet(Number) /\ 0 \in Number
    /\ ToNumber \in [0 .. MaxScore -> Number]
    /\ \A v \in 0 .. MaxScore, y \in Number :
         Apart(100 * ToNumber[v], v * Scale) <= Apart(100 * y, v * Scale)
    /\ Plus \in [Number \X Number -> Number]
    /\ \A x, y, z \in Number : Apart(Plus[<<x, y>>], x + y) <= Apart(z, x + y)
\* Numbers are fine enough for the scores: sums of one score per subject stay below
\* Top, and what is rounded away, on the way in and at each addition, below half a
\* hundredth.
Rounding == 100 * (2 * Error + 1)
ASSUME Precision ==
    /\ Scale \in Nat /\ Top \in Nat /\ Error \in Nat
    /\ \A n \in 0 .. Top : \E x \in Number : Apart(x, n) <= Error
    /\ Cardinality(Subject) * (MaxScore * Scale + Rounding) <= 100 * Top
    /\ 2 * Cardinality(Subject) * Rounding < Scale

WidgetKeys == {"exam-latest-summary", "exam-score-table", "exam-score-trend"}

VARIABLES
    related,  \* table parent_student_relations: the active pairs
    batch,    \* the request: nothing moves any more when its answer is complete
    since     \* what has been true at some time since it began (history)

vars == <<exam, drafted, score, known, seed, related, batch, since>>
Item == batch.items[Len(batch.out) + 1]
--------------------------------------------------------------------------------
\* competitionRanks(): equal values share a rank, the next one counts them all.
\* Rows are ordered by value, then by id.
Before(v, w) == v[2] > w[2] \/ (v[2] = w[2] /\ v[1] < w[1])
Sorted(values) ==
    CHOOSE rows \in [1 .. Cardinality(values) -> values] :
        \A i, j \in DOMAIN rows : i < j => Before(rows[i], rows[j])
BugDenseRanks(values) ==
    LET rows == Sorted(values)
        rank[i \in DOMAIN rows] ==
            IF i = 1 THEN 1 ELSE IF rows[i - 1][2] = rows[i][2] THEN rank[i - 1] ELSE rank[i - 1] + 1
    IN  {<<rows[i][1], rank[i]>> : i \in DOMAIN rows}
CompetitionRanks(values) ==
    LET rows == Sorted(values)
        rank[i \in DOMAIN rows] ==
            IF i > 1 /\ rows[i - 1][2] = rows[i][2] THEN rank[i - 1] ELSE i
    IN  {<<rows[i][1], rank[i]>> : i \in DOMAIN rows}

\* The rank of a student, 0 for null.
RankIn(values, s) ==
    LET mine == {r \in CompetitionRanks(values) : r[1] = s}
    IN  IF mine = {} THEN 0 ELSE (CHOOSE r \in mine : TRUE)[2]

Shown(v) == IF v \in {None, Null} THEN v ELSE ToNumber[v]

\* The scores of a student, and those with a value.
Column(table, s) == [b \in Subject |-> table[<<b, s>>]]
Numeric(column) == {b \in Subject : column[b] \notin {None, Null}}

\* What adding up the values one by one may give, each sum rounded to a number: the
\* rows are read in no particular order.
Sums(column) ==
    LET sum[S \in SUBSET Numeric(column)] ==
            IF S = {} THEN {0}
            ELSE UNION {{Plus[<<x, ToNumber[column[b]]>>] : x \in sum[S \ {b}]} : b \in S}
    IN  sum[Numeric(column)]
OneOfEach(sets) == {picked \in SUBSET UNION sets : \A S \in sets : \E x \in S : picked \cap S = {x}}
\* What the totals of the students with a score in an exam may be.
Totals(table) ==
    OneOfEach({{s} \X Sums(Column(table, s)) : s \in {t \in Student : Numeric(Column(table, t)) # {}}})
TotalIn(totals, s) ==
    LET mine == {v \in totals : v[1] = s}
    IN  IF mine = {} THEN 0 ELSE (CHOOSE v \in mine : TRUE)[2]
InSubject(table, b) ==
    {<<s, ToNumber[table[<<b, s>>]]>> : s \in {t \in Student : table[<<b, t>>] \notin {None, Null}}}

\* One exam of forStudent(), from the scores as they were read: what the additions
\* may make of it.
StudentExams(e, table, s) ==
    LET rows == [b \in Subject |-> [score |-> Shown(table[<<b, s>>]),
                                    rank |-> RankIn(InSubject(table, b), s)]]
    IN  {[exam |-> e, total |-> TotalIn(totals, s), scored |-> Cardinality(Numeric(Column(table, s))),
          rank |-> RankIn(totals, s), rows |-> rows] : totals \in Totals(table)}

\* The rows of forTeacher(): assigned subjects only, unless the reader is staff.
TeacherRows(e, table, reader) ==
    {[exam |-> e, student |-> c[2], subject |-> c[1], score |-> Shown(table[c]),
      rank |-> RankIn(InSubject(table, c[1]), c[2])] :
        c \in {d \in Cell : /\ table[d] # None
                            /\ reader.kind = "STAFF" \/ <<ClassOf[e], d[1]>> \in Teaches[reader.who]}}

\* forStudent() shows the newest exams, at least one and at most fifty.
Bounded(limit) == IF limit < 1 THEN 1 ELSE IF limit > 50 THEN 50 ELSE limit
Newest(exams, limit) ==
    {e \in exams : Cardinality({f \in exams : DateOf[f] > DateOf[e]}) < Bounded(limit)}
HasScore(e, s) == \E b \in Subject : score[e][<<b, s>>] # None
ShownTo(reader, s) ==
    IF reader.kind \in {"STUDENT", "PARENT"} THEN {e \in Exam : HasScore(e, s)}
    ELSE {e \in Exam : reader.kind = "STAFF" \/ \E b \in Subject : <<ClassOf[e], b>> \in Teaches[reader.who]}
BugListAnyStatus(reader, s, limit) ==
    Newest({e \in ShownTo(reader, s) : exam[e] # "none"}, limit)
Listed(reader, s, limit) == Newest({e \in ShownTo(reader, s) : exam[e] = "PUBLISHED"}, limit)

Latest(results) == {r \in results : \A q \in results : DateOf[q.exam] <= DateOf[r.exam]}
\* studentPayload(): the newest exam, or all of them.
Payload(key, results) ==
    IF key = "exam-score-trend" THEN {[exam |-> r.exam, total |-> r.total, rank |-> r.rank] : r \in results}
    ELSE IF key = "exam-latest-summary"
    THEN {[exam |-> r.exam, total |-> r.total, scored |-> r.scored, rank |-> r.rank] : r \in Latest(results)}
    ELSE {[exam |-> r.exam, rows |-> r.rows] : r \in Latest(results)}
--------------------------------------------------------------------------------
Idle == [pc |-> "idle", items |-> <<>>, out |-> <<>>, memo |-> {}, target |-> 0, exams |-> {},
         reader |-> [kind |-> "", who |-> 0], token |-> {}]

Init ==
    /\ SeedInit
    /\ related = Family
    /\ batch = Idle
    /\ since = [published |-> {}, related |-> {}]

Fixed == UNCHANGED <<exam, drafted, score, known, seed, related>>

\* validateBatch(): some items, not too many, each widget once.
ValidBatch(items) ==
    /\ Len(items) \in 1 .. 20
    /\ \A i, j \in DOMAIN items : items[i].key = items[j].key => i = j

\* verifyWidget(): what a token grants is there, and its pairs are made of it.
TokenAccepted(token) ==
    /\ token.widgets # {} /\ token.endpoints # {} /\ token.pairs # {}
    /\ \A pair \in token.pairs : pair[1] \in token.widgets /\ pair[2] \in token.endpoints

\* A request that is refused as a whole reads and writes nothing.
Receive(q) ==
    /\ batch.pc = "idle"
    /\ ValidBatch(q.items) /\ TokenAccepted(q.token)
    /\ batch' = [Idle EXCEPT !.pc = "person", !.items = q.items, !.token = q.token,
                             !.reader = [kind |-> q.kind, who |-> q.who]]
    /\ since' = [published |-> {e \in Exam : exam[e] = "PUBLISHED"}, related |-> related]
    /\ Fixed

Failure(code) == [code |-> code, student |-> 0, data |-> {}]

\* The token's identity must be exactly one active person of the directory.
FindPerson ==
    /\ batch.pc = "person"
    /\ \/ batch' = [batch EXCEPT !.pc = "item"]
       \/ batch' = [batch EXCEPT !.pc = "done",
                                 !.out = [i \in DOMAIN batch.items |-> Failure("IDENTITY_NOT_SYNCED")]]
    /\ UNCHANGED since /\ Fixed

\* assertAuthorized()
Authorized(item) ==
    /\ item.key \in WidgetKeys /\ item.endpoint = item.key
    /\ item.key \in batch.token.widgets
    /\ item.endpoint \in batch.token.endpoints
    /\ <<item.key, item.endpoint, item.preset>> \in batch.token.pairs

\* assertParams(): only a parent may name a student; 0 is no student.
ParamsFit(item) == item.child # 0 => batch.reader.kind = "PARENT"

RefusalOf(item) ==
    IF ~Authorized(item) THEN "WIDGET_NOT_AUTHORIZED"
    ELSE IF ~ParamsFit(item) THEN "INVALID_WIDGET_PARAMS"
    ELSE IF batch.reader.kind \in {"TEACHER", "STAFF"} /\ item.key # "exam-score-table"
    THEN "ROLE_NOT_APPLICABLE"
    ELSE ""

\* What a forStudent() or forTeacher() call is remembered by, and children().
LimitOf(item) == IF item.key = "exam-score-trend" THEN 12 ELSE 1
BugKeyPerWidget(item, s) == <<s, IF item.key = "exam-score-table" THEN 2 ELSE LimitOf(item)>>
KeyOf(item, s) == <<s, LimitOf(item)>>
ChildrenKey == <<0, 0>>
Remembered(key) == {m \in batch.memo : m.key = key}
Remember(key, ok, data) ==
    batch' = [batch EXCEPT !.memo = @ \cup {[key |-> key, ok |-> ok, data |-> data]},
                           !.pc = "item", !.exams = {}]

\* The answer to the item at hand; the request ends with its last item.
Ends(n) == IF Len(batch.out) + n = Len(batch.items) THEN "done" ELSE "item"
BugAfterGivesUp(answer) ==
    LET n == IF answer.code = "ok" THEN 1 ELSE Len(batch.items) - Len(batch.out)
    IN  [batch EXCEPT !.out = @ \o [i \in 1 .. n |-> answer], !.pc = Ends(n), !.target = 0]
After(answer) == [batch EXCEPT !.out = Append(@, answer), !.pc = Ends(1), !.target = 0]
Answer(answer) == batch' = After(answer) /\ UNCHANGED since /\ Fixed

Refuse ==
    /\ batch.pc = "item" /\ RefusalOf(Item) # ""
    /\ Answer(Failure(RefusalOf(Item)))

\* The relations that count for children() and assertAccess().
BugRelatedAny == Parent \X Student
Related == related

NeedsChildren == batch.pc = "item" /\ RefusalOf(Item) = "" /\ batch.reader.kind = "PARENT"

\* children() is asked once.  It leaves out students that are not active.
ReadChildren ==
    /\ NeedsChildren /\ Remembered(ChildrenKey) = {}
    /\ \/ Remember(ChildrenKey, TRUE,
                  {s \in Student \ Inactive : <<batch.reader.who, s>> \in Related})
       \/ Remember(ChildrenKey, FALSE, {})
    /\ UNCHANGED since /\ Fixed

\* The child an item names, or the first of them.
Candidates == {s \in UNION {m.data : m \in Remembered(ChildrenKey)} : Item.child \in {0, s}}

NoChild ==
    /\ NeedsChildren
    /\ \E m \in Remembered(ChildrenKey) :
         \/ m.ok /\ Candidates = {} /\ Answer(Failure("CHILD_NOT_AUTHORIZED"))
         \/ ~m.ok /\ Answer(Failure("WIDGET_DATA_UNAVAILABLE"))

\* The student whose results the item shows; 0 stands for the rows of a teacher.
Targets ==
    CASE batch.reader.kind = "STUDENT" -> {batch.reader.who}
      [] batch.reader.kind = "PARENT" -> {s \in Candidates : \A t \in Candidates : s <= t}
      [] OTHER -> {0}

StartRead(s) ==
    /\ batch.pc = "item" /\ RefusalOf(Item) = "" /\ s \in Targets
    /\ Remembered(KeyOf(Item, s)) = {}
    /\ batch' = [batch EXCEPT !.pc = "access", !.target = s]
    /\ UNCHANGED since /\ Fixed

\* assertAccess(), or the assignments of forTeacher().
CheckAccess ==
    /\ batch.pc = "access"
    /\ \/ /\ batch.reader.kind = "PARENT" /\ <<batch.reader.who, batch.target>> \notin Related
          /\ Remember(KeyOf(Item, batch.target), FALSE, {})
       \/ /\ batch.reader.kind = "TEACHER" /\ Teaches[batch.reader.who] = {}
          /\ Remember(KeyOf(Item, batch.target), TRUE, {})
       \/ /\ batch.reader.kind = "PARENT" => <<batch.reader.who, batch.target>> \in Related
          /\ batch.reader.kind = "TEACHER" => Teaches[batch.reader.who] # {}
          /\ batch' = [batch EXCEPT !.pc = "exams"]
    /\ UNCHANGED since /\ Fixed

\* The exams are one statement, their scores another one after it.
ReadExams ==
    /\ batch.pc = "exams"
    /\ batch' = [batch EXCEPT !.pc = "scores",
                              !.exams = Listed(batch.reader, batch.target, LimitOf(Item))]
    /\ UNCHANGED since /\ Fixed

ReadScores ==
    /\ batch.pc = "scores"
    /\ \/ /\ batch.target = 0
          /\ Remember(KeyOf(Item, 0), TRUE,
                      UNION {TeacherRows(e, score[e], batch.reader) : e \in batch.exams})
       \/ /\ batch.target # 0
          /\ \E results \in OneOfEach({StudentExams(e, score[e], batch.target) : e \in batch.exams}) :
               Remember(KeyOf(Item, batch.target), TRUE, results)
    /\ UNCHANGED since /\ Fixed

\* A statement fails: the rejected promise is remembered too.
FailRead ==
    /\ batch.pc \in {"access", "exams", "scores"}
    /\ Remember(KeyOf(Item, batch.target), FALSE, {})
    /\ UNCHANGED since /\ Fixed

UseRemembered(s) ==
    /\ batch.pc = "item" /\ RefusalOf(Item) = "" /\ s \in Targets
    /\ \E m \in Remembered(KeyOf(Item, s)) :
         Answer(IF m.ok
                THEN [code |-> "ok", student |-> s,
                      data |-> IF s = 0 THEN m.data ELSE Payload(Item.key, m.data)]
                ELSE Failure("WIDGET_DATA_UNAVAILABLE"))

\* The rest of the system moves; relations are kept up by others.
Watch ==
    since' = IF batch.pc = "idle" THEN since
             ELSE [published |-> since.published \cup {e \in Exam : exam'[e] = "PUBLISHED"},
                   related |-> since.related \cup related']

OtherStep == batch.pc # "done" /\ SeedNext /\ UNCHANGED <<related, batch>> /\ Watch

\* Nobody but a parent's request reads them, so they change only under one.
ChangeRelation ==
    /\ batch.reader.kind = "PARENT" /\ batch.pc # "done"
    /\ \E pair \in Changing :
         related' = IF pair \in related THEN related \ {pair} ELSE related \cup {pair}
    /\ UNCHANGED <<exam, drafted, score, known, seed, batch>>
    /\ Watch

Next ==
    \/ \E q \in Requests : Receive(q)
    \/ FindPerson \/ Refuse \/ ReadChildren \/ NoChild
    \/ \E s \in Student \cup {0} : StartRead(s) \/ UseRemembered(s)
    \/ CheckAccess \/ ReadExams \/ ReadScores \/ FailRead
    \/ OtherStep \/ ChangeRelation

Spec == Init /\ [][Next]_vars
--------------------------------------------------------------------------------
TypeOK ==
    /\ SeedTypeOK
    /\ related \subseteq Parent \X Student
    /\ batch.pc \in {"idle", "person", "item", "access", "exams", "scores", "done"}
    /\ Len(batch.out) <= Len(batch.items)
    /\ batch.pc = "done" <=> batch.items # <<>> /\ Len(batch.out) = Len(batch.items)
    /\ \A m, n \in batch.memo : m.key = n.key => m = n

Answered(i, key) == batch.out[i].code = "ok" /\ batch.items[i].key = key

RowsTotal(rows) ==
    SumFunction([b \in Subject |-> IF rows[b].score < 0 THEN 0 ELSE rows[b].score])
SameToTheHundredth(x, y) == 200 * Apart(x, y) < Scale

\* The summary and the score table of one answer speak of the same exam, and
\* the total of the one is the sum of the other's rows, to the hundredth,
\* although scores are saved while the answer is put together.
SummaryMatchesTable ==
    batch.reader.kind \in {"STUDENT", "PARENT"} =>
    \A i, j \in DOMAIN batch.out :
        /\ Answered(i, "exam-latest-summary") /\ Answered(j, "exam-score-table")
        /\ batch.out[i].student = batch.out[j].student
        => /\ {d.exam : d \in batch.out[i].data} = {f.exam : f \in batch.out[j].data}
           /\ \A d \in batch.out[i].data, f \in batch.out[j].data :
                d.exam = f.exam => SameToTheHundredth(d.total, RowsTotal(f.rows))

\* Every exam in an answer was published at some time while it was made.
ShownWasPublished ==
    \A i \in DOMAIN batch.out : \A d \in batch.out[i].data : d.exam \in since.published

\* A parent sees the results of a student only if the relation was active at
\* some time while the answer was made.
OnlyRelatedChildren ==
    batch.reader.kind = "PARENT" => \A i \in DOMAIN batch.out :
        batch.out[i].code = "ok" => <<batch.reader.who, batch.out[i].student>> \in since.related

\* An item fails for its own reasons: the refusal of one does not refuse the
\* others, and data are unavailable only where their own reading failed.
FailuresIsolated ==
    \A i \in DOMAIN batch.out :
        /\ batch.out[i].code = "WIDGET_NOT_AUTHORIZED" => ~Authorized(batch.items[i])
        /\ batch.out[i].code = "WIDGET_DATA_UNAVAILABLE" =>
             \E m \in batch.memo : /\ ~m.ok
                                   /\ m.key = ChildrenKey \/ m.key[2] = LimitOf(batch.items[i])

\* The total of a student's scores as the database has them.
DecimalTotal(column) == SumFunctionOnSet(column, Numeric(column))

\* A rank is one more than the number of better sums, and a student with more in the
\* database has a better one.
RanksFollow(totals, table) ==
    LET rank == [v \in totals |-> RankIn(totals, v[1])]
    IN  \A v \in totals :
          /\ rank[v] = 1 + Cardinality({w \in totals : w[2] > v[2]})
          /\ \A w \in totals :
               DecimalTotal(Column(table, w[1])) > DecimalTotal(Column(table, v[1])) => rank[w] < rank[v]

\* The ranks an answer is about to show are competition ranks, one more than the
\* number of those who are better.  In a subject the scores in the database decide
\* who is better; of the totals it is the rounded sums, but whoever has more in the
\* database has the better rank.  That equal totals share a rank (the design of
\* 2026-09-23, line 124) is not so.
RanksCompete ==
    batch.pc = "scores" => \A e \in batch.exams :
        /\ \A b \in Subject : \A v \in InSubject(score[e], b) :
             RankIn(InSubject(score[e], b), v[1]) =
               1 + Cardinality({w \in InSubject(score[e], b) : score[e][<<b, w[1]>>] > score[e][<<b, v[1]>>]})
        /\ \A totals \in Totals(score[e]) : RanksFollow(totals, score[e])
================================================================================
