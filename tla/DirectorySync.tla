----------------------------- MODULE DirectorySync -----------------------------
(***************************************************************************)
(* DirectorySyncService.sync() (src/backend/src/directory-sync): a staff   *)
(* request reads the master data of its school from EduPlus, one page and  *)
(* one entity type after the other, and then writes it in three separate   *)
(* transactions: people, classes, courses.  Requests may overlap, EduPlus  *)
(* changes its records meanwhile, and every call may fail.  A record of    *)
(* EduPlus is known by its version; Says is what each version says.  The   *)
(* access token is a step that succeeds or fails here; AppSession models   *)
(* it.                                                                     *)
(***************************************************************************)
EXTENDS Naturals, Sequences

CONSTANTS
    Run,          \* sync requests, each used once
    Record,       \* master data records of the school
    KindOf,       \* the entity type of a record
    PageOf,       \* the page of its type a record is listed on
    Visible,      \* what the person behind a request may read
    EntityTypes,  \* the types in the order they are read
    Initial,      \* the versions of the records of EduPlus at first
    Says          \* what each version of a record says: [deleted, status]

PeopleTypes == {"teacher", "student", "parent"}
\* Only counted: the writers of the relations are never called.
SkippedTypes == {"teacher_teaching_assignment", "student_class_relation",
                 "parent_student_relation"}
Kinds == PeopleTypes \cup {"class", "course"} \cup SkippedTypes

ASSUME SyncData ==
    /\ EntityTypes \in Seq(Kinds)
    /\ KindOf \in [Record -> {EntityTypes[i] : i \in DOMAIN EntityTypes}]
    /\ PageOf \in [Record -> Nat \ {0}]
    /\ Visible \in [Run -> SUBSET Record]
    /\ Says \in [Record -> Seq([deleted : BOOLEAN, status : STRING])]
    /\ Initial \in [Record -> Nat] /\ \A rec \in Record : Initial[rec] <= Len(Says[rec])

VARIABLES
    upstream,  \* the version of each record in EduPlus, 0 before it is created
    local,     \* tables people, classrooms, courses: version 0 is no row
    runs,      \* table directory_sync_runs: the status of a request's run
    proc,      \* the requests: where they are, what they have read
    begun,     \* the versions of EduPlus when a run began (history)
    overlapped \* the runs that were in flight together with another (history)

vars == <<upstream, local, runs, proc, begun, overlapped>>

Imported(rec) == KindOf[rec] \notin SkippedTypes
Writing == {"people", "classes", "courses"}
InFlight(r) == proc[r].pc \notin {"idle", "done", "dead"}

IsActive(rec, version) ==
    /\ ~Says[rec][version].deleted
    /\ Says[rec][version].status \notin {"inactive", "disabled", "revoked", "deleted"}
--------------------------------------------------------------------------------
\* A request that has read nothing, or that has dropped what it had read.
Fresh(pc) == [pc |-> pc, type |-> 1, page |-> 1, cursors |-> {}, got |-> [rec \in Record |-> 0]]

Init ==
    /\ upstream = Initial
    /\ local = [rec \in Record |-> [version |-> 0, active |-> FALSE]]
    /\ runs = [r \in Run |-> "none"]
    /\ proc = [r \in Run |-> Fresh("idle")]
    /\ begun = [r \in Run |-> [rec \in Record |-> 0]]
    /\ overlapped = {}

Goto(r, pc) == proc' = [proc EXCEPT ![r].pc = pc]
Drop(r, pc) == proc' = [proc EXCEPT ![r] = Fresh(pc)]

BugStartWithoutRow(r) ==
    /\ proc[r].pc = "idle"
    /\ Goto(r, "token")
    /\ begun' = [begun EXCEPT ![r] = upstream]
    /\ UNCHANGED <<upstream, local, runs, overlapped>>
\* The run's row is created before the access token is asked for.
Start(r) ==
    /\ proc[r].pc = "idle"
    /\ Goto(r, "token")
    /\ runs' = [runs EXCEPT ![r] = "RUNNING"]
    /\ begun' = [begun EXCEPT ![r] = upstream]
    /\ overlapped' = IF \E q \in Run : InFlight(q)
                     THEN overlapped \cup {r} \cup {q \in Run : InFlight(q)}
                     ELSE overlapped
    /\ UNCHANGED <<upstream, local>>

GetToken(r) ==
    /\ proc[r].pc = "token"
    /\ Goto(r, "fetch")
    /\ UNCHANGED <<upstream, local, runs, begun, overlapped>>

OnPage(r) == {rec \in Visible[r] : /\ KindOf[rec] = EntityTypes[proc[r].type]
                                   /\ PageOf[rec] = proc[r].page
                                   /\ upstream[rec] > 0}
MorePages(r) == \E rec \in Visible[r] : /\ KindOf[rec] = EntityTypes[proc[r].type]
                                        /\ PageOf[rec] > proc[r].page

\* The cursor of a page EduPlus may answer with: the next page, none after the
\* last one, or, by mistake, one it has given before.
NextCursors(r) == (IF MorePages(r) THEN {proc[r].page + 1} ELSE {0}) \cup proc[r].cursors

\* collectPages() refuses a cursor it has followed before.
BugFollowAgain(r, next) == next # 0
Follow(r, next) == next # 0 /\ next \notin proc[r].cursors

\* The last page of the last type has been read.
LastType(r) == proc[r].type >= Len(EntityTypes)

PageItems(r) == [rec \in Record |-> IF rec \in OnPage(r) THEN upstream[rec] ELSE proc[r].got[rec]]

GetPage(r) ==
    /\ proc[r].pc = "fetch"
    /\ \E next \in NextCursors(r) :
         \/ /\ Follow(r, next)
            /\ proc' = [proc EXCEPT ![r].got = PageItems(r), ![r].page = next,
                                    ![r].cursors = @ \cup {next}]
         \/ /\ next = 0
            /\ proc' = [proc EXCEPT ![r].got = PageItems(r), ![r].page = 1, ![r].cursors = {},
                                    ![r].type = @ + 1,
                                    ![r].pc = IF LastType(r) THEN "people" ELSE "fetch"]
         \/ /\ next # 0 /\ ~Follow(r, next)
            /\ Drop(r, "failed")
    /\ UNCHANGED <<upstream, local, runs, begun, overlapped>>

\* A page of has_more without a cursor, a refused or unanswered call, a
\* transaction that the database rolls back.
Fail(r) ==
    /\ proc[r].pc \in {"token", "fetch", "finish"} \cup Writing
    /\ Drop(r, "failed")
    /\ UNCHANGED <<upstream, local, runs, begun, overlapped>>

Read(r, rec) == [version |-> proc[r].got[rec], active |-> IsActive(rec, proc[r].got[rec])]
Listed(r, kinds) == {rec \in Record : KindOf[rec] \in kinds /\ proc[r].got[rec] > 0}

BugUpsertCreatesOnly(r, kinds) ==
    [rec \in Record |-> IF rec \in Listed(r, kinds) /\ local[rec].version = 0
                        THEN Read(r, rec) ELSE local[rec]]
BugUpsertDropsUnseen(r, kinds) ==
    [rec \in Record |-> IF rec \in Listed(r, kinds) THEN Read(r, rec)
                        ELSE [local[rec] EXCEPT !.active = @ /\ KindOf[rec] \notin kinds]]
BugReplacesTable(r, kinds) ==
    [rec \in Record |-> IF rec \in Listed(r, kinds) THEN Read(r, rec)
                        ELSE IF KindOf[rec] \in kinds THEN [version |-> 0, active |-> FALSE]
                        ELSE local[rec]]
\* The upsert of the records a run has read; the rest of the table stays.
Upserted(r, kinds) ==
    [rec \in Record |-> IF rec \in Listed(r, kinds) THEN Read(r, rec) ELSE local[rec]]

Write(r, pc, kinds, next) ==
    /\ proc[r].pc = pc
    /\ local' = Upserted(r, kinds)
    /\ Goto(r, next)
    /\ UNCHANGED <<upstream, runs, begun, overlapped>>

SyncPeople(r) == Write(r, "people", PeopleTypes, "classes")
SyncClasses(r) == Write(r, "classes", {"class"}, "courses")
SyncCourses(r) == Write(r, "courses", {"course"}, "finish")

\* The run's row becomes PARTIAL; the answer of that update may be lost.
Finish(r) ==
    /\ proc[r].pc = "finish"
    /\ runs' = [runs EXCEPT ![r] = "PARTIAL"]
    /\ \E pc \in {"done", "failed"} : Drop(r, pc)
    /\ UNCHANGED <<upstream, local, begun, overlapped>>

\* The catch block; the update that records the failure may itself fail.
RecordFailure(r) ==
    /\ proc[r].pc = "failed"
    /\ Drop(r, "done")
    /\ runs' \in {runs, [runs EXCEPT ![r] = "FAILED"]}
    /\ UNCHANGED <<upstream, local, begun, overlapped>>

Step(r) ==
    \/ GetToken(r) \/ GetPage(r) \/ Fail(r)
    \/ SyncPeople(r) \/ SyncClasses(r) \/ SyncCourses(r)
    \/ Finish(r) \/ RecordFailure(r)

\* A record of EduPlus is created or changed.
Change(rec) ==
    /\ upstream[rec] < Len(Says[rec])
    /\ upstream' = [upstream EXCEPT ![rec] = @ + 1]
    /\ UNCHANGED <<local, runs, proc, begun, overlapped>>

\* The backend restarts: its requests are gone, their rows stay RUNNING.
Crash ==
    /\ \E r \in Run : InFlight(r)
    /\ proc' = [r \in Run |-> IF InFlight(r) THEN Fresh("dead") ELSE proc[r]]
    /\ UNCHANGED <<upstream, local, runs, begun, overlapped>>

Next ==
    \/ \E r \in Run : Start(r) \/ Step(r)
    \/ \E rec \in Record : Change(rec)
    \/ Crash

\* The server carries on with a request it has begun: every call it waits for
\* has a time limit.
Spec == Init /\ [][Next]_vars /\ \A r \in Run : WF_vars(Step(r))
--------------------------------------------------------------------------------
TypeOK ==
    /\ upstream \in [Record -> Nat] /\ \A rec \in Record : upstream[rec] <= Len(Says[rec])
    /\ local \in [Record -> [version : Nat, active : BOOLEAN]]
    /\ runs \in [Run -> {"none", "RUNNING", "PARTIAL", "FAILED"}]
    /\ proc \in [Run -> [pc : {"idle", "token", "fetch", "finish", "failed", "done", "dead"}
                                \cup Writing,
                         type : Nat, page : Nat, cursors : SUBSET Nat, got : [Record -> Nat]]]
    /\ begun \in [Run -> [Record -> Nat]]
    /\ overlapped \subseteq Run
    /\ \A r \in Run : runs[r] = "none" <=> proc[r].pc = "idle"

\* A row is what EduPlus said of the record at some time: its version exists
\* and the row is active as that content says.  In particular records a run did
\* not see are never deactivated (sync() merges and deletes nothing).
MirrorsUpstream ==
    \A rec \in Record :
        IF local[rec].version = 0
        THEN ~local[rec].active
        ELSE /\ local[rec].version <= upstream[rec]
             /\ local[rec].active = IsActive(rec, local[rec].version)

\* A run that ended PARTIAL and that no other run overlapped has brought every
\* record its caller may see at least to where EduPlus was when it began, and
\* later runs keep it so.  People, classes and courses are written from pages
\* read earlier, in separate transactions.
FreshWhenAlone ==
    \A r \in Run \ overlapped : runs[r] = "PARTIAL" =>
        \A rec \in Visible[r] :
            Imported(rec) => local[rec].version >= begun[r][rec]

\* Only a run that overlapped another one can set a row back to an older state
\* (there is no version check between reading a page and writing it).
BackOnlyUnderOverlap ==
    [][\A rec \in Record : local'[rec].version < local[rec].version =>
        \E r \in overlapped : proc[r].pc \in Writing /\ proc'[r].pc # proc[r].pc]_vars

\* Every run comes to an end although EduPlus may hand out old cursors: the
\* paging loop cannot go round.
RunsEnd == \A r \in Run : InFlight(r) ~> ~InFlight(r)
================================================================================
