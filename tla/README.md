# A verification project for the EduPlus examination app

TLA+ models of the parts of this repository where requests, database
transactions, retries and failures interleave, the TLC configurations that
check them on small instances, and machine-checked proofs for the core.
Everything is translated from the code under `src/`; definitions keep its names
where TLA+ allows it, and `PROJECT.json` maps each one to the lines it models.

## 1. The system

A NestJS backend (`src/backend`) over PostgreSQL (Prisma, READ COMMITTED), a
React frontend (`src/frontend`), and EduPlus, an external platform that is the
identity provider, sends subscription webhooks, serves the school directory and
embeds widgets. One backend process runs (`src/deploy/k8s`); its handlers
interleave at every `await`. The components, by what they keep and what can go
wrong:

| Component | State | Operations | Hard behaviour | What makes it correct |
|---|---|---|---|---|
| Exam lifecycle (`exams/exams.service.ts`) | `exams`, `exam_subjects` | create, update, publish, withdraw, detail | each change reads the status in one statement and writes by id in another | only drafts are edited, published exams have subjects, withdrawn ones stay hidden |
| Score entry, CSV import (`exams/score-entry.service.ts`, `csv-import.service.ts`) | `scores`, `score_imports` | save a grid, import a file | validation, then a transaction of row upserts; row locks, deadlocks, rollback; a failure path that writes; restarts | stored scores are valid, batches are whole, an import ends APPLIED or FAILED and means it |
| Widget handoff exchange (`widgets/widget-auth.service.ts`) | `widget_auth_exchanges` | authorize | idempotency row with a 60 s lease; lookup, purge, claim, network call, storing transaction, cleanup | a one-time code is exchanged once and its answer is replayed to its own request only |
| Widget refresh session (`widgets/widget-refresh-session.service.ts`) | `widget_refresh_sessions` | create, load, rotate, revoke | the provider rotates tokens; compare-and-swap after a network call | losers never overwrite, revoked stays revoked, the valid refresh token is not lost |
| Subscriptions (`subscriptions/`) | `tenants`, `tenant_credentials`, `webhook_receipts` | receive | duplicate and concurrent deliveries, unique violations as control flow | an event has its effect once, whole, with its receipt |
| Login, sessions (`auth/auth.service.ts`) | `app_sessions`, `people` | login, handoff, find, revoke, refresh for sync | tokens written by id, no compare-and-swap; people created at login and by sync | the refresh token survives, revoked stays so, a session is bound to the person the directory says |
| Directory sync (`directory-sync/`) | `people`, `classrooms`, `courses`, `directory_sync_runs` | sync | cursor paging, three transactions, overlapping runs, restart while RUNNING | newest data wins, runs end, no partial run looks complete |
| Results, ranking (`results/`) | none (reads) | own, child's and teacher's results | list, check and scores are separate reads | only published exams, only by entitled readers, competition ranks |
| Widget data (`widgets/widget-data.service.ts`) | none (reads) | batch | per-item authorization and failure, shared pending reads | one item's failure never shows in, or hides, another's |
| Demo seeding (`demo-exams/`) | the exam tables | apply | one long transaction against concurrent editors and repeated runs | idempotent; never changes others' exams |
| Request guards (`security/`) | rate buckets | check | fixed window in memory | at most the limit per window |
| Frontend pages (`src/frontend`) | component state, cookies, the URL | load, launch, log in, log out | two tabs, one cookie jar; answers in any order; reloads | a one-time code leaves the page once, session and CSRF cookies belong together |
| AI Center proxy and page, EduPlus clients, token verifier, crypto, config, health, deployment | none | — | pure or stateless | not state machines |

How they interact: subscriptions create the tenants and client secrets that
every login, token exchange and refresh reads; login and sync write the people
whom exams, results and widgets refer to; score entry writes what results
and widgets read; the widget exchange creates the sessions that the
refresh service rotates, in the transaction that stores its answer.

## 2. Plan

Order: the component whose data the whole program exists for first, then those
where a race costs a user the session or a school its tenant.

1. **ExamScores** (done): lifecycle and score entry in one module, for they
   write the same rows; abstract specification **Gradebook**; proofs
   **ExamScoresProofs** (types, four safety properties, the refinement).
2. **WidgetExchange**, **WidgetRefresh** (done): one module each. The exchange
   creates the session whose whole life the other module describes. Proofs in
   **WidgetExchangeProofs** and **WidgetRefreshProofs**.
3. **Subscriptions** with abstract **SubscriptionLog** (done). Proofs, the refinement
   among them, in **SubscriptionsProofs**.
4. **AppSession** (done): login by handoff or code, the session row, logout, and
   the refresh for directory sync that, unlike `rotate()`, writes by id after a
   network call. Proofs in **AppSessionProofs**.
5. **DirectorySync** (done): overlapping runs against an upstream that changes.
   Proofs in **DirectorySyncProofs**.
6. **DemoSeed** (done) against the exam editors; and **WidgetBatch** (done), which
   extends it: `batch()`, the results service and the ranks, composed with the writers
   of the tables they read. Proofs of both in **WidgetBatchProofs**.
7. **Portal** (done): the browser's tabs and cookies, the auth routes, the CSRF guard
   and the rate limiter. Proofs in **PortalProofs**.
8. Left. In ExamScores the lost acknowledgement of a commit (section 7), with a Gradebook whose
   answers may say less than what was stored. Abstract specifications of the widget exchange (one step per answer) and of
   the refresh session, with their refinements. Models: the frontend's score grid, child
   results and sync pages. The liveness properties stay with TLC.

## 3. The modules

In all of them a request is a process with a `pc`, the statement at which it
resumes. An action is the code between two awaits. A request's first action takes
its input from the constants; a request that is refused before it has written
anything changes no state and is a stuttering step. `Crash` loses every request in
progress and keeps the tables. Variables and fields commented "history" are not in
the program. A definition `Bug...` is a plausible mistake in the definition after
it; no specification uses it, and it serves to see that each property notices.

### ExamScores, Gradebook

| TLA+ | Code |
|---|---|
| `exams[e]` | an `exams` row with its subjects as `plan` (course to maximum); `editor` stands for title, type and date |
| `rows[e][c]` | committed `scores` of a student and course |
| `imports[r]` | the `score_imports` row that request `r` created |
| `tx[r]` | rows that the open transaction of `r` has written; each is locked until its end |
| `CreateExam`; `ReadExam` then `WriteUpdate`, `WritePublish`, `WriteWithdraw` | `ExamsService` |
| `ValidateSave`, `ApplyCell`, `Commit` | `ScoreEntryService.save` |
| `StartImport`, `ValidateImport`, `ApplyCell`, `Commit`, `Rollback`, `FailImport` | `CsvImportService.import` and `fail` |
| `WaitsFor`, `BreakDeadlock` | row locks and deadlock detection of PostgreSQL (external) |

`Validates` is taken as one step although it reads with several statements: of what
it reads only the exam's status ever changes in this component. Rosters and
assignments are constants, so a sync between check and write is not covered yet.

`Gradebook` has one step for a whole batch. `GradebookSpec` maps committed rows
to its board, and saved requests and import rows to its answers.

### WidgetExchange

`exchange[k]` is the row of an idempotency key. `Begin` is the first `loadReplay`,
`Purge` its `deleteMany` by key, `Claim` the insert, `Reread` the second
`loadReplay`, `Exchange` the call to EduPlus (which redeems a code at most once,
and whose answer may be lost), `Store` the transaction that creates the session and
stores the answer, `Abandon` a failure after the exchange, `Cleanup` the conditional
delete after a failed one. `Expire` ends a lease. `SlowHandlers` says
whether it may end while its holder still runs: two 10 s network timeouts fit into
60 s, but nothing in the code bounds the waits for the database.

### WidgetRefresh

One session from its creation. `Load`, `Grant` (EduPlus may or may not rotate
refresh tokens: `rotates`), `ReadForRotate`, `Swap` (the `updateMany` whose condition
is `Swaps`), `ReadForRevoke`, `Revoke`, `Expire`, `Crash`.

### Subscriptions, SubscriptionLog

One action per statement of the transaction in `receive()`: `InsertReceipt`,
`UpsertTenant`, `UnknownTenant`, `UpdateStatus` or `FindTenant`, `SaveCredential`
or `RevokeCredential`, `Commit`, `Abort`. A transaction's writes are in `tx[d]`
until it commits; inserts of one receipt id, of one EduPlus id, and writes of one
row wait for each other as in PostgreSQL. `SubscriptionLog` handles each event in
one step, with its receipt. `None` stands for a tenant or secret that is not there, which no
row equals (`Markers`).

### AppSession

| TLA+ | Code |
|---|---|
| `session[l]` | the `app_sessions` row that login `l` creates: bound person, refresh token as a number, `live` (`expiresAt` not passed), `revoked` (`revokedAt`) |
| `student[x]`, `own` | the `people` rows kept by the sync, and those created at login (keyed by the token's `sub`) |
| `tenant` | `Tenant.status`, changed by the webhook |
| `issued`, `spent`, `rotates` | EduPlus: the refresh token it honours, the codes it has redeemed, whether it rotates |
| `LoadContext`, `Exchange`, `LookUp`, `RefuseAmbiguous`, `Upsert`, `Create` | `exchangeHandoff` or `completeLogin`, then `acceptOidcTokenResponse` |
| `BeginSync`, `Load`, `Grant`, `Save`, `FailRefresh` | the guard's `findSession`, then `getAccessTokenForSession` |
| `Logout`, `Expire`, `SetTenant`, `SyncStudent`, `Crash` | `revokeSession`, time, the webhook, `DirectorySync`, a restart |

`Accepted` is what `verify()` asks of the claims: a known kind of person, the
tenant, and for a handoff its kind and scopes. A refused login may have spent its
code. `lost` holds the sessions whose answer from EduPlus got lost; `steady`
remembers the students that matched at a login's start, for `BoundToDirectory`.
`rotates` is chosen once: an EduPlus that rotates at some times and not at others is
outside `TokenKept`. `findSession` does not look at `person.active`, so a
session of a student the sync has deactivated goes on; nothing in the code says
otherwise.

### DirectorySync

| TLA+ | Code |
|---|---|
| `upstream[rec]` | the version of a record in EduPlus; `Says` is the content of each version |
| `local[rec]` | its row in `people`, `classrooms` or `courses` |
| `runs[r]` | the status in `directory_sync_runs` |
| `proc[r]` | the request: type, page, cursors seen, records read |
| `Start`, `GetToken`, `GetPage` | `sync()` up to the writes, `fetchAll()` (`Follow` is the check for a repeated cursor) |
| `SyncPeople`, `SyncClasses`, `SyncCourses`, `Finish` | the three transactions and the final update |
| `Fail`, `RecordFailure`, `Crash`, `Change` | the `catch`, a restart, an edit in EduPlus |

A transaction of the sync is one step: its upserts hold the row locks until it
commits, and readers see committed rows. What the code reads between two upserts
it has itself written, or comes from rows that only the sync creates. `Fail` covers every
refusal in it, for instance a course that meets another's `(tenantId, code)`.
`begun` and `overlapped` are history: the upstream when a run began, and the runs that
were in flight together. EduPlus has finitely many pages. A row in state RUNNING stays so after
a restart: that is what the code does, and no property hides it. The
writers `syncAssignments`, `syncParentRelations` and `syncStudentClasses`
(lines 190-293) are never called and not modelled; their types are fetched and only
counted (`SkippedTypes`).

### DemoSeed

`ReadStudents` is the query before the transaction, `Begin` the upserts at its start,
`FindExam` one round of the loop over `DEMO_EXAMS`, `Compare` the check of present scores,
`Count` the final count, `Commit` the rest, `FailRun` a conflict, a timeout or a broken
connection. `SaveGrid`, `Publish`, `Withdraw` and `NewStudent` are the other
writers, one step each (ExamScores has them in detail). The first upsert, of
the creator's row, locks it: a second run waits in `Begin` until the first has ended. The
drafts of a run are in no other transaction's sight, so `exam` changes at `Commit`
only; `drafted` (history) has the exams that were drafts for others, none of them a
demo exam. A `Value` is a score in hundredths of a point, as `Decimal(8,2)` has it (up to
`MaxScore`), `Null` for an absent student, or `None` for no row.

### WidgetBatch

Extends DemoSeed, whose steps go on between the statements of one request. `Receive` is the
validated request with its token, `FindPerson` the token's identity, `Refuse` the
refusals of an item (`Authorized`, `ParamsFit`), `ReadChildren`, `NoChild`, `CheckAccess`,
`ReadExams` and `ReadScores` the statements of `children()`, `assertAccess()`,
`forStudent()` and `forTeacher()`, `FailRead` a failure of one of them, `StartRead` and
`UseRemembered` the map of pending reads: the entry holds an answer or a failure, and
later items of the batch share it. `CompetitionRanks` is the loop of `ranking.ts` as
a recursive function over rows in the order of the code's sort (`Before`; `Sorted` is the
one enumeration in that order), compared with a counting definition by
`RanksCompete`. Students are positive numbers (`BatchData`), since they
are compared as ids and 0 stands for "no student named". `since`
is history: exams published and relations active at some time since the request began. The
trend reads up to 12 exams, summary and table read one: those are separate
reads, under separate keys, and their answers may disagree, which is why
`SummaryMatchesTable` is only about the two that share one.

The results service computes with doubles, and so does the model. `Number` is the set of
the doubles in a unit that makes all of them whole, `Scale` the units of one point,
`ToNumber` the conversion `toNumber()` of a stored score, `Plus` the addition. `Doubles`
says of the two what IEEE 754 does: the result is a number as near as any to the exact
one. `Sums` is what the `reduce` over a student's scores may give: `scores: true` asks for
no order, so the rows may be added in any. `Totals` are the possible maps from students to
sums, of which a read takes one, and the total of an answer is its own student's sum in
that map, as both loops of the code go through the same rows. The subjects' scores and ranks use converted
values without an addition. `Precision` says how fine numbers are: below `Top`, which no
sum of one score per subject exceeds, each is at most `Error` units from the exact
result, and all that is lost in a sum is less than half a hundredth. Real doubles have room to
spare: scores are below 10^6 points, so the sums of 30 subjects stay below 2^25, where a
double is at most 2^-28 points away. The average, total divided by count, is the total and
`scored`. Which way a tie of rounding goes is left to the constants. Of the widget's payload
the numbers are passed on as they are.

### Portal

| TLA+ | Code |
|---|---|
| `url[t]`, `view[t]` | the address of a tab; what `SessionProvider`, `App` and `LaunchPage` show |
| `call[t]` | the request under way: its kind, the cookies it took along, its answer |
| `jar` | the cookies for session, CSRF token and login state |
| `live`, `made`, `spent` | the server's sessions and the codes EduPlus has redeemed |
| `bucket`, `recent` | the limiter's counter of the address; how many passed since k ticks ago, for each k within a window (history) |
| `Load`, `Mount`, `SessionAnswered`, `StartLogin`, `Logout`, `ReturnFromProvider` | the frontend |
| `Serve` (`Create`, `Handoff`, `Callback`, `Revoke`, `Login`) | the routes of `auth.controller.ts` behind `CsrfGuard` and `BoundaryRateLimitGuard` |
| `Arrive`, `Fail` | an answer with its cookies, a lost answer or an unreachable server |

The CSRF guard runs before the limiter, so what it refuses is not counted. A tab has one
request at a time; a request the page gave up by a reload sets no cookies here.
The CSRF header and the cookies of a request are taken in the same moment. The state
of a login is named after the tab that began it. Two launches have two codes
(`FreshCodes`): EduPlus makes one for each. The clock ticks
in fractions of the limiter's window. What the model shows without a property, because nothing
promises otherwise: a late logout answer of one tab clears the cookies of the
other tab's newer login; the second of two logins by redirect overwrites the first one's
state, whose return is then refused; a user who is already logged in and opens a launch
URL keeps the old identity and the code is dropped unsent; the link to `/launch`
in `App.tsx` line 29 leads back to the page it is on.

## 4. The runs

| Run | Instance | Shows |
|---|---|---|
| `exam_scores` | 4 requests, one exam, teacher of one of two courses, clerk, pupil, 7 batches | types, `PublishedHasSubjects`, `StoredScoresValid`, `SealedStaysSealed`, `RetiredStaysRetired`, refinement of Gradebook |
| `exam_scores_liveness` | 3 requests, two batches that lock in opposite orders | `ImportsSettle` |
| `exam_scores_frozen` | 3 requests | violation: see Findings |
| `widget_exchange` | 4 requests, 2 keys, 2 codes, leases may end early | `RepliesMatchRequest`, `ExclusiveWithinLease`, `ReservationKept` |
| `widget_exchange_replay` | one key, leases end after their handler | violation: see Findings |
| `widget_refresh` | 5 requests | `LoserNeverOverwrites`, `UnusableStaysUnusable`, `NotStranded` |
| `subscriptions` | 4 deliveries of 10 events on 2 tenant codes | `AppliedOnce`, `TenantsHaveCredentials`, `UnrecordedOnlyOnClash`, refinement of SubscriptionLog |
| `subscriptions_ack` | the same | violation: see Findings |
| `app_session` | 3 logins (student, teacher, widget code), 2 refreshes, 2 student rows | `TokenKept`, `BoundToDirectory`, `EndedStaysEnded` |
| `directory_sync` | 2 runs of callers with different rights, 3 records of two types on 3 pages, 3 changes | `MirrorsUpstream`, `FreshWhenAlone`, `BackOnlyUnderOverlap`, `RunsEnd` |
| `widget_batch` | 2 seed runs, 2 demo exams and another, 3 students, one request of six kinds (student, parent, teachers, staff with a bad token) | `SeedWhole`, `DemoStable`, `SummaryMatchesTable`, `ShownWasPublished`, `OnlyRelatedChildren`, `FailuresIsolated`, `RanksCompete` |
| `portal` | 2 tabs, one launch code, 2 sessions, 2 requests per window of 2 ticks | types with the pairing of cookies, `CodeSentOnce`, `RateLimited` |

Each property's comment in its module says which code it is about. A few words on the
less obvious ones. `SealedStaysSealed` is what the code guarantees instead of "a
published exam never changes": once the writers that had passed their check before the
publish have ended, nothing changes any more. `ReservationKept` and
`ExclusiveWithinLease` stop at the end of the first lease of a key (`aged`),
because after it the code promises less, as the second run shows.
`NotStranded` excludes every cause of a dead refresh token but a lost
answer or a restart. `TokenKept` says the same of application sessions, where there is
no compare-and-swap: it holds because a refresh that read a replaced token gets
nothing to save. `FreshWhenAlone` and `BackOnlyUnderOverlap` go together: a lone
run loses no update, and every row that goes back to an older version is the work of a
run that overlapped another. `RateLimited` states both sides of a fixed window:
twice the maximum may pass in a span of one window's length, and nobody is refused before the maximum has.

**Bounds.** Requests are used once, so their number bounds the behaviours: four are
needed for an exam with a publish, a writer that was past its check and a competitor,
and for the exchange's race of two late purges against a completed retry with a
further request to see it; five let two refreshes, a revocation and two more refreshes
meet; four deliveries let two events race after their tenant was created twice. One
exam and one session suffice, because no step reads two of them. Maximum 1 with scores
0, 1 and 2 has a value inside, at and beyond the limit. Requests, deliveries, keys
and codes are symmetric where nothing distinguishes them; the run that checks
liveness uses no symmetry. Two overlapping runs of the sync, of the seed and of a refresh are
what their races take; three pages let a cursor point past an empty page, and
two versions of a record let a page be read before and written after the change. Two
refreshes replace a token twice at most, so `MaxTokens` cuts nothing off. One widget
request is enough because requests share nothing. Equal totals of different
scores, an absent student, a missing row and a deactivated one are all in the tables of
`widget_batch`. Its numbers are far coarser than doubles (every whole number below 64, then
every second one; 20.48 units to a hundredth), so that three scores of 0.01 to 0.03 points
show every effect of rounding: 1 + 2 + 3 hundredths give 120 or 122 units by the order of
the rows, 2 + 2 + 2 give 124. Two tabs and two sessions let a logout and a login cross; a second
tick in the window lets a burst fall on both sides of its end.
`CHECK_DEADLOCK FALSE` is set in all but `portal`: when every request has ended the
system stops. A browser can always load a page.

**Fairness** (`FairSpec` of ExamScores). A handler that can continue does: Node's event
loop resumes each settled await (`WF` of `Resume(r)`), and PostgreSQL's deadlock
detection, after its `deadlock_timeout`, fails one member of each cycle of waiting
transactions (`WF` of `BreakDeadlock`). Nothing is assumed of arrivals, of other
failures or of crashes, which may happen at any time or never. `ImportsSettle` excepts an
import whose process was stopped: nothing in the code picks it up again. It also takes the
update in `fail()` to succeed; if the database is gone by then, the import stays
VALIDATING just as after a crash. `Spec` of DirectorySync has `WF` of each run's
`Step`: a request that has begun goes on, for every call to EduPlus has a time limit
(`eduplus-directory.client.ts`) and so has a transaction of Prisma. Which step it takes, the next one or
a failure, is left open. `RunsEnd` then rests on `Follow`: a cursor seen before fails
the run, so that a cycle of cursors ends too. The other specifications state no fairness and have no
liveness property.

## 5. What is proved

`ExamScoresProofs` is checked by the TLA+ proof system, for every set of requests,
exams, persons, classes, courses, students, rosters, plans and batches that satisfies
the assumptions of ExamScores: `StaticData` and `PersonsDisjoint` (the types of the
constant tables; a person has one identity type) and `Markers` (the markers for
"no row", "no exam" and "malformed" are not rows, exams or cells).

- `TypeCorrect`: `Spec => []TypeOK`
- `ScoresValid`: `Spec => []StoredScoresValid`
- `PublishedExamsHaveSubjects`: `Spec => []PublishedHasSubjects`
- `SealedExamsStaySealed`: `Spec => SealedStaysSealed`
- `RetiredExamsStayRetired`: `Spec => RetiredStaysRetired`

The argument rests on `Invariance`, `Spec => []IInv`. `StoredScoresValid` is not
inductive: a commit publishes rows that were computed steps before, so `IInv` adds
what has been carried from the check to the write. `RequestInv` says that a
request between its steps names an existing exam and that what its validation
found is still true, apart from the status: class and plan of an exam never
change (`ExamsStable`). `TxInv` says that an open transaction holds exactly the rows of the
cells its loop has passed, each made from its own batch. The two action
properties follow from `IInv` and one lemma per action that touches the exam.

- `Refinement`: `Spec => GradebookSpec`. `Commit` is Gradebook's step that writes a whole
  batch and answers it (`Save` or `Apply`), `StartImport` is its `Open`, `FailImport` its
  `Fail`; all other steps stutter. Two facts carry it: by `TxInv` the rows of a transaction at its commit
  are those of its whole batch, and the import row of a request that has not
  ended is still VALIDATING (`OpenImports`), so it is answered once.

`WidgetExchangeProofs`, for every set of requests, keys and codes, with or without
`SlowHandlers`, from `NoneIsNew` and `NoneIsNoRow` (the marker for "none" is no request,
code or row): `TypeCorrect`, `RepliesAlwaysMatch`, `ClaimsAreExclusive` and
`ReservationsAreKept` (of the action property `ReservationKept`). Replies and claims are
not inductive by themselves. `SessionInv` adds who may still turn a redeemed code into a
session: one request at most, and none once the session exists. `HolderInv`
adds that a row's claimant has the row's key and is past its claim. The
argument that a late purge does no harm within the first lease is in `TypeOK`: a
purging request has seen a lease of its key end.

`WidgetRefreshProofs`, for every set of requests and both kinds of provider, from
`FirstIsNew`: `TypeCorrect`, `NeverStranded`, `LosersNeverOverwrite`,
`UnusableForGood`. The invariant says what a request carries from its load to its
swap: while the row has the access token it presented, the refresh token it sent is
the row's too (`RequestOK`); tokens that the row has or has had are of
finished requests (`Settled`), so a token in flight is never presented by another and
stays live.

`AppSessionProofs`, for every set of logins, refreshes, students, codes and claims, from
`LoginData`: `TypeCorrect`, `TokensSurvive`, `Binding`, `EndsStay`. The invariant
adds to `TokenKept` who may know the token the provider honours (`TokenOK`): once a
refresh is about to save it, neither the row nor any other refresh has it, so no other grant
succeeds before the save. `LoginOK` says what a login carries from its look-up to its insert
while the students of its identity stay the same.

`DirectorySyncProofs`, for every set of runs and records, any paging, any order of
types and any history of EduPlus, from `SyncData`: `TypeCorrect`, `Mirrors`, `Fresher`,
`NoLostUpdateAlone`. `FreshWhenAlone` needs, for each run, that every page before
the next one has been read (`PagingOK`, hence `Complete` when it starts to write), that
a table it has written holds no older version unless it was overlapped (`WrittenOK`),
that nobody else has written since it began (`OwnOK`, `Alone`), and that a later run has seen
no older upstream than an earlier one (`Later`).

`SubscriptionsProofs`, for every set of deliveries, events and tenant codes, from
`EventData` (an event id names one event; an event that creates a tenant has its EduPlus id)
and `Markers`: `TypeCorrect` (every tenant has an EduPlus id), `EventsApplyOnce`, `NoTenantWithoutSecret`,
`UnrecordedOnClash` (the action property `UnrecordedOnlyOnClash`) and `Refinement` to
SubscriptionLog. Neither invariant is inductive: a commit merges writes made
statements earlier. `TxOK` says what an open transaction has written by each `pc` as a
function of its event and of the committed rows, which its locks keep; that its event
has no receipt yet; and that its tenant exists unless it creates it. `RowsLocked` says that no
two deliveries have written the same row, which is the database's part. `OneInserts` says that no two
open transactions insert one receipt. Under these a `Commit` is SubscriptionLog's step of
the same event, and every other step a stutter. A revocation that names no client always
takes effect in the log: the proof needs that a tenant which exists has a secret.

`PortalProofs`, for every number of tabs, codes and sessions and every limit and window,
from `PortalData` and `FreshCodes`: `TypeCorrect` (with the pairing of session and CSRF
cookies), `CodesAreSentOnce`, `RateIsLimited`. A code is sent at most once because while
it is in an address it is the code of that tab's launch and unsent (`CodesInv`): the page
takes it out of the address in the step that sends it. `WindowInv` says of the fixed
window that what passed since it opened is what the bucket counts, and that at most the
maximum passed in the rest of a window's length before; their sum is the bound
of `RateLimited`.

`WidgetBatchProofs`, from `SeedData`, `BatchData`, `Doubles` and `Precision`, has five parts.

- The seed, for every set of students, exams, scores and runs: `SeedTypeCorrect`, `Whole`,
  `Stable`. The invariant says that one transaction is open at most (`OneRun`), that
  what it found is still so, but for a withdrawal (`FoundOK`), and that it has found all
  demo exams when it compares (`ProgressOK`). `ReadsOnly` (`Spec => SeedSpec`) carries these
  over to WidgetBatch: `SeedIsWhole`, `SeedIsStable`.
- Sums. The community modules' sum over a function is a fold that takes the elements in an
  order `CHOOSE` picks. `Recursion` shows that a recursion over finite sets has a solution,
  `AnyOrder` that every order gives the same exact sum, `ClippedSum` that leaving out the
  rows without a value or counting them as 0 is the same.
- Rounded sums, from `Doubles` and `Precision`. `PlusNear` and `ToNumberNear` bound one
  rounding, `SumsClose` by induction over the set of rows what any order of additions
  rounds away, `RowsAddUp` compares a total with its rows, `TotalsGrow` shows that one more
  hundredth in the database outweighs all rounding, so that the sums keep the order of the decimals.
- The request, for every set of requests: `Invariance`, `TypeCorrect`, `OnlyPublished`,
  `OnlyRelated`, `Isolated`, `SummaryMatches`. What a request holds between its steps was
  once true (`BatchOK`, `SinceOK`); what is remembered under a key was, too, is unique
  and has the totals of its rows, to the hundredth (`MemoInv`); an answer shows what is
  remembered for its student and widget, and is a refusal only for a reason of its own
  (`OutInv`).
- Ranks: `RanksRight`, that the loop over the sorted rows gives each row one more than the
  number of better ones: in a subject by the stored scores, over totals by the rounded
  sums, where whoever has more points in the database is still ranked better. That
  equal totals share a rank is not claimed, for it is not so (section 6). `SortedExists` counts predecessors, `OnePlace` says that the
  sorted rows are an enumeration without repetition, `RankFunction` solves the recursion of
  the loop, `RankCounts` compares it with the count.

The inductions in it are over sets, not over predicates: a set that holds 0 and every
successor of its members holds every natural number (`AllNaturals`, from the
well-foundedness of the order), and a set that holds a finite set's part whenever it holds all
smaller ones holds every part (`AllSubsets`).

Only model-checked: `ImportsSettle` and `RunsEnd`, because liveness under fairness is out of
the proof system's reach. Every other property of a passing run is proved.

## 6. Findings

1. `PublishedScoresFrozen`: `save()` and `import()` check the status outside the
   transaction that writes. A grid validated while the exam is a draft is written
   after its publication.
2. `ReplayKeptUntilStale`: `loadReplay()` deletes an expired row by its key alone. Two
   retries read the same expired row; the delete of the slower removes the fresh,
   completed answer of the faster, and the code, spent by then, is sent to EduPlus again.
3. `AcknowledgedIsRecorded`: `receive()` takes each unique violation for a
   duplicate event. A tenant created under a new code with a known EduPlus id is
   acknowledged as a duplicate, with no effect and no receipt; EduPlus will not retry.

A further disagreement has no run of its own. Line 124 of the design of 2026-09-23 asks for
competition ranks in which equal scores share a rank ("同分同名次"). For the ranks by total
this is not so: `results.service.ts` (lines 42 and 46) adds doubles and `ranking.ts` (line 6)
compares the sums with `===`, so 1.1 + 2.2, which gives 3.3000000000000003, is ranked before
3.3 + 0, and one student's sum may depend on the order in which the rows were read. The model
has this behaviour: in the tables of `widget_batch` students 1 and 2 have six hundredths
each in the first exam, and sums of 120 or 122 and 124 units. `RanksCompete` states what holds instead.

## 7. What is not modelled

- Of the guards: the comparisons of one request's origin and content type, which keep
  no state, and the webhook and widget buckets, which are alike and independent. Buckets
  are never removed from memory and are cleared by a restart, which Portal leaves out.
- Of the frontend: the score grid, child results and sync pages, each with the form or
  the result of one component; page layout. The grid starts empty and sends every cell, so an untouched
  cell clears the stored score: see the hazards in `PROJECT.json`.
- Of the directory sync: the three writers that nothing calls. Of the results:
  the controller's other limit. Of the seed: the dry run, which only reads, and the rows
  of memberships. Of the widget catalog: its records, three constants.
- Rosters and assignments are constants in ExamScores, so a sync between check and
  write is not covered there; the code promises nothing for it.
- A lost acknowledgement of a commit in ExamScores: `Commit` is answered or the transaction is
  rolled back. If PostgreSQL commits an import and the answer is lost, the `catch` runs
  `fail()`, which overwrites APPLIED with FAILED although the scores are stored; Gradebook
  would not allow that. The hazard is listed in `PROJECT.json`.
- The order of subscription events: they are applied as they arrive.
- Signatures, issuers and times of tokens, encryption, DTO and configuration validation,
  health and bootstrap: pure or one-shot, no state that steps could race for.
- The AI Center proxy (no state) and its page (one request at a time); deployment files.
- Two backend replicas: the deployment runs one. The interleaving of requests does not
  depend on it; `Crash` and the limiter's counters do.

Time is abstracted to leases, sessions and windows that end at some point, and
multi-tenancy to one tenant outside Subscriptions (every query is scoped by the
tenant's id).

One remark on a document: the design of 2026-09-23 (line 249) asks that a 401 of the
directory API end the current session. The code fails the run and keeps the session;
no property is stated about it.
