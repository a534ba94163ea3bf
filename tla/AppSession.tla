-------------------------------- MODULE AppSession --------------------------------
(***************************************************************************)
(* Application sessions (src/backend/src/auth): AuthService exchanges a    *)
(* one-time code for tokens, binds the identity to a person, creates the   *)
(* session row, and refreshes its tokens when a staff member synchronises  *)
(* the directory.  Requests interleave with each other, with the identity  *)
(* provider, with the webhook that suspends the tenant and with the        *)
(* directory sync that changes the students.                               *)
(***************************************************************************)
EXTENDS Naturals, FiniteSets

CONSTANTS
    Login,       \* login requests; the session a login creates has its name
    Refresh,     \* directory sync requests, each used once
    StudentRow,  \* rows of people that the directory sync maintains
    Code,        \* one-time codes
    CodeOf,      \* the code a login presents
    ViaHandoff,  \* the logins by POST auth/handoff; the others by the callback
    Claims,      \* what the token for a code says
    MaxTokens    \* bound on the refresh tokens the provider gives out for a session

\* OidcVerifier.toPersonType(): the names EduPlus uses for the kinds of people.
PersonType == [staff |-> "STAFF", teacher |-> "TEACHER", tch |-> "TEACHER",
               student |-> "STUDENT", stu |-> "STUDENT", parent |-> "PARENT", par |-> "PARENT"]

Claim == [identity : STRING, eit : STRING, tenant : BOOLEAN, scope : SUBSET STRING,
          handoff : STRING]

ASSUME LoginData ==
    /\ CodeOf \in [Login -> Code]
    /\ ViaHandoff \subseteq Login
    /\ \A c \in Code : /\ DOMAIN Claims[c] = {"identity", "eit", "tenant", "scope", "handoff"}
                       /\ Claims[c].tenant \in BOOLEAN
    /\ MaxTokens \in Nat

VARIABLES
    tenant,   \* Tenant.status
    student,  \* the user a synchronised student is, "none" while it is not active
    own,      \* the identities with a person row of their own, keyed by sub
    session,  \* table app_sessions
    spent,    \* the codes the provider has redeemed
    issued,   \* per session, the provider's valid refresh token
    rotates,  \* whether the provider replaces a refresh token when it is used
    lost,     \* the sessions whose token the provider replaced in vain (history)
    login,    \* the login requests
    refresh,  \* the refresh requests
    steady    \* per login under way: {its possible students}, {} once they changed (history)

vars == <<tenant, student, own, session, spent, issued, rotates, lost, login, refresh, steady>>

Claimed(l) == Claims[CodeOf[l]]
Identity == {Claims[c].identity : c \in Code}
KindOf(l) == PersonType[Claimed(l).eit]
Students == {l \in Login : Claimed(l).eit \in {"student", "stu"}}
Persons == (StudentRow \X {"student"}) \cup (Identity \X {"own"})

\* findMany in acceptOidcTokenResponse().
Matches(i) == {x \in StudentRow : student[x] = i}

Created(s) == session[s].state = "row"
\* The condition of findSession() and of getAccessTokenForSession().
Usable(s) == Created(s) /\ session[s].live /\ ~session[s].revoked /\ tenant = "ACTIVE"

Waiting == {"idle", "refused", "done", "dead"}
Entering(l) == login[l].pc \notin Waiting
Refreshing(q) == refresh[q].pc \notin Waiting
--------------------------------------------------------------------------------
Init ==
    /\ tenant = "ACTIVE"
    /\ student = [x \in StudentRow |-> "none"]
    /\ own = {}
    /\ session = [l \in Login |-> [state |-> "none"]]
    /\ spent = {}
    /\ issued = [l \in Login |-> 0]
    /\ rotates \in BOOLEAN
    /\ lost = {}
    /\ login = [l \in Login |-> [pc |-> "idle", person |-> <<>>]]
    /\ refresh = [q \in Refresh |-> [pc |-> "idle"]]
    /\ steady = [l \in Login |-> {}]

Reach(l, pc) == login' = [login EXCEPT ![l].pc = pc]
Leave(l, pc) == /\ login' = [login EXCEPT ![l] = [pc |-> pc, person |-> <<>>]]
                /\ steady' = [steady EXCEPT ![l] = {}]

\* loadTenantContext(): only an active tenant may go on.
LoadContext(l) ==
    /\ login[l].pc = "idle"
    /\ \/ /\ tenant = "ACTIVE"
          /\ Reach(l, "exchange")
          /\ steady' = [steady EXCEPT ![l] = {Matches(Claimed(l).identity)}]
       \/ /\ tenant # "ACTIVE"
          /\ Leave(l, "refused")
    /\ UNCHANGED <<tenant, student, own, session, spent, issued, rotates, lost, refresh>>

\* OidcVerifier.verify() and the checks of acceptOidcTokenResponse().
Accepted(l) ==
    /\ Claimed(l).eit \in DOMAIN PersonType
    /\ Claimed(l).tenant
    /\ l \in ViaHandoff =>
         /\ "openid" \in Claimed(l).scope
         /\ "widget.data.read" \notin Claimed(l).scope
         /\ Claimed(l).handoff \in {"", "app_launch"}

\* A code is redeemed once.  The answer may be lost after that, and tokens
\* that are not accepted are dropped.
Exchange(l) ==
    /\ login[l].pc = "exchange"
    /\ CodeOf[l] \notin spent
    /\ spent' = spent \cup {CodeOf[l]}
    /\ \/ Leave(l, "refused")
       \/ /\ Accepted(l)
          /\ Reach(l, IF l \in Students THEN "look up" ELSE "upsert")
          /\ UNCHANGED steady
    /\ UNCHANGED <<tenant, student, own, session, issued, rotates, lost, refresh>>

BugLookUpFirst(l) ==
    /\ login[l].pc = "look up"
    /\ LET found == Matches(Claimed(l).identity)
       IN  \/ found = {} /\ Reach(l, "upsert")
           \/ \E x \in found :
                login' = [login EXCEPT ![l] = [pc |-> "create", person |-> <<x, "student">>]]
    /\ UNCHANGED <<tenant, student, own, session, spent, issued, rotates, lost, refresh, steady>>
\* Exactly one active student of this identity is the person of the session.
LookUp(l) ==
    /\ login[l].pc = "look up"
    /\ LET found == Matches(Claimed(l).identity)
       IN  \/ found = {} /\ Reach(l, "upsert")
           \/ \E x \in found :
                /\ found = {x}
                /\ login' = [login EXCEPT ![l] = [pc |-> "create", person |-> <<x, "student">>]]
    /\ UNCHANGED <<tenant, student, own, session, spent, issued, rotates, lost, refresh, steady>>

BugUpsertUnsaved(l) ==
    /\ login[l].pc = "upsert"
    /\ login' = [login EXCEPT ![l] = [pc |-> "create", person |-> <<Claimed(l).identity, "own">>]]
    /\ UNCHANGED <<tenant, student, own, session, spent, issued, rotates, lost, refresh, steady>>
\* The person row of the identity itself.
Upsert(l) ==
    /\ login[l].pc = "upsert"
    /\ own' = own \cup {Claimed(l).identity}
    /\ login' = [login EXCEPT ![l] = [pc |-> "create", person |-> <<Claimed(l).identity, "own">>]]
    /\ UNCHANGED <<tenant, student, session, spent, issued, rotates, lost, refresh, steady>>

Create(l) ==
    /\ login[l].pc = "create"
    /\ session' = [session EXCEPT ![l] = [state |-> "row", person |-> login[l].person,
                                          token |-> issued[l], live |-> TRUE, revoked |-> FALSE]]
    /\ Leave(l, "done")
    /\ UNCHANGED <<tenant, student, own, spent, issued, rotates, lost, refresh>>

\* More than one student is ambiguous.
RefuseAmbiguous(l) ==
    /\ login[l].pc = "look up"
    /\ Cardinality(Matches(Claimed(l).identity)) > 1
    /\ Leave(l, "refused")
    /\ UNCHANGED <<tenant, student, own, session, spent, issued, rotates, lost, refresh>>

\* The provider or the database refuses or does not answer.
FailLogin(l) ==
    /\ Entering(l)
    /\ Leave(l, "refused")
    /\ UNCHANGED <<tenant, student, own, session, spent, issued, rotates, lost, refresh>>
--------------------------------------------------------------------------------
Move(q, pc) == refresh' = [refresh EXCEPT ![q].pc = pc]
AtWork(q, s) == Refreshing(q) /\ refresh[q].session = s

\* SessionGuard, and the role check of DirectorySyncController.
BeginSync(q, s) ==
    /\ refresh[q].pc = "idle"
    /\ Usable(s)
    /\ KindOf(s) \in {"TEACHER", "STAFF"}
    /\ refresh' = [refresh EXCEPT ![q] = [pc |-> "load", session |-> s, token |-> 0]]
    /\ UNCHANGED <<tenant, student, own, session, spent, issued, rotates, lost, login, steady>>

\* getAccessTokenForSession() reads the session again.
Load(q) ==
    /\ refresh[q].pc = "load"
    /\ \/ /\ Usable(refresh[q].session)
          /\ refresh' = [refresh EXCEPT ![q].pc = "grant",
                                        ![q].token = session[refresh[q].session].token]
       \/ ~Usable(refresh[q].session) /\ Move(q, "refused")
    /\ UNCHANGED <<tenant, student, own, session, spent, issued, rotates, lost, login, steady>>

\* The provider honours only the valid token of the session and replaces it
\* if that is its policy.  The answer may be lost, or fail the verification.
Grant(q) ==
    /\ refresh[q].pc = "grant"
    /\ LET s == refresh[q].session
           next == IF rotates THEN issued[s] + 1 ELSE issued[s]
       IN  \/ /\ refresh[q].token = issued[s] /\ next <= MaxTokens
              /\ issued' = [issued EXCEPT ![s] = next]
              /\ \/ /\ refresh' = [refresh EXCEPT ![q].pc = "save", ![q].token = next]
                    /\ UNCHANGED lost
                 \/ /\ Move(q, "refused")
                    /\ lost' = lost \cup {s}
           \/ /\ refresh[q].token # issued[s]
              /\ Move(q, "refused")
              /\ UNCHANGED <<issued, lost>>
    /\ UNCHANGED <<tenant, student, own, session, spent, rotates, login, steady>>

\* The update names only the session's id: the refresh token and the expiry are
\* written whatever has happened to the row since it was read.
BugSavedRevives(row, token) == [row EXCEPT !.token = token, !.live = TRUE, !.revoked = FALSE]
BugSavedKeepsToken(row, token) == [row EXCEPT !.live = TRUE]
Saved(row, token) == [row EXCEPT !.token = token, !.live = TRUE]
Save(q) ==
    /\ refresh[q].pc = "save"
    /\ session' = [session EXCEPT ![refresh[q].session] = Saved(@, refresh[q].token)]
    /\ Move(q, "done")
    /\ UNCHANGED <<tenant, student, own, spent, issued, rotates, lost, login, steady>>

FailRefresh(q) ==
    /\ Refreshing(q)
    /\ Move(q, "refused")
    /\ lost' = IF refresh[q].pc = "save" THEN lost \cup {refresh[q].session} ELSE lost
    /\ UNCHANGED <<tenant, student, own, session, spent, issued, rotates, login, steady>>

\* revoke(): one conditional update.
Logout(s) ==
    /\ Created(s) /\ ~session[s].revoked
    /\ session' = [session EXCEPT ![s].revoked = TRUE]
    /\ UNCHANGED <<tenant, student, own, spent, issued, rotates, lost, login, refresh, steady>>

\* The session's time is over.
Expire(s) ==
    /\ Created(s) /\ session[s].live
    /\ session' = [session EXCEPT ![s].live = FALSE]
    /\ UNCHANGED <<tenant, student, own, spent, issued, rotates, lost, login, refresh, steady>>
--------------------------------------------------------------------------------
\* The webhook suspends or reactivates the tenant (Subscriptions).
SetTenant ==
    /\ tenant' \in {"ACTIVE", "SUSPENDED"} \ {tenant}
    /\ UNCHANGED <<student, own, session, spent, issued, rotates, lost, login, refresh, steady>>

\* syncPeople() creates or updates a student (DirectorySync); logins under way
\* see their possible students change.
SyncStudent(x) ==
    /\ \E i \in {Claimed(l).identity : l \in Students} \cup {"none"} :
         student' = [student EXCEPT ![x] = i]
    /\ steady' = [l \in Login |-> steady[l] \cap {Matches(Claimed(l).identity)'}]
    /\ UNCHANGED <<tenant, own, session, spent, issued, rotates, lost, login, refresh>>

\* The backend restarts.
Crash ==
    /\ (\E l \in Login : Entering(l)) \/ (\E q \in Refresh : Refreshing(q))
    /\ login' = [l \in Login |-> IF Entering(l) THEN [pc |-> "dead", person |-> <<>>] ELSE login[l]]
    /\ refresh' = [q \in Refresh |-> IF Refreshing(q) THEN [refresh[q] EXCEPT !.pc = "dead"]
                                     ELSE refresh[q]]
    /\ lost' = lost \cup {refresh[q].session : q \in {p \in Refresh : refresh[p].pc = "save"}}
    /\ steady' = [l \in Login |-> {}]
    /\ UNCHANGED <<tenant, student, own, session, spent, issued, rotates>>

Next ==
    \/ \E l \in Login : \/ LoadContext(l) \/ Exchange(l) \/ LookUp(l) \/ RefuseAmbiguous(l)
                        \/ Upsert(l) \/ Create(l) \/ FailLogin(l) \/ Logout(l) \/ Expire(l)
                        \/ \E q \in Refresh : BeginSync(q, l)
    \/ \E q \in Refresh : Load(q) \/ Grant(q) \/ Save(q) \/ FailRefresh(q)
    \/ \E x \in StudentRow : SyncStudent(x)
    \/ SetTenant
    \/ Crash

Spec == Init /\ [][Next]_vars
--------------------------------------------------------------------------------
SessionRow == [state : {"none"}]
              \cup [state : {"row"}, person : Persons, token : Nat, live : BOOLEAN, revoked : BOOLEAN]

TypeOK ==
    /\ tenant \in {"ACTIVE", "SUSPENDED"}
    /\ student \in [StudentRow -> Identity \cup {"none"}]
    /\ steady \in [Login -> SUBSET SUBSET StudentRow]
    /\ own \subseteq Identity
    /\ session \in [Login -> SessionRow]
    /\ spent \subseteq Code
    /\ issued \in [Login -> Nat]
    /\ rotates \in BOOLEAN
    /\ lost \subseteq Login
    /\ login \in [Login -> [pc : Waiting \cup {"exchange", "look up", "upsert", "create"},
                            person : Persons \cup {<<>>}]]
    /\ refresh \in [Refresh -> [pc : {"idle"}]
         \cup [pc : {"load", "grant", "save", "done", "refused", "dead"}, session : Login, token : Nat]]
    /\ \A l \in Login : Created(l) /\ session[l].person[2] = "own" => Claimed(l).identity \in own

\* The session of a login is bound as the directory said: if the students of
\* its identity stayed the same from its start to its end, it has the only one
\* of them, a person of its own when there was none, and is refused when there
\* were several (auth-synced-student.spec.ts).
BoundToDirectory ==
    [][\A l \in Students : \A found \in steady[l] :
         Created(l)' /\ ~Created(l) =>
            \/ found = {} /\ session'[l].person = <<Claimed(l).identity, "own">>
            \/ \E x \in found : found = {x} /\ session'[l].person = <<x, "student">>]_vars

\* The row of a session holds the token the provider honours, or a refresh is
\* about to save it: no order of refreshes, logouts and expiries
\* leaves a replaced token behind although Save has no compare-and-swap,
\* unless an answer was lost on its way.
TokenKept ==
    \A s \in Login \ lost : Created(s) =>
        \/ session[s].token = issued[s]
        \/ \E q \in Refresh : AtWork(q, s) /\ refresh[q].pc = "save" /\ refresh[q].token = issued[s]

\* A logged-out session is never usable again, and one that has expired comes
\* back only through a refresh that had read it before.
EndedStaysEnded ==
    [][\A s \in Login : Created(s) =>
         /\ session[s].revoked => ~Usable(s)'
         /\ (~session[s].live /\ \A q \in Refresh : AtWork(q, s) => refresh[q].pc = "load")
              => ~session'[s].live]_vars
================================================================================
