----------------------------- MODULE AppSessionProofs -----------------------------
(***************************************************************************)
(* What AppSession guarantees for every number of logins, sessions,        *)
(* refreshes, students and rotations of a refresh token.                   *)
(***************************************************************************)
EXTENDS AppSession, TLAPS

Row == [state : {"row"}, person : Persons, token : Nat, live : BOOLEAN, revoked : BOOLEAN]
Work == [pc : {"load", "grant", "save", "done", "refused", "dead"}, session : Login, token : Nat]
Entry == [pc : Waiting \cup {"exchange", "look up", "upsert", "create"}, person : Persons \cup {<<>>}]

\* A login whose possible students were these is bound to this person.
Bound(l, found) ==
    \/ found = {} /\ login[l].person = <<Claimed(l).identity, "own">>
    \/ \E x \in found : found = {x} /\ login[l].person = <<x, "student">>

LoginOK(l) ==
    /\ steady[l] \subseteq {Matches(Claimed(l).identity)}
    /\ login[l].pc = "upsert" /\ l \in Students => steady[l] \subseteq {{}}
    /\ login[l].pc = "create" =>
         /\ login[l].person \in Persons
         /\ login[l].person[2] = "own" => Claimed(l).identity \in own
         /\ l \in Students => \A found \in steady[l] : Bound(l, found)
    /\ Created(l) => login[l].pc = "done"

RefreshOK(q) == Refreshing(q) => refresh[q].session \in Login /\ Created(refresh[q].session)

\* A refresh that has read the token of s, or got a new one.
Holds(q, s) == AtWork(q, s) /\ refresh[q].pc \in {"grant", "save"}

\* Tokens are known to be old except for the one of a refresh about to save it:
\* nobody else can have read that one.
TokenOK(s) ==
    /\ Created(s) => session[s].token <= issued[s] /\ (~rotates => session[s].token = issued[s])
    /\ \A q \in Refresh : Holds(q, s) =>
         /\ refresh[q].token <= issued[s] /\ (~rotates => refresh[q].token = issued[s])
         /\ rotates /\ refresh[q].pc = "save" =>
              /\ refresh[q].token = issued[s] /\ session[s].token # issued[s]
              /\ \A p \in Refresh \ {q} : Holds(p, s) => refresh[p].token # issued[s]

IInv == /\ TypeOK /\ TokenKept
        /\ \A l \in Login : LoginOK(l) /\ TokenOK(l)
        /\ \A q \in Refresh : RefreshOK(q)
--------------------------------------------------------------------------------
LEMMA InitInv == Init => IInv
<1> SUFFICES ASSUME Init PROVE IInv
  OBVIOUS
<1>1. TypeOK
  BY DEF Init, TypeOK, SessionRow, Waiting, Created
<1>2. TokenKept
  BY DEF Init, TokenKept, Created
<1>3. ASSUME NEW l \in Login PROVE LoginOK(l) /\ TokenOK(l)
  BY DEF Init, LoginOK, TokenOK, Created, Holds, AtWork, Refreshing, Waiting
<1>4. \A q \in Refresh : RefreshOK(q)
  BY DEF Init, RefreshOK, Refreshing, Waiting
<1> QED BY <1>1, <1>2, <1>3, <1>4 DEF IInv

LEMMA KnownIdentity == \A l \in Login : Claimed(l).identity \in Identity
BY LoginData DEF Claimed, Identity

\* The sessions, their tokens and the refreshes are not touched.
LEMMA TokensKept ==
    ASSUME IInv, UNCHANGED <<session, issued, rotates, refresh, lost>>
    PROVE  TokenKept' /\ (\A l \in Login : TokenOK(l)') /\ (\A q \in Refresh : RefreshOK(q)')
<1>1. TokenKept'
  BY DEF IInv, TokenKept, Created, AtWork, Refreshing, Waiting
<1>2. ASSUME NEW l \in Login PROVE TokenOK(l)'
  <2>1. TokenOK(l)
    BY DEF IInv
  <2> QED BY <2>1 DEF TokenOK, Created, Holds, AtWork, Refreshing, Waiting
<1>3. ASSUME NEW q \in Refresh PROVE RefreshOK(q)'
  <2>1. RefreshOK(q)
    BY DEF IInv
  <2> QED BY <2>1 DEF RefreshOK, Created, Refreshing, Waiting
<1> QED BY <1>1, <1>2, <1>3

\* The logins are not touched, nor is a session created.
LEMMA LoginsKept ==
    ASSUME IInv, UNCHANGED <<login, steady, own, student>>,
           \A l \in Login : Created(l)' => Created(l)
    PROVE  \A l \in Login : LoginOK(l)'
<1> SUFFICES ASSUME NEW l \in Login PROVE LoginOK(l)'
  OBVIOUS
<1>1. LoginOK(l)
  BY DEF IInv
<1> QED BY <1>1 DEF LoginOK, Bound, Matches, Claimed, Students

\* A login request goes on.
LEMMA EnterPreserves ==
    ASSUME IInv, NEW l \in Login, NEW m \in Entry, login[l].pc # "done",
           login' = [login EXCEPT ![l] = m],
           steady' \in [Login -> SUBSET SUBSET StudentRow],
           \A k \in Login \ {l} : steady'[k] = steady[k],
           own' \in {own, own \cup {Claimed(l).identity}},
           UNCHANGED <<tenant, student, session, issued, rotates, lost, refresh>>,
           spent' \subseteq Code,
           LoginOK(l)'
    PROVE  IInv'
<1>1. /\ login' \in [Login -> Entry] /\ \A k \in Login \ {l} : login'[k] = login[k]
      /\ own \subseteq own' /\ own' \subseteq Identity
  <2>1. login' \in [Login -> Entry] /\ \A k \in Login \ {l} : login'[k] = login[k]
    BY DEF IInv, TypeOK, Entry
  <2>2. own \subseteq own' /\ own' \subseteq Identity
    BY KnownIdentity DEF IInv, TypeOK
  <2> QED BY <2>1, <2>2
<1>2. TypeOK'
  BY <1>1 DEF IInv, TypeOK, Entry, Created
<1>3. ASSUME NEW k \in Login, k # l PROVE LoginOK(k)'
  <2>1. LoginOK(k) /\ login'[k] = login[k] /\ steady'[k] = steady[k]
    BY <1>1, <1>3 DEF IInv
  <2> QED BY <1>1, <2>1 DEF LoginOK, Bound, Matches, Claimed, Students, Created
<1> QED BY <1>2, <1>3, TokensKept DEF IInv

\* A login ends without a session.
LEMMA LeavePreserves ==
    ASSUME IInv, NEW l \in Login, NEW pc \in {"refused", "dead"}, Leave(l, pc), login[l].pc # "done",
           UNCHANGED <<tenant, student, own, session, issued, rotates, lost, refresh>>,
           spent' \subseteq Code
    PROVE  IInv'
<1> DEFINE m == [pc |-> pc, person |-> <<>>]
<1>1. m \in Entry /\ m.pc = pc
  BY DEF Entry, Waiting
<1>2. /\ login' = [login EXCEPT ![l] = m] /\ login'[l] = m /\ steady'[l] = {}
      /\ steady' \in [Login -> SUBSET SUBSET StudentRow]
      /\ \A k \in Login \ {l} : steady'[k] = steady[k]
  BY DEF Leave, IInv, TypeOK
<1>3. ~Created(l)
  BY DEF IInv, LoginOK
<1>4. LoginOK(l)'
  BY <1>1, <1>2, <1>3 DEF LoginOK, Created
<1> HIDE DEF m
<1> QED BY <1>1, <1>2, <1>4, EnterPreserves

\* The possible students of a login are an old or a new value of Matches.
LEMMA MatchesType == TypeOK => \A l \in Login : Matches(Claimed(l).identity) \in SUBSET StudentRow
BY DEF Matches

LEMMA LoginStepPreserves ==
    ASSUME IInv, NEW l \in Login,
           \/ LoadContext(l) \/ Exchange(l) \/ LookUp(l) \/ RefuseAmbiguous(l)
           \/ Upsert(l) \/ FailLogin(l)
    PROVE  IInv'
<1>1. /\ login[l].pc # "done" /\ ~Created(l) /\ login[l] \in Entry /\ LoginOK(l)
      /\ UNCHANGED <<tenant, student, session, issued, rotates, lost, refresh>>
  BY DEF LoadContext, Exchange, LookUp, RefuseAmbiguous, Upsert, FailLogin, Entering, Waiting,
         IInv, LoginOK, TypeOK, Entry
<1>2. spent' \subseteq Code
  <2>1. CodeOf[l] \in Code /\ spent \subseteq Code
    BY LoginData DEF IInv, TypeOK
  <2>2. spent' \in {spent, spent \cup {CodeOf[l]}}
    BY DEF LoadContext, Exchange, LookUp, RefuseAmbiguous, Upsert, FailLogin
  <2> QED BY <2>1, <2>2
<1>3. CASE Leave(l, "refused") /\ UNCHANGED own
  BY <1>1, <1>2, <1>3, LeavePreserves
\* What the four steps that go on have in common.
<1>4. ASSUME NEW m \in Entry, login' = [login EXCEPT ![l] = m],
             steady' \in [Login -> SUBSET SUBSET StudentRow],
             \A k \in Login \ {l} : steady'[k] = steady[k],
             own' \in {own, own \cup {Claimed(l).identity}},
             login'[l] = m => LoginOK(l)'
      PROVE  IInv'
  <2>1. login'[l] = m
    BY <1>4 DEF IInv, TypeOK
  <2> QED BY <1>1, <1>2, <1>4, <2>1, EnterPreserves
<1>5. CASE LoadContext(l) /\ tenant = "ACTIVE"
  <2> DEFINE m == [login[l] EXCEPT !.pc = "exchange"]
  <2>1. m \in Entry /\ m.pc = "exchange"
    BY <1>1 DEF Entry
  <2>2. login' = [login EXCEPT ![l] = m]
    BY <1>5 DEF LoadContext, Reach, Leave
  <2>3. /\ steady' \in [Login -> SUBSET SUBSET StudentRow]
        /\ steady'[l] = {Matches(Claimed(l).identity)} /\ own' = own
        /\ \A k \in Login \ {l} : steady'[k] = steady[k]
    <3>1. steady' = [steady EXCEPT ![l] = {Matches(Claimed(l).identity)}] /\ own' = own
      BY <1>5 DEF LoadContext
    <3>2. {Matches(Claimed(l).identity)} \in SUBSET SUBSET StudentRow
      BY MatchesType DEF IInv
    <3> QED BY <3>1, <3>2 DEF IInv, TypeOK
  <2> HIDE DEF m
  <2>4. login'[l] = m => LoginOK(l)'
    BY <1>1, <2>1, <2>3 DEF LoginOK, Matches, Claimed, Created
  <2> QED BY <1>4, <2>1, <2>2, <2>3, <2>4
<1>6. CASE Exchange(l) /\ ~Leave(l, "refused")
  <2> DEFINE pc == IF l \in Students THEN "look up" ELSE "upsert"
             m == [login[l] EXCEPT !.pc = pc]
  <2>1. pc \in {"look up", "upsert"} /\ (pc = "upsert" => l \notin Students)
    OBVIOUS
  <2>2. login' = [login EXCEPT ![l] = m] /\ UNCHANGED <<steady, own>>
    BY <1>6 DEF Exchange, Reach
  <2> HIDE DEF pc
  <2>3. m \in Entry /\ m.pc = pc
    BY <1>1, <2>1 DEF Entry
  <2> HIDE DEF m
  <2>4. login'[l] = m => LoginOK(l)'
    BY <1>1, <2>1, <2>2, <2>3 DEF LoginOK, Matches, Claimed, Created, Students
  <2> QED BY <1>4, <2>2, <2>3, <2>4 DEF IInv, TypeOK
<1>7. CASE LookUp(l) /\ Reach(l, "upsert")
  <2> DEFINE m == [login[l] EXCEPT !.pc = "upsert"]
  <2>1. m \in Entry /\ m.pc = "upsert"
    BY <1>1 DEF Entry
  <2>2. login' = [login EXCEPT ![l] = m] /\ UNCHANGED <<steady, own>>
    BY <1>7 DEF LookUp, Reach
  <2>3. Matches(Claimed(l).identity) = {}
    <3>1. login[l].pc = "look up" /\ login'[l].pc = "upsert"
      BY <1>7 DEF LookUp, Reach, IInv, TypeOK
    <3>2. ASSUME NEW x \in StudentRow,
                 login' = [login EXCEPT ![l] = [pc |-> "create", person |-> <<x, "student">>]]
          PROVE  FALSE
      <4>1. login'[l].pc = "create"
        BY <3>2 DEF IInv, TypeOK
      <4> QED BY <3>1, <4>1
    <3> QED BY <1>7, <3>2 DEF LookUp, Matches
  <2> HIDE DEF m
  <2>4. login'[l] = m => LoginOK(l)'
    BY <1>1, <2>1, <2>2, <2>3 DEF LoginOK, Matches, Claimed, Created, Students
  <2> QED BY <1>4, <2>1, <2>2, <2>4 DEF IInv, TypeOK
<1>8. CASE LookUp(l) /\ ~Reach(l, "upsert")
  <2>1. PICK x \in Matches(Claimed(l).identity) :
          /\ Matches(Claimed(l).identity) = {x}
          /\ login' = [login EXCEPT ![l] = [pc |-> "create", person |-> <<x, "student">>]]
    BY <1>8 DEF LookUp
  <2> DEFINE m == [pc |-> "create", person |-> <<x, "student">>]
  <2>2. /\ x \in StudentRow /\ <<x, "student">> \in Persons /\ m \in Entry
        /\ m.pc = "create" /\ m.person = <<x, "student">>
    BY <2>1 DEF Matches, Persons, Entry
  <2>3. login' = [login EXCEPT ![l] = m] /\ UNCHANGED <<steady, own>>
    BY <1>8, <2>1 DEF LookUp
  <2> HIDE DEF m
  <2>4. login'[l] = m => LoginOK(l)'
    <3> SUFFICES ASSUME login'[l] = m PROVE LoginOK(l)'
      OBVIOUS
    <3>1. \A found \in steady[l] : found = {x}
      BY <1>1, <2>1 DEF LoginOK
    <3>2. \A found \in steady[l] : Bound(l, found)'
      BY <2>2, <3>1 DEF Bound
    <3>3. m.person \in Persons /\ m.person[2] # "own"
      BY <2>2
    <3> QED BY <1>1, <2>2, <2>3, <3>2, <3>3 DEF LoginOK, Matches, Claimed, Created, Students
  <2> QED BY <1>4, <2>2, <2>3, <2>4 DEF IInv, TypeOK
<1>9. CASE Upsert(l)
  <2> DEFINE m == [pc |-> "create", person |-> <<Claimed(l).identity, "own">>]
  <2>1. /\ Claimed(l).identity \in Identity /\ <<Claimed(l).identity, "own">> \in Persons
        /\ m \in Entry /\ m.pc = "create" /\ m.person = <<Claimed(l).identity, "own">>
    BY KnownIdentity DEF Persons, Entry
  <2>2. /\ login' = [login EXCEPT ![l] = m] /\ UNCHANGED steady
        /\ own' = own \cup {Claimed(l).identity} /\ login[l].pc = "upsert"
    BY <1>9 DEF Upsert
  <2> HIDE DEF m
  <2>3. login'[l] = m => LoginOK(l)'
    <3> SUFFICES ASSUME login'[l] = m PROVE LoginOK(l)'
      OBVIOUS
    <3>1. l \in Students => \A found \in steady[l] : Bound(l, found)'
      BY <1>1, <2>1, <2>2 DEF LoginOK, Bound, Claimed
    <3>2. Claimed(l).identity \in own'
      BY <2>2
    <3> QED BY <1>1, <2>1, <2>2, <3>1, <3>2 DEF LoginOK, Matches, Claimed, Created, Students
  <2> QED BY <1>4, <2>1, <2>2, <2>3 DEF IInv, TypeOK
<1>10. CASE RefuseAmbiguous(l) \/ FailLogin(l) \/ (LoadContext(l) /\ tenant # "ACTIVE")
  BY <1>3, <1>10 DEF RefuseAmbiguous, FailLogin, LoadContext
<1> QED BY <1>3, <1>5, <1>6, <1>7, <1>8, <1>9, <1>10 DEF Exchange

LEMMA CreatePreserves ==
    ASSUME IInv, NEW l \in Login, Create(l)
    PROVE  IInv'
<1>1. /\ LoginOK(l) /\ ~Created(l) /\ login[l].person \in Persons /\ login[l].pc = "create"
      /\ login[l].person[2] = "own" => Claimed(l).identity \in own
      /\ UNCHANGED <<tenant, student, own, spent, issued, rotates, lost, refresh>>
  BY DEF Create, IInv, LoginOK
<1> DEFINE row == [state |-> "row", person |-> login[l].person, token |-> issued[l],
                   live |-> TRUE, revoked |-> FALSE]
<1>2. /\ row \in Row /\ row.token = issued[l] /\ row.state = "row" /\ row.person = login[l].person
      /\ issued[l] \in Nat
  BY <1>1 DEF Row, IInv, TypeOK
<1>3. session' = [session EXCEPT ![l] = row]
  BY DEF Create
<1> HIDE DEF row
<1>4. /\ session'[l] = row /\ \A k \in Login \ {l} : session'[k] = session[k]
      /\ session' \in [Login -> SessionRow]
  BY <1>2, <1>3 DEF IInv, TypeOK, SessionRow, Row
<1>5. /\ login' \in [Login -> Entry] /\ login'[l].pc = "done"
      /\ \A k \in Login \ {l} : login'[k] = login[k] /\ steady'[k] = steady[k]
      /\ steady' \in [Login -> SUBSET SUBSET StudentRow] /\ steady'[l] = {}
  BY DEF Create, Leave, IInv, TypeOK, Entry, Waiting
<1>6. TypeOK'
  <2>1. ASSUME NEW k \in Login, Created(k)', session'[k].person[2] = "own"
        PROVE  Claimed(k).identity \in own
    <3>1. CASE k = l
      BY <1>1, <1>2, <1>4, <2>1, <3>1
    <3>2. CASE k # l
      BY <1>4, <2>1, <3>2 DEF IInv, TypeOK, Created
    <3> QED BY <3>1, <3>2
  <2> QED BY <1>1, <1>4, <1>5, <2>1 DEF IInv, TypeOK, Entry, Claimed
<1>7. \A q \in Refresh : ~AtWork(q, l)
  BY <1>1 DEF IInv, RefreshOK, AtWork
<1>8. TokenKept'
  <2> SUFFICES ASSUME NEW s \in Login \ lost, Created(s)'
               PROVE  \/ session'[s].token = issued[s]
                      \/ \E q \in Refresh : AtWork(q, s) /\ refresh[q].pc = "save"
                                            /\ refresh[q].token = issued[s]
    BY <1>1 DEF TokenKept, AtWork, Refreshing
  <2> QED BY <1>2, <1>4 DEF IInv, TokenKept, Created
<1>9. ASSUME NEW s \in Login PROVE TokenOK(s)'
  <2>1. CASE s = l
    BY <1>1, <1>2, <1>4, <1>7, <2>1 DEF TokenOK, Holds, AtWork, Refreshing
  <2>2. CASE s # l
    <3>1. TokenOK(s)
      BY DEF IInv
    <3> QED BY <1>1, <1>4, <2>2, <3>1 DEF TokenOK, Holds, AtWork, Refreshing, Created
  <2> QED BY <2>1, <2>2
<1>10. ASSUME NEW k \in Login PROVE LoginOK(k)'
  <2>1. CASE k = l
    BY <1>5, <2>1 DEF LoginOK
  <2>2. CASE k # l
    <3>1. LoginOK(k)
      BY DEF IInv
    <3> QED BY <1>1, <1>4, <1>5, <2>2, <3>1 DEF LoginOK, Bound, Matches, Claimed, Created, Students
  <2> QED BY <2>1, <2>2
<1>11. ASSUME NEW q \in Refresh PROVE RefreshOK(q)'
  <2>1. RefreshOK(q)
    BY DEF IInv
  <2> QED BY <1>1, <1>2, <1>4, <2>1 DEF RefreshOK, Refreshing, Created
<1> QED BY <1>6, <1>8, <1>9, <1>10, <1>11 DEF IInv

\* A refresh goes on; what is left to show is about the tokens.
LEMMA RefreshPreserves ==
    ASSUME IInv, NEW q \in Refresh, NEW w \in Work, refresh' = [refresh EXCEPT ![q] = w],
           Created(w.session), issued' \in [Login -> Nat], lost' \subseteq Login,
           UNCHANGED <<tenant, student, own, spent, session, rotates, login, steady>>,
           TokenKept', \A s \in Login : TokenOK(s)'
    PROVE  IInv'
<1>1. /\ refresh' \in [Refresh -> [pc : {"idle"}] \cup Work] /\ refresh'[q] = w
      /\ \A p \in Refresh \ {q} : refresh'[p] = refresh[p]
  BY DEF IInv, TypeOK, Work
<1>2. TypeOK'
  BY <1>1 DEF IInv, TypeOK, Created, Work, Claimed
<1>3. \A l \in Login : LoginOK(l)'
  BY LoginsKept DEF Created
<1>4. ASSUME NEW p \in Refresh PROVE RefreshOK(p)'
  <2>1. RefreshOK(p)
    BY DEF IInv
  <2>2. CASE p = q
    BY <1>1, <2>2 DEF RefreshOK, Refreshing, Created, Work
  <2>3. CASE p # q
    BY <1>1, <2>1, <2>3 DEF RefreshOK, Refreshing, Created
  <2> QED BY <2>2, <2>3
<1> QED BY <1>2, <1>3, <1>4 DEF IInv

\* A refresh that ends leaves the token of its session with nobody, if it had a
\* new one, and as it was otherwise.
LEMMA RefusePreserves ==
    ASSUME IInv, NEW q \in Refresh, Refreshing(q), Move(q, "refused"), lost' \subseteq Login,
           lost \subseteq lost', refresh[q].pc = "save" => refresh[q].session \in lost',
           UNCHANGED <<tenant, student, own, spent, session, issued, rotates, login, steady>>
    PROVE  IInv'
<1> DEFINE w == [refresh[q] EXCEPT !.pc = "refused"]
<1>1. refresh[q] \in Work /\ Created(refresh[q].session)
  BY DEF IInv, TypeOK, RefreshOK, Refreshing, Waiting, Work
<1>2. /\ w \in Work /\ w.pc = "refused" /\ w.session = refresh[q].session
      /\ refresh' = [refresh EXCEPT ![q] = w] /\ refresh'[q] = w
      /\ \A p \in Refresh \ {q} : refresh'[p] = refresh[p]
  BY <1>1 DEF Move, Work, IInv, TypeOK
<1> HIDE DEF w
<1>3. TokenKept'
  <2> SUFFICES ASSUME NEW s \in Login \ lost', Created(s)
               PROVE  \/ session[s].token = issued[s]
                      \/ \E p \in Refresh : AtWork(p, s)' /\ refresh'[p].pc = "save"
                                            /\ refresh'[p].token = issued[s]
    BY DEF TokenKept, Created
  <2>1. CASE session[s].token = issued[s]
    BY <2>1
  <2>2. CASE session[s].token # issued[s]
    <3>1. PICK p \in Refresh : AtWork(p, s) /\ refresh[p].pc = "save" /\ refresh[p].token = issued[s]
      BY <2>2 DEF IInv, TokenKept
    <3>2. p # q
      BY <3>1 DEF AtWork
    <3> QED BY <1>2, <3>1, <3>2 DEF AtWork, Refreshing
  <2> QED BY <2>1, <2>2
<1>4. ASSUME NEW s \in Login PROVE TokenOK(s)'
  <2>1. TokenOK(s) /\ ~Holds(q, s)' /\ \A p \in Refresh \ {q} : Holds(p, s)' <=> Holds(p, s)
    BY <1>2 DEF IInv, Holds, AtWork, Refreshing
  <2> QED BY <1>2, <2>1 DEF TokenOK, Created
<1> QED BY <1>1, <1>2, <1>3, <1>4, RefreshPreserves DEF IInv, TypeOK

LEMMA BeginSyncPreserves ==
    ASSUME IInv, NEW q \in Refresh, NEW s \in Login, BeginSync(q, s)
    PROVE  IInv'
<1> DEFINE w == [pc |-> "load", session |-> s, token |-> 0]
<1>1. /\ w \in Work /\ w.pc = "load" /\ w.session = s
      /\ refresh' = [refresh EXCEPT ![q] = w] /\ refresh'[q] = w /\ refresh[q].pc = "idle"
      /\ \A p \in Refresh \ {q} : refresh'[p] = refresh[p]
      /\ UNCHANGED <<tenant, student, own, session, spent, issued, rotates, lost, login, steady>>
  BY DEF BeginSync, Work, IInv, TypeOK
<1> HIDE DEF w
<1>2. TokenKept'
  <2>1. \A p \in Refresh, k \in Login : AtWork(p, k) => p # q
    BY <1>1 DEF AtWork, Refreshing, Waiting
  <2> QED BY <1>1, <2>1 DEF IInv, TokenKept, Created, AtWork, Refreshing
<1>3. ASSUME NEW k \in Login PROVE TokenOK(k)'
  <2>1. TokenOK(k) /\ ~Holds(q, k)' /\ \A p \in Refresh \ {q} : Holds(p, k)' <=> Holds(p, k)
    BY <1>1 DEF IInv, Holds, AtWork, Refreshing
  <2> QED BY <1>1, <2>1 DEF TokenOK, Created
<1> QED BY <1>1, <1>2, <1>3, RefreshPreserves DEF BeginSync, Usable, IInv, TypeOK

LEMMA LoadPreserves ==
    ASSUME IInv, NEW q \in Refresh, Load(q)
    PROVE  IInv'
<1> DEFINE s == refresh[q].session
           w == [refresh[q] EXCEPT !.pc = "grant", !.token = session[s].token]
<1>1. /\ refresh[q] \in Work /\ s \in Login /\ Created(s) /\ refresh[q].pc = "load" /\ Refreshing(q)
      /\ UNCHANGED <<tenant, student, own, session, spent, issued, rotates, lost, login, steady>>
  BY DEF Load, IInv, TypeOK, RefreshOK, Refreshing, Waiting, Work
<1>2. CASE Move(q, "refused")
  BY <1>1, <1>2, RefusePreserves DEF IInv, TypeOK
<1>3. CASE ~Move(q, "refused")
  <2>1. session[s] \in Row
    BY <1>1 DEF IInv, TypeOK, SessionRow, Row, Created
  <2> HIDE DEF s
  <2>2. session[s].token \in Nat
    BY <2>1 DEF Row
  <2>3. refresh' = [refresh EXCEPT ![q] = w]
    BY <1>3 DEF Load, s
  <2>4. w \in Work /\ w.pc = "grant" /\ w.session = s /\ w.token = session[s].token
    BY <1>1, <2>2 DEF Work, s
  <2> HIDE DEF w
  <2>5. refresh'[q] = w /\ \A p \in Refresh \ {q} : refresh'[p] = refresh[p]
    BY <2>3, <2>4 DEF IInv, TypeOK
  <2>6. TokenKept'
    <3>1. \A p \in Refresh, k \in Login : AtWork(p, k) /\ refresh[p].pc = "save" => p # q
      BY <1>1
    <3> QED BY <1>1, <2>5, <3>1 DEF IInv, TokenKept, Created, AtWork, Refreshing
  <2>7. ASSUME NEW k \in Login PROVE TokenOK(k)'
    <3>1. TokenOK(k) /\ \A p \in Refresh \ {q} : Holds(p, k)' <=> Holds(p, k)
      BY <2>5 DEF IInv, Holds, AtWork, Refreshing
    <3>2. Holds(q, k)' => k = s
      BY <2>4, <2>5 DEF Holds, AtWork
    <3> QED BY <1>1, <2>4, <2>5, <3>1, <3>2 DEF TokenOK, Created
  <2> QED BY <1>1, <2>3, <2>4, <2>6, <2>7, RefreshPreserves DEF IInv, TypeOK
<1> QED BY <1>2, <1>3

LEMMA GrantPreserves ==
    ASSUME IInv, NEW q \in Refresh, Grant(q)
    PROVE  IInv'
<1>0. PICK s \in Login : s = refresh[q].session
  BY DEF Grant, IInv, RefreshOK, Refreshing, Waiting
<1> DEFINE next == IF rotates THEN issued[s] + 1 ELSE issued[s]
<1>1. /\ refresh[q] \in Work /\ Created(s) /\ refresh[q].pc = "grant" /\ Refreshing(q)
      /\ UNCHANGED <<tenant, student, own, session, spent, rotates, login, steady>>
      /\ TokenOK(s) /\ Holds(q, s)
  BY <1>0 DEF Grant, IInv, TypeOK, RefreshOK, Refreshing, Waiting, Work, Holds, AtWork
<1>2. CASE refresh[q].token # issued[s]
  BY <1>0, <1>1, <1>2, RefusePreserves DEF Grant, IInv, TypeOK
<1>3. CASE refresh[q].token = issued[s]
  <2>1. /\ issued' = [issued EXCEPT ![s] = next]
        /\ \/ /\ refresh' = [refresh EXCEPT ![q].pc = "save", ![q].token = next]
              /\ lost' = lost
           \/ Move(q, "refused") /\ lost' = lost \cup {s}
    BY <1>0, <1>3 DEF Grant
  <2>2. /\ session[s] \in Row /\ issued[s] \in Nat /\ next \in Nat /\ rotates \in BOOLEAN
        /\ (rotates => next = issued[s] + 1) /\ (~rotates => next = issued[s])
    <3>1. session[s] \in Row
      BY <1>1 DEF IInv, TypeOK, SessionRow, Row, Created
    <3>2. issued[s] \in Nat /\ rotates \in BOOLEAN
      BY DEF IInv, TypeOK
    <3> QED BY <3>1, <3>2
  <2> HIDE DEF next
  <2>3. /\ issued' \in [Login -> Nat] /\ issued'[s] = next
        /\ \A k \in Login \ {s} : issued'[k] = issued[k]
    BY <1>1, <2>1, <2>2 DEF IInv, TypeOK
  <2>4. PICK pc \in {"save", "refused"}, token \in Nat :
          /\ refresh' = [refresh EXCEPT ![q] = [refresh[q] EXCEPT !.pc = pc, !.token = token]]
          /\ pc = "save" => token = next /\ lost' = lost
          /\ pc = "refused" => lost' = lost \cup {s}
    <3>1. CASE refresh' = [refresh EXCEPT ![q].pc = "save", ![q].token = next] /\ lost' = lost
      BY <2>2, <3>1
    <3>2. CASE Move(q, "refused") /\ lost' = lost \cup {s}
      <4>1. [refresh[q] EXCEPT !.pc = "refused"]
              = [refresh[q] EXCEPT !.pc = "refused", !.token = refresh[q].token]
        BY <1>1 DEF Work
      <4> QED BY <1>1, <3>2, <4>1 DEF Move, Work
    <3> QED BY <2>1, <3>1, <3>2
  <2> DEFINE w == [refresh[q] EXCEPT !.pc = pc, !.token = token]
  <2>5. w \in Work /\ w.pc = pc /\ w.session = s /\ w.token = token
    BY <1>0, <1>1 DEF Work
  <2>6. refresh' = [refresh EXCEPT ![q] = w]
    BY <2>4
  <2> HIDE DEF w
  <2>7. refresh'[q] = w /\ \A p \in Refresh \ {q} : refresh'[p] = refresh[p]
    BY <2>5, <2>6 DEF IInv, TypeOK
  <2>8. rotates => \A p \in Refresh : ~(AtWork(p, s) /\ refresh[p].pc = "save")
    <3> SUFFICES ASSUME rotates, NEW p \in Refresh, AtWork(p, s), refresh[p].pc = "save" PROVE FALSE
      OBVIOUS
    <3>1. p # q /\ Holds(p, s)
      BY <1>1 DEF Holds
    <3> QED BY <1>1, <1>3, <3>1 DEF TokenOK
  <2>9. TokenKept'
    <3> SUFFICES ASSUME NEW k \in Login \ lost', Created(k)
                 PROVE  \/ session[k].token = issued'[k]
                        \/ \E p \in Refresh : AtWork(p, k)' /\ refresh'[p].pc = "save"
                                              /\ refresh'[p].token = issued'[k]
      BY <1>1 DEF TokenKept, Created
    <3>1. CASE k = s
      <4>1. pc = "save"
        BY <2>4, <3>1
      <4> QED BY <2>3, <2>4, <2>5, <2>7, <3>1, <4>1 DEF AtWork, Refreshing, Waiting
    <3>2. CASE k # s
      <4>1. k \notin lost
        BY <2>4
      <4>2. \/ session[k].token = issued[k]
            \/ \E p \in Refresh \ {q} : AtWork(p, k) /\ refresh[p].pc = "save"
                                          /\ refresh[p].token = issued[k]
        BY <1>1, <3>2, <4>1 DEF IInv, TokenKept
      <4> QED BY <2>3, <2>7, <3>2, <4>2 DEF AtWork, Refreshing
    <3> QED BY <3>1, <3>2
  <2>10. ASSUME NEW k \in Login PROVE TokenOK(k)'
    <3>1. TokenOK(k) /\ \A p \in Refresh \ {q} : Holds(p, k)' <=> Holds(p, k)
      BY <2>7 DEF IInv, Holds, AtWork, Refreshing
    <3>2. CASE k # s
      <4>1. ~Holds(q, k)' /\ ~Holds(q, k)
        BY <1>0, <2>5, <2>7, <3>2 DEF Holds, AtWork
      <4> QED BY <1>1, <2>3, <2>7, <3>1, <3>2, <4>1 DEF TokenOK, Created
    <3>3. CASE k = s
      <4>1. session[s].token \in Nat /\ \A p \in Refresh : Holds(p, s) => refresh[p].token \in Nat
        BY <2>2 DEF Row, Holds, AtWork, Refreshing, Waiting, IInv, TypeOK
      <4>2. Holds(q, s)' => pc = "save" /\ refresh'[q].token = issued'[s]
        BY <2>3, <2>4, <2>5, <2>7 DEF Holds
      <4>3. session[s].token <= issued'[s] /\ (~rotates => session[s].token = issued'[s])
        BY <1>1, <2>2, <2>3, <4>1 DEF TokenOK
      <4>4. \A p \in Refresh \ {q} : Holds(p, s) =>
              refresh[p].token <= issued'[s] /\ (~rotates => refresh[p].token = issued'[s])
        BY <1>1, <2>2, <2>3, <4>1 DEF TokenOK
      <4>5. rotates => /\ session[s].token # issued'[s]
                       /\ \A p \in Refresh \ {q} : Holds(p, s) =>
                            refresh[p].token # issued'[s] /\ refresh[p].pc # "save"
        BY <1>1, <2>2, <2>3, <2>8, <4>1 DEF TokenOK, Holds
      <4>6. \A p \in Refresh : Holds(p, s)' =>
              /\ refresh'[p].token <= issued'[s] /\ (~rotates => refresh'[p].token = issued'[s])
              /\ rotates /\ refresh'[p].pc = "save" => p = q
        BY <2>2, <2>3, <2>7, <3>1, <3>3, <4>2, <4>4, <4>5
      <4>7. rotates => \A p \in Refresh \ {q} : Holds(p, s)' => refresh'[p].token # issued'[s]
        BY <2>7, <3>1, <3>3, <4>5
      <4> QED BY <1>1, <3>3, <4>2, <4>3, <4>5, <4>6, <4>7 DEF TokenOK, Created
    <3> QED BY <3>2, <3>3
  <2>11. lost' \subseteq Login
    BY <2>4 DEF IInv, TypeOK
  <2> QED BY <1>1, <2>3, <2>5, <2>6, <2>9, <2>10, <2>11, RefreshPreserves
<1> QED BY <1>2, <1>3

\* The row of a session changes; nothing else does, but for the refresh q that
\* writes it.
LEMMA RowPreserves ==
    ASSUME IInv, NEW s \in Login, NEW row \in Row, Created(s), row.person = session[s].person,
           session' = [session EXCEPT ![s] = row],
           UNCHANGED <<tenant, student, own, spent, issued, rotates, lost, login, steady>>,
           refresh' \in [Refresh -> [pc : {"idle"}] \cup Work],
           TokenKept', \A k \in Login : TokenOK(k)',
           \A p \in Refresh : Refreshing(p)' => /\ Refreshing(p)
                                                /\ refresh'[p].session = refresh[p].session
    PROVE  IInv'
<1>1. /\ session'[s] = row /\ \A k \in Login \ {s} : session'[k] = session[k]
      /\ session' \in [Login -> SessionRow] /\ \A k \in Login : Created(k)' <=> Created(k)
  BY DEF IInv, TypeOK, SessionRow, Row, Created
<1>2. TypeOK'
  <2>1. \A k \in Login : Created(k) => session'[k].person = session[k].person
    BY <1>1
  <2> QED BY <1>1, <2>1 DEF IInv, TypeOK, Work, Claimed
<1>3. \A l \in Login : LoginOK(l)'
  BY <1>1, LoginsKept
<1>4. \A p \in Refresh : RefreshOK(p)'
  BY <1>1 DEF IInv, RefreshOK
<1> QED BY <1>2, <1>3, <1>4 DEF IInv

\* logout and expiry leave the token of the row.
LEMMA EndPreserves ==
    ASSUME IInv, NEW s \in Login, Logout(s) \/ Expire(s)
    PROVE  IInv'
<1>1. /\ Created(s) /\ session[s] \in Row
      /\ UNCHANGED <<tenant, student, own, spent, issued, rotates, lost, login, refresh, steady>>
  BY DEF Logout, Expire, IInv, TypeOK, SessionRow, Row, Created
<1>2. PICK row \in Row : /\ session' = [session EXCEPT ![s] = row]
                         /\ row.person = session[s].person /\ row.token = session[s].token
  <2>1. CASE Logout(s)
    <3>1. [session[s] EXCEPT !.revoked = TRUE] \in Row
      BY <1>1 DEF Row
    <3> QED BY <1>1, <2>1, <3>1 DEF Logout, Row
  <2>2. CASE Expire(s)
    <3>1. [session[s] EXCEPT !.live = FALSE] \in Row
      BY <1>1 DEF Row
    <3> QED BY <1>1, <2>2, <3>1 DEF Expire, Row
  <2> QED BY <2>1, <2>2
<1>3. \A k \in Login : /\ Created(k)' <=> Created(k)
                       /\ Created(k) => session'[k].token = session[k].token
  BY <1>1, <1>2 DEF IInv, TypeOK, Created, Row
<1>4. TokenKept'
  BY <1>1, <1>3 DEF IInv, TokenKept, AtWork, Refreshing
<1>5. ASSUME NEW k \in Login PROVE TokenOK(k)'
  <2>1. TokenOK(k) /\ \A p \in Refresh : Holds(p, k) => Created(k)
    BY DEF IInv, RefreshOK, Holds, AtWork
  <2> QED BY <1>1, <1>3, <2>1 DEF TokenOK, Holds, AtWork, Refreshing
<1> QED BY <1>1, <1>2, <1>4, <1>5, RowPreserves DEF Refreshing, IInv, TypeOK, Work

LEMMA SavePreserves ==
    ASSUME IInv, NEW q \in Refresh, Save(q)
    PROVE  IInv'
<1>1. PICK s \in Login : s = refresh[q].session
  BY DEF Save, IInv, RefreshOK, Refreshing, Waiting
<1>2. /\ refresh[q] \in Work /\ refresh[q].pc = "save" /\ Created(s) /\ session[s] \in Row
      /\ UNCHANGED <<tenant, student, own, spent, issued, rotates, lost, login, steady>>
      /\ TokenOK(s) /\ Holds(q, s)
  BY <1>1 DEF Save, IInv, TypeOK, RefreshOK, Refreshing, Waiting, Work, Holds, AtWork, SessionRow,
              Row, Created
<1> DEFINE row == [session[s] EXCEPT !.token = refresh[q].token, !.live = TRUE]
<1>3. /\ row \in Row /\ row.person = session[s].person /\ row.token = refresh[q].token
      /\ session' = [session EXCEPT ![s] = row]
  BY <1>1, <1>2 DEF Save, Saved, Row, Work
<1> HIDE DEF row
<1>4. /\ refresh' \in [Refresh -> [pc : {"idle"}] \cup Work] /\ refresh'[q].pc = "done"
      /\ \A p \in Refresh \ {q} : refresh'[p] = refresh[p]
  BY <1>2 DEF Save, Move, IInv, TypeOK, Work
<1>5. /\ session'[s] = row /\ \A k \in Login \ {s} : session'[k] = session[k]
      /\ \A k \in Login : Created(k)' <=> Created(k)
  BY <1>2, <1>3 DEF IInv, TypeOK, Row, Created
<1>6. refresh[q].token = issued[s]
  BY <1>2 DEF TokenOK, IInv, TypeOK
<1>7. TokenKept'
  <2> SUFFICES ASSUME NEW k \in Login \ lost, Created(k)
               PROVE  \/ session'[k].token = issued[k]
                      \/ \E p \in Refresh : AtWork(p, k)' /\ refresh'[p].pc = "save"
                                            /\ refresh'[p].token = issued[k]
    BY <1>2, <1>5 DEF TokenKept
  <2>1. CASE k = s
    BY <1>3, <1>5, <1>6, <2>1
  <2>2. CASE k # s
    <3>1. \/ session[k].token = issued[k]
          \/ \E p \in Refresh \ {q} : AtWork(p, k) /\ refresh[p].pc = "save"
                                        /\ refresh[p].token = issued[k]
      BY <1>1, <2>2 DEF IInv, TokenKept, AtWork
    <3> QED BY <1>4, <1>5, <2>2, <3>1 DEF AtWork, Refreshing
  <2> QED BY <2>1, <2>2
<1>8. ASSUME NEW k \in Login PROVE TokenOK(k)'
  <2>1. /\ TokenOK(k) /\ ~Holds(q, k)' /\ \A p \in Refresh \ {q} : Holds(p, k)' <=> Holds(p, k)
    BY <1>4 DEF IInv, Holds, AtWork, Refreshing
  <2>2. CASE k # s
    BY <1>2, <1>4, <1>5, <2>1, <2>2 DEF TokenOK
  <2>3. CASE k = s
    <3>1. rotates => \A p \in Refresh \ {q} : ~(Holds(p, s) /\ refresh[p].pc = "save")
      BY <1>2 DEF TokenOK
    <3>2. issued[s] \in Nat
      BY DEF IInv, TypeOK
    <3> QED BY <1>2, <1>3, <1>4, <1>5, <1>6, <2>1, <2>3, <3>1, <3>2 DEF TokenOK
  <2> QED BY <2>2, <2>3
<1>9. \A p \in Refresh : Refreshing(p)' => Refreshing(p) /\ refresh'[p].session = refresh[p].session
  BY <1>4 DEF Refreshing, Waiting
<1> QED BY <1>2, <1>3, <1>4, <1>7, <1>8, <1>9, RowPreserves

LEMMA OtherPreserves ==
    ASSUME IInv, SetTenant \/ \E x \in StudentRow : SyncStudent(x)
    PROVE  IInv'
<1>1. UNCHANGED <<own, session, spent, issued, rotates, lost, login, refresh>>
  BY DEF SetTenant, SyncStudent
<1>2. /\ student' \in [StudentRow -> Identity \cup {"none"}]
      /\ tenant' \in {"ACTIVE", "SUSPENDED"}
      /\ steady' \in [Login -> SUBSET SUBSET StudentRow]
      /\ \A l \in Login : steady'[l] \subseteq steady[l]
  <2>1. CASE SetTenant
    BY <2>1 DEF SetTenant, IInv, TypeOK
  <2>2. ASSUME NEW x \in StudentRow, SyncStudent(x)
        PROVE  /\ student' \in [StudentRow -> Identity \cup {"none"}] /\ tenant' = tenant
               /\ steady' \in [Login -> SUBSET SUBSET StudentRow]
               /\ \A l \in Login : steady'[l] \subseteq steady[l]
    <3>1. PICK i \in Identity \cup {"none"} : student' = [student EXCEPT ![x] = i]
      BY <2>2, KnownIdentity DEF SyncStudent, Students
    <3>2. steady' = [l \in Login |-> steady[l] \cap {Matches(Claimed(l).identity)'}] /\ tenant' = tenant
      BY <2>2 DEF SyncStudent
    <3>3. ASSUME NEW l \in Login
          PROVE  steady[l] \cap {Matches(Claimed(l).identity)'} \in SUBSET SUBSET StudentRow
      BY DEF IInv, TypeOK
    <3> QED BY <3>1, <3>2, <3>3 DEF IInv, TypeOK
  <2> QED BY <2>1, <2>2 DEF IInv, TypeOK
<1>3. \A l \in Login : steady'[l] \subseteq {Matches(Claimed(l).identity)'}
  <2>1. CASE SetTenant
    BY <2>1 DEF SetTenant, IInv, LoginOK, Matches, Claimed
  <2>2. CASE \E x \in StudentRow : SyncStudent(x)
    BY <2>2 DEF SyncStudent
  <2> QED BY <2>1, <2>2
<1>4. TypeOK'
  BY <1>1, <1>2 DEF IInv, TypeOK, Created, Claimed
<1>5. ASSUME NEW l \in Login PROVE LoginOK(l)'
  <2>1. LoginOK(l)
    BY DEF IInv
  <2>2. \A found \in steady'[l] : Bound(l, found) => Bound(l, found)'
    BY <1>1 DEF Bound, Claimed
  <2> QED BY <1>1, <1>2, <1>3, <2>1, <2>2 DEF LoginOK, Claimed, Created, Students
<1> QED BY <1>1, <1>4, <1>5, TokensKept DEF IInv

LEMMA CrashPreserves ==
    ASSUME IInv, Crash
    PROVE  IInv'
<1>1. /\ UNCHANGED <<tenant, student, own, session, spent, issued, rotates>>
      /\ steady' = [l \in Login |-> {}]
      /\ lost' = lost \cup {refresh[q].session : q \in {p \in Refresh : refresh[p].pc = "save"}}
  BY DEF Crash
<1>2. /\ login' \in [Login -> Entry]
      /\ \A l \in Login : IF Entering(l) THEN login'[l].pc = "dead" ELSE login'[l] = login[l]
  BY DEF Crash, IInv, TypeOK, Entry, Waiting
<1>3. /\ refresh' \in [Refresh -> [pc : {"idle"}] \cup Work]
      /\ \A q \in Refresh : IF Refreshing(q) THEN refresh'[q].pc = "dead" ELSE refresh'[q] = refresh[q]
  BY DEF Crash, IInv, TypeOK, Work, Refreshing, Waiting
<1>4. \A q \in Refresh : ~Refreshing(q)'
  BY <1>3 DEF Refreshing, Waiting
<1>5. lost' \subseteq Login
  BY <1>1 DEF IInv, TypeOK, RefreshOK, Refreshing, Waiting
<1>6. TypeOK'
  BY <1>1, <1>2, <1>3, <1>5 DEF IInv, TypeOK, Created, Claimed, Entry, Work
<1>7. TokenKept'
  <2> SUFFICES ASSUME NEW s \in Login \ lost', Created(s) PROVE session[s].token = issued[s]
    BY <1>1 DEF TokenKept, Created
  <2>1. \A q \in Refresh : ~(AtWork(q, s) /\ refresh[q].pc = "save")
    BY <1>1 DEF AtWork
  <2> QED BY <1>1, <2>1 DEF IInv, TokenKept
<1>8. ASSUME NEW l \in Login PROVE LoginOK(l)' /\ TokenOK(l)'
  <2>1. LoginOK(l) /\ TokenOK(l) /\ \A q \in Refresh : ~Holds(q, l)'
    BY <1>4 DEF IInv, Holds, AtWork
  <2>2. IF Entering(l) THEN login'[l].pc = "dead" ELSE login'[l].pc = login[l].pc
    BY <1>2
  <2>3. TokenOK(l)'
    BY <1>1, <2>1 DEF TokenOK, Created
  <2>4. LoginOK(l)'
    BY <1>1, <2>1, <2>2 DEF LoginOK, Created, Entering, Waiting
  <2> QED BY <2>3, <2>4
<1>9. \A q \in Refresh : RefreshOK(q)'
  BY <1>4 DEF RefreshOK
<1> QED BY <1>6, <1>7, <1>8, <1>9 DEF IInv

LEMMA NextPreserves == IInv /\ [Next]_vars => IInv'
<1> SUFFICES ASSUME IInv, [Next]_vars PROVE IInv'
  OBVIOUS
<1>1. ASSUME NEW l \in Login,
             \/ LoadContext(l) \/ Exchange(l) \/ LookUp(l) \/ RefuseAmbiguous(l)
             \/ Upsert(l) \/ Create(l) \/ FailLogin(l) \/ Logout(l) \/ Expire(l)
             \/ \E q \in Refresh : BeginSync(q, l)
      PROVE  IInv'
  BY <1>1, LoginStepPreserves, CreatePreserves, EndPreserves, BeginSyncPreserves
<1>2. ASSUME NEW q \in Refresh, Load(q) \/ Grant(q) \/ Save(q) PROVE IInv'
  BY <1>2, LoadPreserves, GrantPreserves, SavePreserves
<1>3. ASSUME NEW q \in Refresh, FailRefresh(q) PROVE IInv'
  <2>1. refresh[q].session \in Login
    BY <1>3 DEF FailRefresh, IInv, RefreshOK
  <2> QED BY <1>3, <2>1, RefusePreserves DEF FailRefresh, IInv, TypeOK
<1>4. CASE SetTenant \/ \E x \in StudentRow : SyncStudent(x)
  BY <1>4, OtherPreserves
<1>5. CASE Crash
  BY <1>5, CrashPreserves
<1>6. CASE UNCHANGED vars
  <2>1. TypeOK'
    BY <1>6 DEF vars, IInv, TypeOK, Created, Claimed
  <2> QED BY <1>6, <2>1, TokensKept, LoginsKept DEF vars, IInv, Created
<1> QED BY <1>1, <1>2, <1>3, <1>4, <1>5, <1>6 DEF Next

THEOREM Invariance == Spec => []IInv
<1>1. Init => IInv
  BY InitInv
<1>2. IInv /\ [Next]_vars => IInv'
  BY NextPreserves
<1> QED BY <1>1, <1>2, PTL DEF Spec
--------------------------------------------------------------------------------
\* Types of every variable; the person row of a session is there.
THEOREM TypeCorrect == Spec => []TypeOK
<1>1. IInv => TypeOK
  BY DEF IInv
<1> QED BY <1>1, Invariance, PTL

\* A refresh that has no compare-and-swap never leaves a replaced token in the
\* row of a session whose answers all arrived.
THEOREM TokensSurvive == Spec => []TokenKept
<1>1. IInv => TokenKept
  BY DEF IInv
<1> QED BY <1>1, Invariance, PTL

\* A session created while its student rows stood still has the only one of
\* them, or a person of its own when there was none.
THEOREM Binding == Spec => BoundToDirectory
<1> DEFINE A == \A l \in Students : \A found \in steady[l] :
                  Created(l)' /\ ~Created(l) =>
                    \/ found = {} /\ session'[l].person = <<Claimed(l).identity, "own">>
                    \/ \E x \in found : found = {x} /\ session'[l].person = <<x, "student">>
<1>1. IInv /\ [Next]_vars => [A]_vars
  <2> SUFFICES ASSUME IInv, Next, NEW l \in Students, NEW found \in steady[l], Created(l)', ~Created(l)
               PROVE  \/ found = {} /\ session'[l].person = <<Claimed(l).identity, "own">>
                      \/ \E x \in found : found = {x} /\ session'[l].person = <<x, "student">>
    OBVIOUS
  <2>1. l \in Login
    BY DEF Students
  <2>2. session' # session
    BY DEF Created
  <2>3. Create(l)
    <3>1. ASSUME NEW k \in Login, Logout(k) \/ Expire(k) PROVE FALSE
      BY <2>1, <3>1 DEF Logout, Expire, IInv, TypeOK, Created
    <3>2. ASSUME NEW q \in Refresh, Save(q) PROVE FALSE
      <4>1. Created(refresh[q].session) /\ refresh[q].session \in Login
        BY <3>2 DEF Save, IInv, RefreshOK, Refreshing, Waiting
      <4> QED BY <2>1, <3>2, <4>1 DEF Save, Saved, IInv, TypeOK, Created
    <3>3. ASSUME NEW k \in Login, Create(k), k # l PROVE FALSE
      BY <2>1, <3>3 DEF Create, IInv, TypeOK, Created
    <3> QED BY <2>2, <3>1, <3>2, <3>3
            DEF Next, LoadContext, Exchange, LookUp, RefuseAmbiguous, Upsert, FailLogin, BeginSync,
                Load, Grant, FailRefresh, SetTenant, SyncStudent, Crash
  <2>4. session'[l].person = login[l].person /\ Bound(l, found)
    BY <2>1, <2>3 DEF Create, IInv, TypeOK, LoginOK
  <2> QED BY <2>4 DEF Bound
<1>2. Spec => [][A]_vars
  BY <1>1, Invariance, PTL DEF Spec
<1> QED BY <1>2 DEF BoundToDirectory

\* Logging out is final; expiry too, unless a refresh had already read the row.
THEOREM EndsStay == Spec => EndedStaysEnded
<1> DEFINE A == \A s \in Login : Created(s) =>
                  /\ session[s].revoked => ~Usable(s)'
                  /\ (~session[s].live /\ \A q \in Refresh : AtWork(q, s) => refresh[q].pc = "load")
                       => ~session'[s].live
<1>1. IInv /\ [Next]_vars => [A]_vars
  <2> SUFFICES ASSUME IInv, Next, NEW s \in Login, Created(s)
               PROVE  /\ session[s].revoked => session'[s].revoked
                      /\ (~session[s].live /\ \A q \in Refresh : AtWork(q, s) => refresh[q].pc = "load")
                           => ~session'[s].live
    BY DEF Usable
  <2>1. session[s] \in Row
    BY DEF IInv, TypeOK, SessionRow, Row, Created
  <2>2. ASSUME NEW k \in Login, Logout(k) \/ Expire(k)
        PROVE  /\ session[s].revoked => session'[s].revoked
               /\ ~session[s].live => ~session'[s].live
    <3>1. CASE Logout(s) /\ k = s
      <4>1. session'[s] = [session[s] EXCEPT !.revoked = TRUE]
        BY <3>1 DEF Logout, IInv, TypeOK
      <4> QED BY <2>1, <4>1 DEF Row
    <3>2. CASE Expire(s) /\ k = s
      <4>1. session'[s] = [session[s] EXCEPT !.live = FALSE]
        BY <3>2 DEF Expire, IInv, TypeOK
      <4> QED BY <2>1, <4>1 DEF Row
    <3>3. CASE k # s
      BY <2>2, <3>3 DEF Logout, Expire, IInv, TypeOK
    <3> QED BY <2>2, <3>1, <3>2, <3>3
  <2>3. ASSUME NEW q \in Refresh, Save(q)
        PROVE  /\ session[s].revoked => session'[s].revoked
               /\ AtWork(q, s) \/ session'[s] = session[s]
               /\ refresh[q].pc # "load"
    BY <2>1, <2>3 DEF Save, Saved, IInv, TypeOK, Row, AtWork, Refreshing, Waiting
  <2>4. ASSUME NEW k \in Login, Create(k) PROVE session'[s] = session[s]
    BY <2>4 DEF Create, IInv, TypeOK, LoginOK
  <2>5. session' = session \/ \E k \in Login : Logout(k) \/ Expire(k) \/ Create(k)
                           \/ \E q \in Refresh : Save(q)
    BY DEF Next, LoadContext, Exchange, LookUp, RefuseAmbiguous, Upsert, FailLogin, BeginSync,
           Load, Grant, FailRefresh, SetTenant, SyncStudent, Crash
  <2> QED BY <2>2, <2>3, <2>4, <2>5
<1>2. Spec => [][A]_vars
  BY <1>1, Invariance, PTL DEF Spec
<1> QED BY <1>2 DEF EndedStaysEnded

================================================================================
