--------------------------------- MODULE Portal ---------------------------------
(***************************************************************************)
(* One browser at the application (src/frontend/src/auth, App.tsx and      *)
(* services/api.ts; src/backend/src/auth/auth.controller.ts and security): *)
(* its tabs load pages, hand over the one-time code of a launch, log in by *)
(* the identity provider and log out.  They share the cookies, and the     *)
(* answers of their requests arrive in any order.  The server counts the   *)
(* requests of the browser's address in fixed windows.  How it creates a   *)
(* session is AppSession.                                                  *)
(***************************************************************************)
EXTENDS Naturals

CONSTANTS
    Tab,
    Code,         \* the codes EduPlus puts into launch URLs
    OpenedWith,   \* the code in the URL a tab is opened with, or None
    MaxSession,   \* bound on the sessions created
    Maximum,      \* AUTH_RATE_LIMIT_MAX
    WindowTicks,  \* RATE_LIMIT_WINDOW_MS, in ticks of the clock
    None

ASSUME PortalData ==
    /\ OpenedWith \in [Tab -> Code \cup {None}]
    /\ MaxSession \in Nat /\ Maximum \in Nat \ {0} /\ WindowTicks \in Nat \ {0}
    /\ None \notin Code \cup Tab \cup Nat
\* EduPlus makes a new code for every launch.
ASSUME FreshCodes ==
    \A t, u \in Tab : OpenedWith[t] = OpenedWith[u] /\ OpenedWith[t] # None => t = u

VARIABLES
    url,     \* per tab the path of its page and the code in it
    view,    \* what the page of a tab shows
    call,    \* the request of a tab that is under way
    jar,     \* the cookies: session, CSRF token and the state of a login
    live,    \* the application sessions that are not revoked
    made,    \* the number of sessions created
    spent,   \* the codes EduPlus has redeemed
    bucket,  \* the address's bucket: its count, the ticks until it is reset
    recent,  \* per k the requests that passed since k ticks ago (history)
    posted   \* how often each code has been sent (history)

vars == <<url, view, call, jar, live, made, spent, bucket, recent, posted>>

Session == 1 .. MaxSession
NoCall == [kind |-> "none"]
Ages == 0 .. WindowTicks - 1
--------------------------------------------------------------------------------
Init ==
    /\ url = [t \in Tab |-> [path |-> "launch", code |-> OpenedWith[t]]]
    /\ view = [t \in Tab |-> "closed"]
    /\ call = [t \in Tab |-> NoCall]
    /\ jar = [session |-> None, csrf |-> None, state |-> None]
    /\ live = {}
    /\ made = 0
    /\ spent = {}
    /\ bucket = [count |-> 0, left |-> 0]
    /\ recent = [k \in Ages |-> 0]
    /\ posted = [c \in Code |-> 0]

\* request(): the cookies a request takes along; the header repeats the CSRF one.
Request(kind, code) == [kind |-> kind, code |-> code, cookies |-> jar, answer |-> "none", gives |-> None]
Send(t, kind, code) == call' = [call EXCEPT ![t] = Request(kind, code)]
Show(t, what) == view' = [view EXCEPT ![t] = what]
Quiet == UNCHANGED <<live, made, spent, bucket, recent>>

\* A page is loaded, by a launch, the user or a reload: SessionProvider asks for
\* the session.  What the page before was waiting for is not awaited any more.
Load(t) ==
    /\ \E u \in {url[t], [path |-> "launch", code |-> None], [path |-> "home", code |-> None]} :
         url' = [url EXCEPT ![t] = u]
    /\ Show(t, "loading")
    /\ Send(t, "session", None)
    /\ UNCHANGED <<jar, posted>> /\ Quiet

\* The effect of LaunchPage takes the code out of the URL before it sends it.
BugKeptUrl(u) == u
CleanUrl(u) == [u EXCEPT !.code = None]
Mount(t) ==
    LET c == url[t].code
    IN  IF c = None
        THEN /\ call' = [call EXCEPT ![t] = NoCall]
             /\ UNCHANGED <<url, posted>>
        ELSE /\ Send(t, "handoff", c)
             /\ url' = [url EXCEPT ![t] = CleanUrl(@)]
             /\ posted' = [posted EXCEPT ![c] = @ + 1]

\* refresh() ends: the application is shown, or the page of the path.  An error
\* counts as no session.
SessionAnswered(t) ==
    /\ call[t].kind = "session"
    /\ \/ /\ call[t].cookies.session \in live
          /\ Show(t, "app")
          /\ url' = [url EXCEPT ![t] = [path |-> "home", code |-> None]]
          /\ call' = [call EXCEPT ![t] = NoCall]
          /\ UNCHANGED posted
       \/ /\ Show(t, url[t].path)
          /\ IF url[t].path = "launch" THEN Mount(t)
             ELSE call' = [call EXCEPT ![t] = NoCall] /\ UNCHANGED <<url, posted>>
    /\ UNCHANGED jar /\ Quiet

\* The button of the application shell.
Logout(t) ==
    /\ view[t] = "app" /\ call[t].kind = "none"
    /\ Send(t, "logout", None)
    /\ UNCHANGED <<url, view, jar, posted>> /\ Quiet

\* The button of LaunchPage leaves the page for auth/login.
StartLogin(t) ==
    /\ view[t] = "launch" /\ call[t].kind = "none"
    /\ Show(t, "provider")
    /\ Send(t, "login", None)
    /\ UNCHANGED <<url, jar, posted>> /\ Quiet

\* The identity provider sends the browser back with the tab's state.
ReturnFromProvider(t) ==
    /\ view[t] = "provider" /\ call[t].kind = "none"
    /\ Send(t, "callback", None)
    /\ UNCHANGED <<url, view, jar, posted>> /\ Quiet
--------------------------------------------------------------------------------
\* CsrfGuard, which goes before the limiter: only a POST with a session cookie
\* needs the token.
CsrfMatches(r) ==
    \/ r.kind \notin {"handoff", "logout"}
    \/ r.cookies.session = None
    \/ r.cookies.csrf # None

\* BoundaryRateLimitGuard: a bucket whose time is over is replaced.  Counts
\* above Maximum + 1 are alike.
Opened == IF bucket.left = 0 THEN [count |-> 0, left |-> WindowTicks] ELSE bucket
BugPasses(count) == count <= Maximum + 1
Passes(count) == count <= Maximum
Counted == [Opened EXCEPT !.count = IF @ > Maximum THEN @ ELSE @ + 1]
Admitted(t) == CsrfMatches(call[t]) /\ Passes(Counted.count)

Answer(t, answer, s) == call' = [call EXCEPT ![t].answer = answer, ![t].gives = s]
Refuse(t) == Answer(t, "refused", None) /\ UNCHANGED <<live, made, spent>>

\* A session of its own for every login that succeeds.
Create(t) ==
    /\ made < MaxSession
    /\ made' = made + 1
    /\ live' = live \cup {made + 1}
    /\ Answer(t, "ok", made + 1)

Handoff(t) ==
    /\ call[t].kind = "handoff" /\ call[t].code \notin spent
    /\ spent' = spent \cup {call[t].code}
    /\ \/ Create(t)
       \/ Answer(t, "refused", None) /\ UNCHANGED <<live, made>>

\* The states of a tab's logins are named by the tab.
Callback(t) ==
    /\ call[t].kind = "callback" /\ call[t].cookies.state = t
    /\ Create(t)
    /\ UNCHANGED spent

Revoke(t) ==
    /\ call[t].kind = "logout"
    /\ live' = live \ {call[t].cookies.session}
    /\ Answer(t, "ok", None)
    /\ UNCHANGED <<made, spent>>

Login(t) ==
    /\ call[t].kind = "login"
    /\ Answer(t, "ok", None)
    /\ UNCHANGED <<live, made, spent>>

\* A request to /api/auth is answered; any of them may be refused.
Serve(t) ==
    /\ call[t].kind \notin {"none", "session"} /\ call[t].answer = "none"
    /\ bucket' = IF CsrfMatches(call[t]) THEN Counted ELSE bucket
    /\ recent' = IF Admitted(t) THEN [k \in Ages |-> recent[k] + 1] ELSE recent
    /\ \/ Admitted(t) /\ (Handoff(t) \/ Callback(t) \/ Revoke(t) \/ Login(t))
       \/ Refuse(t)
    /\ UNCHANGED <<url, view, jar, posted>>

\* The cookies of a successful login.  The CSRF token is named by its session.
BugLoginCookies(t) == [jar EXCEPT !.session = call[t].gives]
LoginCookies(t) ==
    [session |-> call[t].gives, csrf |-> call[t].gives,
     state |-> IF call[t].kind = "callback" THEN None ELSE jar.state]

LogIn(t) ==
    /\ jar' = LoginCookies(t)
    /\ call' = [call EXCEPT ![t] = [Request("session", None) EXCEPT !.cookies = jar']]
    /\ Show(t, "loading")
    /\ url' = IF call[t].kind = "callback" THEN [url EXCEPT ![t].path = "home"] ELSE url

LogOut(t) ==
    /\ jar' = [jar EXCEPT !.session = None, !.csrf = None]
    /\ call' = [call EXCEPT ![t] = NoCall]
    /\ Show(t, url[t].path)
    /\ UNCHANGED url

LeaveForProvider(t) ==
    /\ jar' = [jar EXCEPT !.state = t]
    /\ call' = [call EXCEPT ![t] = NoCall]
    /\ UNCHANGED <<url, view>>

\* The answer of a request that succeeded arrives, and the page goes on.
Arrive(t) ==
    /\ call[t].kind # "none" /\ call[t].answer = "ok"
    /\ \/ call[t].kind \in {"handoff", "callback"} /\ LogIn(t)
       \/ call[t].kind = "logout" /\ LogOut(t)
       \/ call[t].kind = "login" /\ LeaveForProvider(t)
    /\ UNCHANGED posted /\ Quiet

\* A refusal arrives, or nothing does: a page shows it and stays; a failed
\* navigation leaves a page of the server.
Fail(t) ==
    /\ call[t].kind \notin {"none", "session"}
    /\ call' = [call EXCEPT ![t] = NoCall]
    /\ Show(t, IF call[t].kind \in {"login", "callback"} THEN "closed" ELSE view[t])
    /\ UNCHANGED <<url, jar, posted>> /\ Quiet

\* Time passes.
Tick ==
    /\ bucket' = [bucket EXCEPT !.left = IF @ = 0 THEN 0 ELSE @ - 1]
    /\ recent' = [k \in Ages |-> IF k = 0 THEN 0 ELSE recent[k - 1]]
    /\ UNCHANGED <<url, view, call, jar, live, made, spent, posted>>

Next ==
    \/ \E t \in Tab : \/ Load(t) \/ SessionAnswered(t) \/ Logout(t) \/ StartLogin(t)
                      \/ ReturnFromProvider(t) \/ Serve(t) \/ Arrive(t) \/ Fail(t)
    \/ Tick

Spec == Init /\ [][Next]_vars
--------------------------------------------------------------------------------
Cookies == [session : Session \cup {None}, csrf : Session \cup {None}, state : Tab \cup {None}]

TypeOK ==
    /\ url \in [Tab -> [path : {"launch", "home"}, code : Code \cup {None}]]
    /\ view \in [Tab -> {"closed", "loading", "launch", "home", "app", "provider"}]
    /\ call \in [Tab -> {NoCall} \cup
         [kind : {"session", "handoff", "logout", "login", "callback"}, code : Code \cup {None},
          cookies : Cookies, answer : {"none", "ok", "refused"}, gives : Session \cup {None}]]
    /\ jar \in Cookies /\ jar.csrf = jar.session
    /\ made \in 0 .. MaxSession /\ live \subseteq 1 .. made
    /\ spent \subseteq Code
    /\ bucket \in [count : 0 .. Maximum + 1, left : 0 .. WindowTicks]
    /\ recent \in [Ages -> Nat]
    /\ posted \in [Code -> Nat]
    /\ \A t \in Tab : view[t] = "loading" <=> call[t].kind = "session"

\* A one-time code is sent once at most, and never by a page that is loaded
\* again, mounted again or reached after a failed session request.
CodeSentOnce ==
    /\ \A c \in Code : posted[c] <= 1
    /\ \A t \in Tab : url[t].code # None => posted[url[t].code] = 0

Passed == recent[WindowTicks - 1]
\* The fixed windows: in any span of a window's length at most twice the
\* maximum pass, and nobody is refused before the maximum has passed.
RateLimited ==
    /\ Passed <= 2 * Maximum
    /\ bucket.left > 0 /\ bucket.count >= Maximum => Passed >= Maximum
================================================================================
