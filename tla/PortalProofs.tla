----------------------------- MODULE PortalProofs -----------------------------
(***************************************************************************)
(* What Portal guarantees for every number of tabs, launch codes and       *)
(* sessions and every limit and window of the rate limiter.                *)
(***************************************************************************)
EXTENDS Portal, TLAPS

Kinds == {"session", "handoff", "logout", "login", "callback"}
AnyCall == [kind : Kinds, code : Code \cup {None}, cookies : Cookies,
            answer : {"none", "ok", "refused"}, gives : Session \cup {None}]
\* A launch is handed over with its code.
Calls == {x \in AnyCall : x.kind = "handoff" => x.code \in Code}
Urls == [path : {"launch", "home"}, code : Code \cup {None}]

Typed == TypeOK /\ call \in [Tab -> {NoCall} \cup Calls]

\* A code that is still in the URL of a tab is the one of its launch, and unsent.
CodesInv ==
    /\ \A c \in Code : posted[c] <= 1
    /\ \A t \in Tab : url[t].code # None =>
         url[t].code = OpenedWith[t] /\ posted[url[t].code] = 0

\* What the bucket has admitted: in its own window exactly what it counted, and
\* no more than the maximum in the rest of a window's length before it.
Admissions == IF bucket.count > Maximum THEN Maximum ELSE bucket.count
Opening == WindowTicks - bucket.left
WindowInv ==
    /\ \A i, j \in Ages : i <= j => recent[i] <= recent[j]
    /\ bucket.left = 0 => recent[0] = 0 /\ Passed <= Maximum
    /\ bucket.left > 0 => /\ recent[Opening] = Admissions
                          /\ Passed <= recent[Opening] + Maximum

IInv == Typed /\ CodesInv /\ WindowInv
--------------------------------------------------------------------------------
LEMMA Constants ==
    /\ WindowTicks \in Nat /\ Maximum \in Nat /\ MaxSession \in Nat
    /\ WindowTicks > 0 /\ Maximum > 0
    /\ None \notin Code /\ None \notin Tab /\ None \notin Nat
    /\ 0 \in Ages /\ WindowTicks - 1 \in Ages
    /\ \A k \in Ages : k \in Nat /\ k < WindowTicks
  BY PortalData DEF Ages

LEMMA Types ==
    ASSUME Typed
    PROVE  /\ url \in [Tab -> Urls]
           /\ call \in [Tab -> {NoCall} \cup Calls]
           /\ jar \in Cookies /\ jar.csrf = jar.session
           /\ \A t \in Tab : call[t].kind # "none" => call[t] \in Calls
           /\ NoCall.kind = "none"
           /\ \A t \in Tab : view[t] = "loading" <=> call[t].kind = "session"
  BY DEF Typed, TypeOK, Urls, Calls, AnyCall, Kinds, NoCall

\* A request that is sent takes the cookies of the jar along.
LEMMA RequestTypes ==
    ASSUME jar \in Cookies, NEW kind \in Kinds, NEW code \in Code \cup {None},
           kind = "handoff" => code \in Code
    PROVE  Request(kind, code) \in Calls /\ Request(kind, code).kind = kind
  BY DEF Request, Calls, AnyCall

LEMMA InitInv == Init => IInv
<1> SUFFICES ASSUME Init PROVE IInv
  OBVIOUS
<1>1. Typed
  <2>1. \A t \in Tab : url[t] = [path |-> "launch", code |-> OpenedWith[t]]
    BY DEF Init
  <2>2. url \in [Tab -> Urls]
    BY <2>1, PortalData DEF Init, Urls
  <2>3. jar \in Cookies /\ jar.csrf = jar.session
    BY DEF Init, Cookies
  <2>4. \A t \in Tab : view[t] = "closed" /\ call[t].kind = "none"
    BY DEF Init, NoCall
  <2> QED BY <2>2, <2>3, <2>4, Constants DEF Init, Typed, TypeOK, Urls
<1>2. CodesInv
  BY PortalData DEF Init, CodesInv
<1>3. WindowInv
  BY Constants DEF Init, WindowInv, Passed
<1> QED BY <1>1, <1>2, <1>3 DEF IInv
--------------------------------------------------------------------------------
(* The tabs and their cookies. *)

\* A step that concerns one tab, and leaves the server's state alone.
Page(t) ==
    /\ \E u \in Urls : url' = [url EXCEPT ![t] = u]
    /\ \E v \in {"closed", "loading", "launch", "home", "app", "provider"},
          x \in {NoCall} \cup Calls :
         /\ view' = [view EXCEPT ![t] = v] /\ call' = [call EXCEPT ![t] = x]
         /\ v = "loading" <=> x.kind = "session"
    /\ jar' \in Cookies /\ jar'.csrf = jar'.session
    /\ posted' \in [Code -> Nat]

LEMMA PageTypes ==
    ASSUME Typed, NEW t \in Tab, Page(t), Quiet
    PROVE  Typed'
<1>1. PICK u \in Urls : url' = [url EXCEPT ![t] = u]
  BY DEF Page
<1>2. PICK v \in {"closed", "loading", "launch", "home", "app", "provider"},
           x \in {NoCall} \cup Calls :
         /\ view' = [view EXCEPT ![t] = v] /\ call' = [call EXCEPT ![t] = x]
         /\ v = "loading" <=> x.kind = "session"
  BY DEF Page
<1>3. url' \in [Tab -> Urls] /\ call' \in [Tab -> {NoCall} \cup Calls]
      /\ view' \in [Tab -> {"closed", "loading", "launch", "home", "app", "provider"}]
  BY <1>1, <1>2, Types DEF Typed, TypeOK
<1>4. \A q \in Tab : view'[q] = "loading" <=> call'[q].kind = "session"
  BY <1>2, Types DEF Typed, TypeOK
<1> QED BY <1>3, <1>4 DEF Page, Typed, TypeOK, Quiet, Urls, Calls, AnyCall, Kinds

\* The page that a request was sent from stays where it is.
LEMMA SameUrl ==
    ASSUME Typed, NEW t \in Tab
    PROVE  /\ url = [url EXCEPT ![t] = url[t]] /\ url[t] \in Urls
           /\ view = [view EXCEPT ![t] = view[t]]
           /\ view[t] \in {"closed", "loading", "launch", "home", "app", "provider"}
  BY Types DEF Typed, TypeOK

LEMMA LoadTypes == ASSUME Typed, NEW t \in Tab, Load(t) PROVE Typed'
<1>1. PICK u \in {url[t], [path |-> "launch", code |-> None], [path |-> "home", code |-> None]} :
         url' = [url EXCEPT ![t] = u]
  BY DEF Load
<1>2. u \in Urls
  BY SameUrl DEF Urls
<1>3. call' = [call EXCEPT ![t] = Request("session", None)]
      /\ view' = [view EXCEPT ![t] = "loading"]
      /\ Request("session", None) \in Calls /\ Request("session", None).kind = "session"
  BY Types, RequestTypes DEF Load, Send, Show, Kinds
<1>4. Page(t) /\ Quiet
  BY <1>1, <1>2, <1>3, Types DEF Page, Load, Typed, TypeOK
<1> QED BY <1>4, PageTypes

LEMMA SessionAnsweredTypes == ASSUME Typed, NEW t \in Tab, SessionAnswered(t) PROVE Typed'
<1>1. CASE /\ view' = [view EXCEPT ![t] = "app"]
           /\ url' = [url EXCEPT ![t] = [path |-> "home", code |-> None]]
           /\ call' = [call EXCEPT ![t] = NoCall]
           /\ UNCHANGED posted
  <2>1. [path |-> "home", code |-> None] \in Urls
    BY DEF Urls
  <2>2. Page(t) /\ Quiet
    BY <1>1, <2>1, Types DEF Page, SessionAnswered, Typed, TypeOK
  <2> QED BY <2>2, PageTypes
<1>2. CASE /\ view' = [view EXCEPT ![t] = url[t].path]
           /\ call' = [call EXCEPT ![t] = NoCall] /\ UNCHANGED <<url, posted>>
  <2>1. url[t].path \in {"launch", "home"}
    BY Types DEF Urls
  <2>2. Page(t) /\ Quiet
    BY <1>2, <2>1, SameUrl, Types DEF Page, SessionAnswered, Typed, TypeOK
  <2> QED BY <2>2, PageTypes
<1>3. CASE /\ view' = [view EXCEPT ![t] = "launch"] /\ url[t].code # None
           /\ Send(t, "handoff", url[t].code)
           /\ url' = [url EXCEPT ![t] = CleanUrl(@)]
           /\ posted' = [posted EXCEPT ![url[t].code] = @ + 1]
  <2> DEFINE c == url[t].code
             x == Request("handoff", c)
             u == [path |-> url[t].path, code |-> None]
  <2>1. c \in Code /\ u \in Urls /\ x \in Calls /\ x.kind = "handoff"
    BY <1>3, Types, RequestTypes DEF Urls, Kinds
  <2>2. url' = [url EXCEPT ![t] = u] /\ call' = [call EXCEPT ![t] = x]
    <3>1. url[t] \in Urls
      BY Types
    <3>2. [url[t] EXCEPT !.code = None] = u
      BY <3>1 DEF Urls
    <3> QED BY <1>3, <3>2 DEF Send, CleanUrl
  <2>3. posted' \in [Code -> Nat]
    BY <1>3, <2>1 DEF Typed, TypeOK
  <2> HIDE DEF x, u, c
  <2>4. Page(t) /\ Quiet
    BY <1>3, <2>1, <2>2, <2>3, Types DEF Page, SessionAnswered
  <2> QED BY <2>4, PageTypes
<1> QED BY <1>1, <1>2, <1>3 DEF SessionAnswered, Show, Mount

LEMMA ButtonTypes ==
    ASSUME Typed, NEW t \in Tab, Logout(t) \/ StartLogin(t) \/ ReturnFromProvider(t)
    PROVE  Typed'
<1>1. PICK kind \in {"logout", "login", "callback"} :
         call' = [call EXCEPT ![t] = Request(kind, None)]
  BY DEF Logout, StartLogin, ReturnFromProvider, Send
<1>2. Request(kind, None) \in Calls /\ Request(kind, None).kind # "session"
  BY Types, RequestTypes DEF Kinds
<1>3. PICK v \in {"app", "provider"} : view' = [view EXCEPT ![t] = v]
  BY SameUrl DEF Logout, StartLogin, ReturnFromProvider, Show
<1>4. UNCHANGED <<url, jar, posted>> /\ Quiet
  BY DEF Logout, StartLogin, ReturnFromProvider
<1>5. Page(t)
  BY <1>1, <1>2, <1>3, <1>4, SameUrl, Types DEF Page, Typed, TypeOK
<1> QED BY <1>4, <1>5, PageTypes

LEMMA ArriveTypes == ASSUME Typed, NEW t \in Tab, Arrive(t) PROVE Typed'
<1>0. call[t] \in Calls /\ Quiet /\ UNCHANGED posted /\ posted \in [Code -> Nat]
  BY Types DEF Arrive, Typed, TypeOK
<1>1. CASE LogIn(t)
  <2> DEFINE x == [Request("session", None) EXCEPT !.cookies = jar']
  <2>1. jar' \in Cookies /\ jar'.csrf = jar'.session
    BY <1>0, <1>1, Types DEF LogIn, LoginCookies, Cookies, Calls, AnyCall
  <2>2. x \in Calls /\ x.kind = "session"
    BY <2>1, Types, RequestTypes DEF Calls, AnyCall, Kinds
  <2>3. PICK u \in Urls : url' = [url EXCEPT ![t] = u]
    <3>1. [url[t] EXCEPT !.path = "home"] \in Urls
      BY SameUrl DEF Urls
    <3> QED BY <1>1, <3>1, SameUrl DEF LogIn
  <2>4. call' = [call EXCEPT ![t] = x] /\ view' = [view EXCEPT ![t] = "loading"]
    BY <1>1 DEF LogIn, Show
  <2> HIDE DEF x
  <2>5. Page(t)
    BY <1>0, <2>1, <2>2, <2>3, <2>4 DEF Page
  <2> QED BY <1>0, <2>5, PageTypes
<1>2. CASE LogOut(t)
  <2>1. jar' \in Cookies /\ jar'.csrf = jar'.session
    BY <1>2, Types DEF LogOut, Cookies
  <2>2. url[t].path \in {"launch", "home"}
    BY Types DEF Urls
  <2>3. Page(t)
    BY <1>0, <1>2, <2>1, <2>2, SameUrl, Types DEF Page, LogOut, Show
  <2> QED BY <1>0, <2>3, PageTypes
<1>3. CASE LeaveForProvider(t) /\ call[t].kind = "login"
  <2>1. jar' \in Cookies /\ jar'.csrf = jar'.session
    BY <1>3, Types DEF LeaveForProvider, Cookies
  <2>2. view[t] # "loading"
    BY <1>3, Types
  <2>3. /\ url' = url /\ view' = view /\ call' = [call EXCEPT ![t] = NoCall]
        /\ NoCall.kind = "none"
    BY <1>3, Types DEF LeaveForProvider
  <2>4. Page(t)
    BY <1>0, <2>1, <2>2, <2>3, SameUrl DEF Page
  <2> QED BY <1>0, <2>4, PageTypes
<1> QED BY <1>1, <1>2, <1>3 DEF Arrive

LEMMA FailTypes == ASSUME Typed, NEW t \in Tab, Fail(t) PROVE Typed'
<1>1. view[t] # "loading"
  BY Types DEF Fail
<1>2. PICK v \in {"closed", view[t]} : view' = [view EXCEPT ![t] = v]
  BY DEF Fail, Show
<1>3. call' = [call EXCEPT ![t] = NoCall] /\ UNCHANGED <<url, jar, posted>> /\ Quiet
  BY DEF Fail
<1>4. Page(t)
  BY <1>1, <1>2, <1>3, SameUrl, Types DEF Page, Typed, TypeOK
<1> QED BY <1>3, <1>4, PageTypes
--------------------------------------------------------------------------------
(* The server. *)

LEMMA CountedTypes ==
    ASSUME Typed
    PROVE  /\ bucket.count \in 0 .. Maximum + 1 /\ bucket.left \in 0 .. WindowTicks
           /\ Counted.left = (IF bucket.left = 0 THEN WindowTicks ELSE bucket.left)
           /\ Counted.count = LET n == IF bucket.left = 0 THEN 0 ELSE bucket.count
                              IN  IF n > Maximum THEN n ELSE n + 1
           /\ Counted \in [count : 0 .. Maximum + 1, left : 0 .. WindowTicks]
<1>1. bucket \in [count : 0 .. Maximum + 1, left : 0 .. WindowTicks]
  BY DEF Typed, TypeOK
<1>2. /\ Opened \in [count : 0 .. Maximum + 1, left : 0 .. WindowTicks]
      /\ Opened.left = IF bucket.left = 0 THEN WindowTicks ELSE bucket.left
      /\ Opened.count = IF bucket.left = 0 THEN 0 ELSE bucket.count
  BY <1>1, Constants DEF Opened
<1> DEFINE n == IF Opened.count > Maximum THEN Opened.count ELSE Opened.count + 1
<1>3. Counted = [count |-> n, left |-> Opened.left] /\ n \in 0 .. Maximum + 1
  BY <1>2, Constants DEF Counted
<1> QED BY <1>1, <1>2, <1>3

\* What the server does with a request: it answers it, and may create or revoke a
\* session and redeem a code.
LEMMA AnswerTypes ==
    ASSUME Typed, NEW t \in Tab, Serve(t)
    PROVE  /\ call[t] \in Calls /\ call[t].kind # "session"
           /\ \E x \in Calls : call' = [call EXCEPT ![t] = x] /\ x.kind = call[t].kind
           /\ made' \in 0 .. MaxSession /\ live' \subseteq 1 .. made'
           /\ spent' \subseteq Code
<1>0. call[t] \in Calls /\ call[t].kind \notin {"none", "session"}
  BY Types DEF Serve
<1>1. /\ made \in 0 .. MaxSession /\ live \subseteq 1 .. made /\ spent \subseteq Code
      /\ MaxSession \in Nat
  BY Constants DEF Typed, TypeOK
<1> DEFINE Answered == \E answer \in {"ok", "refused"}, s \in Session \cup {None} : Answer(t, answer, s)
           Goal == /\ Answered
                   /\ made' \in 0 .. MaxSession /\ live' \subseteq 1 .. made'
                   /\ spent' \subseteq Code
<1>2. ASSUME Answer(t, "ok", None) \/ Answer(t, "refused", None) PROVE Answered
  BY <1>2
<1>3. ASSUME Create(t) PROVE Answered /\ made' \in 0 .. MaxSession /\ live' \subseteq 1 .. made'
  <2>1. made + 1 \in Session /\ made' = made + 1 /\ Answer(t, "ok", made + 1)
        /\ live' = live \cup {made + 1}
    BY <1>1, <1>3 DEF Create, Session
  <2> QED BY <1>1, <2>1 DEF Session
<1> HIDE DEF Answered
<1>4. Goal
  <2>1. CASE Refuse(t)
    BY <1>1, <1>2, <2>1 DEF Refuse
  <2>2. CASE Handoff(t)
    <3>1. spent' \subseteq Code
      BY <1>0, <1>1, <2>2 DEF Handoff, Calls
    <3> QED BY <1>1, <1>2, <1>3, <2>2, <3>1 DEF Handoff
  <2>3. CASE Callback(t)
    BY <1>1, <1>3, <2>3 DEF Callback
  <2>4. CASE Revoke(t) \/ Login(t)
    BY <1>1, <1>2, <2>4 DEF Revoke, Login
  <2> QED BY <2>1, <2>2, <2>3, <2>4 DEF Serve
<1>5. ASSUME NEW answer \in {"ok", "refused"}, NEW s \in Session \cup {None}, Answer(t, answer, s)
      PROVE  \E x \in Calls : call' = [call EXCEPT ![t] = x] /\ x.kind = call[t].kind
  <2> DEFINE x == [call[t] EXCEPT !.answer = answer, !.gives = s]
  <2>1. x \in Calls /\ x.kind = call[t].kind
    BY <1>0 DEF Calls, AnyCall
  <2>2. call' = [call EXCEPT ![t] = x]
    BY <1>5 DEF Answer
  <2> QED BY <2>1, <2>2
<1> QED BY <1>0, <1>4, <1>5 DEF Answered

LEMMA ServeTypes == ASSUME Typed, NEW t \in Tab, Serve(t) PROVE Typed'
<1>1. PICK x \in Calls : call' = [call EXCEPT ![t] = x] /\ x.kind = call[t].kind
  BY AnswerTypes
<1>2. call' \in [Tab -> {NoCall} \cup Calls]
      /\ \A q \in Tab : call'[q].kind = call[q].kind
  BY <1>1, Types
<1>3. bucket' \in [count : 0 .. Maximum + 1, left : 0 .. WindowTicks]
  BY CountedTypes DEF Serve, Typed, TypeOK
<1>4. recent' \in [Ages -> Nat]
  BY DEF Serve, Typed, TypeOK
<1>5. UNCHANGED <<url, view, jar, posted>>
  BY DEF Serve
<1>6. /\ made' \in 0 .. MaxSession /\ live' \subseteq 1 .. made' /\ spent' \subseteq Code
  BY AnswerTypes
<1>7. \A q \in Tab : view'[q] = "loading" <=> call'[q].kind = "session"
  BY <1>2, <1>5, Types
<1>8. call' \in [Tab -> {NoCall} \cup AnyCall]
  BY <1>2 DEF Calls
<1>9. jar' \in Cookies /\ jar'.csrf = jar'.session /\ url' \in [Tab -> Urls]
  BY <1>5, Types
<1>10. view' \in [Tab -> {"closed", "loading", "launch", "home", "app", "provider"}]
       /\ posted' \in [Code -> Nat]
  BY <1>5 DEF Typed, TypeOK
<1>11. TypeOK'
  BY <1>3, <1>4, <1>6, <1>7, <1>8, <1>9, <1>10 DEF TypeOK, AnyCall, Kinds, Urls
<1> QED BY <1>2, <1>11 DEF Typed, Calls, AnyCall, Cookies

LEMMA TickTypes == ASSUME Typed, Tick PROVE Typed'
<1>1. bucket' \in [count : 0 .. Maximum + 1, left : 0 .. WindowTicks]
  <2> DEFINE n == IF bucket.left = 0 THEN 0 ELSE bucket.left - 1
  <2>1. bucket \in [count : 0 .. Maximum + 1, left : 0 .. WindowTicks] /\ n \in 0 .. WindowTicks
    BY Constants DEF Typed, TypeOK
  <2>2. bucket' = [bucket EXCEPT !.left = n]
    BY DEF Tick
  <2> QED BY <2>1, <2>2
<1>2. recent' \in [Ages -> Nat]
  <2>1. \A k \in Ages : k = 0 \/ k - 1 \in Ages
    BY Constants DEF Ages
  <2> QED BY <2>1 DEF Tick, Typed, TypeOK
<1> QED BY <1>1, <1>2 DEF Tick, Typed, TypeOK, Calls, AnyCall, Cookies

LEMMA TypeStep == ASSUME Typed, [Next]_vars PROVE Typed'
<1>1. CASE UNCHANGED vars
  BY <1>1 DEF vars, Typed, TypeOK, Calls, AnyCall, Cookies
<1> QED BY <1>1, LoadTypes, SessionAnsweredTypes, ButtonTypes, ServeTypes, ArriveTypes,
       FailTypes, TickTypes DEF Next
--------------------------------------------------------------------------------
(* The codes. *)

LEMMA CodesKept ==
    ASSUME Typed, CodesInv, NEW t \in Tab, UNCHANGED posted,
           NEW u \in Urls, u.code \in {None, url[t].code}, url' = [url EXCEPT ![t] = u]
    PROVE  CodesInv'
<1>1. \A q \in Tab : url'[q].code \in {None, url[q].code}
  BY Types
<1> QED BY <1>1 DEF CodesInv

LEMMA CodesStep == ASSUME Typed, CodesInv, [Next]_vars PROVE CodesInv'
<1>1. CASE UNCHANGED <<url, posted>>
  BY <1>1 DEF CodesInv
<1>2. ASSUME NEW t \in Tab, Load(t) PROVE CodesInv'
  <2>1. PICK u \in {url[t], [path |-> "launch", code |-> None], [path |-> "home", code |-> None]} :
           url' = [url EXCEPT ![t] = u]
    BY <1>2 DEF Load
  <2> QED BY <1>2, <2>1, CodesKept, SameUrl DEF Load, Urls
<1>3. ASSUME NEW t \in Tab, SessionAnswered(t) PROVE CodesInv'
  <2>1. CASE url' = [url EXCEPT ![t] = [path |-> "home", code |-> None]] /\ UNCHANGED posted
    BY <2>1, CodesKept DEF Urls
  \* A page that hands its code over has it no longer; no other tab has the code.
  <2>2. CASE /\ url[t].code # None
             /\ url' = [url EXCEPT ![t] = CleanUrl(@)]
             /\ posted' = [posted EXCEPT ![url[t].code] = @ + 1]
    <3> DEFINE c == url[t].code
    <3>1. /\ c \in Code /\ c = OpenedWith[t] /\ posted[c] = 0
          /\ url'[t].code = None /\ \A q \in Tab \ {t} : url'[q] = url[q]
      BY <2>2, Types DEF CodesInv, CleanUrl, Urls
    <3>2. posted'[c] = 1 /\ \A d \in Code \ {c} : posted'[d] = posted[d]
      BY <2>2, <3>1 DEF Typed, TypeOK
    <3>3. \A q \in Tab \ {t} : url[q].code # None => url[q].code # c
      BY <2>2, <3>1, FreshCodes DEF CodesInv
    <3>4. \A q \in Tab : url[q].code # None => url[q].code \in Code
      BY Types DEF Urls
    <3> QED BY <3>1, <3>2, <3>3, <3>4 DEF CodesInv
  <2> QED BY <1>1, <1>3, <2>1, <2>2 DEF SessionAnswered, Mount
<1>4. ASSUME NEW t \in Tab, Arrive(t) PROVE CodesInv'
  <2>1. CASE url' = [url EXCEPT ![t].path = "home"]
    <3>1. [url[t] EXCEPT !.path = "home"] \in Urls /\ [url[t] EXCEPT !.path = "home"].code = url[t].code
      BY SameUrl DEF Urls
    <3> QED BY <1>4, <2>1, <3>1, CodesKept DEF Arrive
  <2> QED BY <1>1, <1>4, <2>1 DEF Arrive, LogIn, LogOut, LeaveForProvider
<1> QED BY <1>1, <1>2, <1>3, <1>4 DEF Next, vars, Logout, StartLogin, ReturnFromProvider,
       Serve, Fail, Tick
--------------------------------------------------------------------------------
(* The windows. *)

LEMMA ServeWindow == ASSUME Typed, WindowInv, NEW t \in Tab, Serve(t) PROVE WindowInv'
<1>0. /\ recent \in [Ages -> Nat]
      /\ bucket.count \in 0 .. Maximum + 1 /\ bucket.left \in 0 .. WindowTicks
  BY CountedTypes DEF Typed, TypeOK
<1>1. CASE ~CsrfMatches(call[t])
  BY <1>1 DEF Serve, Admitted, WindowInv, Passed, Opening, Admissions
<1>2. CASE CsrfMatches(call[t])
  <2> DEFINE n == IF bucket.left = 0 THEN 0 ELSE bucket.count
             add == IF n + 1 <= Maximum THEN 1 ELSE 0
  <2>1. /\ bucket' = Counted /\ n \in 0 .. Maximum + 1
        /\ bucket'.left = IF bucket.left = 0 THEN WindowTicks ELSE bucket.left
        /\ bucket'.count = IF n > Maximum THEN n ELSE n + 1
    BY <1>0, <1>2, CountedTypes, Constants DEF Serve
  <2>2. recent' \in [Ages -> Nat] /\ \A k \in Ages : recent'[k] = recent[k] + add
    <3>1. Admitted(t) <=> n + 1 <= Maximum
      BY <1>2, <2>1, Constants DEF Admitted, Passes
    <3> QED BY <1>0, <3>1 DEF Serve
  <2>3. /\ Opening' = (IF bucket.left = 0 THEN 0 ELSE Opening) /\ Opening' \in Ages
        /\ Admissions' = (IF n > Maximum THEN Maximum ELSE n) + add
        /\ Passed' = Passed + add
    <3>1. Opening' = WindowTicks - bucket'.left
      BY DEF Opening
    <3>2. Admissions' = IF bucket'.count > Maximum THEN Maximum ELSE bucket'.count
      BY DEF Admissions
    <3>3. Opening' = (IF bucket.left = 0 THEN 0 ELSE Opening) /\ Opening' \in Ages
      BY <1>0, <2>1, <3>1, Constants DEF Opening, Ages
    <3>4. Admissions' = (IF n > Maximum THEN Maximum ELSE n) + add
      BY <1>0, <2>1, <3>2, Constants
    <3>5. Passed' = Passed + add
      BY <2>2, Constants DEF Passed
    <3> QED BY <3>3, <3>4, <3>5
  <2>4. recent[Opening'] = (IF n > Maximum THEN Maximum ELSE n) /\ Passed <= recent[Opening'] + Maximum
    <3>1. CASE bucket.left = 0
      BY <1>0, <2>3, <3>1, Constants DEF WindowInv, Passed
    <3>2. CASE bucket.left > 0
      BY <1>0, <2>3, <3>2, Constants DEF WindowInv, Passed, Admissions
    <3> QED BY <1>0, <3>1, <3>2
  <2> HIDE DEF add
  <2>5. add \in {0, 1}
    BY DEF add
  <2>6. \A i, j \in Ages : i <= j => recent'[i] <= recent'[j]
    BY <1>0, <2>2, <2>5 DEF WindowInv
  <2>7. bucket'.left > 0 /\ Passed \in Nat
    BY <1>0, <2>1, Constants DEF Passed
  <2> HIDE DEF n
  <2>8. recent'[Opening'] = Admissions' /\ Passed' <= recent'[Opening'] + Maximum
    BY <1>0, <2>2, <2>3, <2>4, <2>5, <2>7, Constants
  <2> QED BY <2>6, <2>7, <2>8 DEF WindowInv
<1> QED BY <1>1, <1>2

LEMMA TickWindow == ASSUME Typed, WindowInv, Tick PROVE WindowInv'
<1>0. /\ recent \in [Ages -> Nat]
      /\ bucket.count \in 0 .. Maximum + 1 /\ bucket.left \in 0 .. WindowTicks
  BY CountedTypes DEF Typed, TypeOK
<1>1. bucket'.count = bucket.count /\ bucket'.left = IF bucket.left = 0 THEN 0 ELSE bucket.left - 1
  BY DEF Tick, Typed, TypeOK
<1>2. /\ recent'[0] = 0
      /\ \A k \in Ages : k # 0 => k - 1 \in Ages /\ recent'[k] = recent[k - 1]
      /\ \A k \in Ages : recent'[k] \in Nat /\ recent'[k] <= recent[k]
  <2>1. \A k \in Ages : k # 0 => k - 1 \in Ages /\ recent'[k] = recent[k - 1]
    BY Constants DEF Tick, Ages
  <2>2. recent'[0] = 0
    BY Constants DEF Tick
  <2>3. ASSUME NEW k \in Ages PROVE recent'[k] \in Nat /\ recent'[k] <= recent[k]
    BY <1>0, <2>1, <2>2, Constants DEF WindowInv
  <2> QED BY <2>1, <2>2, <2>3
<1>3. \A i, j \in Ages : i <= j => recent'[i] <= recent'[j]
  <2> SUFFICES ASSUME NEW i \in Ages, NEW j \in Ages, i <= j PROVE recent'[i] <= recent'[j]
    OBVIOUS
  <2>1. CASE i = 0
    BY <1>2, <2>1
  <2>2. CASE i # 0
    <3>1. i - 1 \in Ages /\ j - 1 \in Ages /\ i - 1 <= j - 1 /\ j # 0
      BY <1>2, <2>2, Constants
    <3> QED BY <1>2, <2>2, <3>1 DEF WindowInv
  <2> QED BY <2>1, <2>2
<1>4. Passed' <= Passed /\ Passed \in Nat /\ Passed' \in Nat
  BY <1>0, <1>2, Constants DEF Passed
<1>5. CASE bucket.left = 0
  BY <1>0, <1>1, <1>2, <1>3, <1>4, <1>5, Constants DEF WindowInv
\* The window ends: all that passed in the last ticks passed in it.
<1>6. CASE bucket.left = 1
  <2>1. Opening = WindowTicks - 1 /\ Passed <= Maximum
    BY <1>0, <1>6, Constants DEF WindowInv, Opening, Admissions, Passed
  <2> QED BY <1>0, <1>1, <1>2, <1>3, <1>4, <1>6, <2>1, Constants DEF WindowInv
<1>7. CASE bucket.left > 1
  <2>1. /\ Opening' = Opening + 1 /\ Opening \in Ages /\ Opening' \in Ages /\ Opening' # 0
        /\ Opening' - 1 = Opening /\ Admissions' = Admissions
    <3>1. Opening' = WindowTicks - bucket'.left
      BY DEF Opening
    <3>2. Admissions' = Admissions
      BY <1>1 DEF Admissions
    <3>3. /\ bucket'.left = bucket.left - 1 /\ bucket.left \in Nat /\ bucket.left > 1
          /\ bucket.left <= WindowTicks /\ WindowTicks \in Nat
      BY <1>0, <1>1, <1>7, Constants
    <3>4. Opening \in Ages /\ Opening \in Nat /\ Opening + 1 \in Ages /\ Opening + 1 # 0
      BY <3>3 DEF Opening, Ages
    <3>5. Opening' = Opening + 1
      BY <3>1, <3>3 DEF Opening
    <3> QED BY <3>2, <3>4, <3>5
  <2>2. recent'[Opening'] = recent[Opening]
    BY <1>2, <2>1
  <2> QED BY <1>0, <1>1, <1>3, <1>4, <1>7, <2>1, <2>2, Constants DEF WindowInv
<1> QED BY <1>0, <1>5, <1>6, <1>7, Constants

LEMMA WindowStep == ASSUME Typed, WindowInv, [Next]_vars PROVE WindowInv'
<1>1. CASE UNCHANGED <<bucket, recent>>
  BY <1>1 DEF WindowInv, Passed, Opening, Admissions
<1> QED BY <1>1, ServeWindow, TickWindow DEF Next, vars, Load, SessionAnswered, Logout, StartLogin,
       ReturnFromProvider, Arrive, Fail, Quiet
--------------------------------------------------------------------------------
\* The inductive invariant: types, codes and windows.
THEOREM Invariance == Spec => []IInv
<1>1. IInv /\ [Next]_vars => IInv'
  BY TypeStep, CodesStep, WindowStep DEF IInv
<1> QED BY <1>1, InitInv, PTL DEF Spec

\* The state has its types; the CSRF cookie is that of the session cookie, and a page
\* is loading exactly while it asks for the session (SessionProvider, setLoginCookies).
THEOREM TypeCorrect == Spec => []TypeOK
<1>1. IInv => TypeOK
  BY DEF IInv, Typed
<1> QED BY <1>1, Invariance, PTL

\* However a page is loaded, mounted and loaded again, and whichever session request
\* fails, the code of a launch is sent at most once (LaunchPage).
THEOREM CodesAreSentOnce == Spec => []CodeSentOnce
<1>1. IInv => CodeSentOnce
  BY DEF IInv, CodesInv, CodeSentOnce
<1> QED BY <1>1, Invariance, PTL

\* For every limit and window: in any span of a window's length at most twice the
\* maximum pass, and nobody is refused before the maximum has passed
\* (BoundaryRateLimitGuard).
THEOREM RateIsLimited == Spec => []RateLimited
<1>1. IInv => RateLimited
  <2> SUFFICES ASSUME IInv PROVE RateLimited
    OBVIOUS
  <2>0. /\ recent \in [Ages -> Nat] /\ WindowInv
        /\ bucket.count \in 0 .. Maximum + 1 /\ bucket.left \in 0 .. WindowTicks
    BY CountedTypes DEF IInv, Typed, TypeOK
  <2>1. CASE bucket.left = 0
    BY <2>0, <2>1, Constants DEF WindowInv, RateLimited, Passed
  <2>2. CASE bucket.left > 0
    <3>1. Opening \in Ages /\ Opening <= WindowTicks - 1
      BY <2>0, <2>2, Constants DEF Opening, Ages
    <3>2. Admissions <= Maximum /\ (bucket.count >= Maximum => Admissions = Maximum) /\ Admissions \in Nat
      BY <2>0, Constants DEF Admissions
    <3>3. recent[Opening] <= Passed /\ Passed \in Nat
      BY <2>0, <3>1, Constants DEF WindowInv, Passed
    <3> QED BY <2>0, <2>2, <3>2, <3>3, Constants DEF WindowInv, RateLimited
  <2> QED BY <2>0, <2>1, <2>2
<1> QED BY <1>1, Invariance, PTL

================================================================================
