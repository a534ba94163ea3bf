----------------------------- MODULE WidgetRefresh -----------------------------
(***************************************************************************)
(* The refresh session of a widget: WidgetAuthService.refresh() with       *)
(* WidgetRefreshSessionService (src/backend/src/widgets).  A request       *)
(* trades the stored refresh token for new tokens at the identity provider *)
(* and then swaps them into the row, if the row still is what it loaded.   *)
(* Other requests, a revocation, the expiry or a crash may come between.   *)
(* Tokens are named by the request whose grant issued them.                *)
(***************************************************************************)
CONSTANTS
    Req,    \* requests, each used once
    First   \* the tokens the session was created with

ASSUME FirstIsNew == First \notin Req

Token == Req \cup {First}
\* presented: the access token the request carries; loaded: the refresh token it
\* sends to the provider; granted: the refresh token it got back.
Request == [presented: Token, loaded: Token, granted: Token,
            pc: {"grant", "rotate", "swap", "revoke", "done", "refused", "lost"}]

VARIABLES
    session,  \* the row of widget_refresh_sessions
    req,      \* the requests that have arrived and were not refused by their first read
    live,     \* refresh tokens the provider accepts
    rotates   \* whether the provider replaces refresh tokens when they are used

vars == <<session, req, live, rotates>>

Init ==
    /\ session = [access |-> First, refresh |-> First, revoked |-> FALSE, expired |-> FALSE]
    /\ req = [r \in {} |-> {}]
    /\ live = {First}
    /\ rotates \in BOOLEAN

At(r, pc) == r \in DOMAIN req /\ req[r].pc = pc
Goto(r, pc) == req' = [req EXCEPT ![r].pc = pc]
Arrive(r, pc) ==
    /\ r \notin DOMAIN req
    /\ req' = [q \in DOMAIN req \cup {r} |->
                 IF q = r THEN [presented |-> session.access, loaded |-> session.refresh,
                                granted |-> session.refresh, pc |-> pc]
                 ELSE req[q]]

\* assertUsable().
Usable == ~session.revoked /\ ~session.expired

\* load(): the row is usable and bound to the access token presented.
Load(r) ==
    /\ Usable
    /\ Arrive(r, "grant")
    /\ UNCHANGED <<session, live, rotates>>

\* The provider's answer to the refresh grant.  The request may fail without
\* reaching it, and the answer may be lost, incomplete or for another context.
Grant(r) ==
    /\ At(r, "grant")
    /\ \/ /\ req[r].loaded \in live
          /\ live' = IF rotates THEN (live \ {req[r].loaded}) \cup {r} ELSE live
          /\ \/ req' = [req EXCEPT ![r].pc = "rotate",
                                   ![r].granted = IF rotates THEN r ELSE @]
             \/ Goto(r, IF rotates THEN "lost" ELSE "refused")
       \/ Goto(r, "refused") /\ UNCHANGED live
    /\ UNCHANGED <<session, rotates>>

\* The read of rotate().
ReadForRotate(r) ==
    /\ At(r, "rotate")
    /\ Goto(r, IF Usable /\ session.access = req[r].presented THEN "swap" ELSE "refused")
    /\ UNCHANGED <<session, live, rotates>>

BugSwapsAnyToken(r) == Usable

BugSwapsRevoked(r) == session.access = req[r].presented /\ ~session.expired

\* The condition of rotate()'s updateMany.
Swaps(r) == session.access = req[r].presented /\ Usable

BugSwapKeepsRefresh(r) ==
    /\ At(r, "swap")
    /\ IF Swaps(r)
       THEN session' = [session EXCEPT !.access = r] /\ Goto(r, "done")
       ELSE Goto(r, "refused") /\ UNCHANGED session
    /\ UNCHANGED <<live, rotates>>

Swap(r) ==
    /\ At(r, "swap")
    /\ IF Swaps(r)
       THEN /\ session' = [session EXCEPT !.access = r, !.refresh = req[r].granted]
            /\ Goto(r, "done")
       ELSE Goto(r, "refused") /\ UNCHANGED session
    /\ UNCHANGED <<live, rotates>>

\* revoke(): a read and a conditional update.
ReadForRevoke(r) ==
    /\ Usable
    /\ Arrive(r, "revoke")
    /\ UNCHANGED <<session, live, rotates>>

Revoke(r) ==
    /\ At(r, "revoke")
    /\ IF session.revoked
       THEN Goto(r, "refused") /\ UNCHANGED session
       ELSE session' = [session EXCEPT !.revoked = TRUE] /\ Goto(r, "done")
    /\ UNCHANGED <<live, rotates>>

Expire ==
    /\ ~session.expired
    /\ session' = [session EXCEPT !.expired = TRUE]
    /\ UNCHANGED <<req, live, rotates>>

\* The only backend process stops; the tokens a request was granted are gone with it.
InProgress(r) == req[r].pc \in {"grant", "rotate", "swap", "revoke"}
Crash ==
    /\ \E r \in DOMAIN req : InProgress(r)
    /\ req' = [r \in DOMAIN req |->
                 IF ~InProgress(r) THEN req[r]
                 ELSE [req[r] EXCEPT !.pc = IF @ \in {"rotate", "swap"} THEN "lost" ELSE "refused"]]
    /\ UNCHANGED <<session, live, rotates>>

Next ==
    \/ \E r \in Req :
        \/ Load(r) \/ Grant(r) \/ ReadForRotate(r) \/ Swap(r)
        \/ ReadForRevoke(r) \/ Revoke(r)
    \/ Expire
    \/ Crash

Spec == Init /\ [][Next]_vars

--------------------------------------------------------------------------------
(* Properties. *)

\* The row and the requests have their types, and a refresh token is in the row
\* only with the access token that was granted together with it.
TypeOK ==
    /\ session \in [access: Token, refresh: Token, revoked: BOOLEAN, expired: BOOLEAN]
    /\ DOMAIN req \subseteq Req
    /\ req \in [DOMAIN req -> Request]
    /\ live \subseteq Token
    /\ rotates \in BOOLEAN
    /\ rotates => session.refresh = session.access
    /\ ~rotates => session.refresh = First

\* "a concurrent loser cannot overwrite the winner": the access token in the row is
\* only ever replaced by one granted to a request that presented it and sent the
\* refresh token stored with it.
LoserNeverOverwrites ==
    [][session'.access # session.access =>
          \E r \in DOMAIN req : /\ session'.access = r
                                /\ req[r].presented = session.access
                                /\ req[r].loaded = session.refresh]_vars

\* A session that was revoked or has expired keeps the tokens it had, whatever
\* refresh was in progress then; and it is not usable again.
UnusableStaysUnusable ==
    [][~Usable => ~Usable' /\ session'.access = session.access
                           /\ session'.refresh = session.refresh]_vars

\* Concurrent refreshes alone never strand a session: the refresh token in a usable
\* row is accepted by the provider, or a request in progress holds its replacement, or
\* a replacement was lost with a failed answer or a crash.
NotStranded ==
    Usable => \/ session.refresh \in live
              \/ \E r \in DOMAIN req :
                    /\ req[r].loaded = session.refresh
                    /\ req[r].pc \in {"rotate", "swap", "lost"}

================================================================================
