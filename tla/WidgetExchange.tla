---------------------------- MODULE WidgetExchange ----------------------------
(***************************************************************************)
(* WidgetAuthService.authorize() (src/backend/src/widgets): the exchange   *)
(* of a one-time handoff code for a widget session, made idempotent by a   *)
(* row of widget_auth_exchanges per idempotency key, leased for 60 s.      *)
(* Each request is a process that stops at every database or network       *)
(* await; a request refused without having written anything is a stutter.  *)
(* A key stands for a client id with an idempotency key (keyHash), a code  *)
(* for the request it is sent in (requestHash).                            *)
(***************************************************************************)
CONSTANTS
    Req,           \* requests, each used once; also the id of the session it creates
    Key, Code,
    SlowHandlers,  \* TRUE: a lease may end while the handler that holds it still runs
    None           \* no row, no response, no session

ASSUME NoneIsNew == None \notin Req \cup Code
ASSUME SlowHandlersIsBoolean == SlowHandlers \in BOOLEAN

\* response: the session whose answer is stored; holder: who claimed (history).
Row == [code: Code, response: Req \cup {None}, stale: BOOLEAN, holder: Req]
Request == [key: Key, code: Code, answer: Req \cup {None},
            pc: {"claim", "purge", "reread", "repurge", "exchange", "store", "cleanup",
                 "done", "refused", "failed", "crashed"}]

ASSUME NoneIsNoRow == None \notin Row

VARIABLES
    exchange,  \* table widget_auth_exchanges
    sessions,  \* table widget_refresh_sessions: the code each session came from
    spent,     \* handoff codes EduPlus has redeemed
    req,       \* the requests that have arrived
    aged       \* keys of which some lease has ended (history)

vars == <<exchange, sessions, spent, req, aged>>

Init ==
    /\ exchange = [k \in Key |-> None]
    /\ sessions = [r \in Req |-> None]
    /\ spent = {}
    /\ req = [r \in {} |-> {}]
    /\ aged = {}

At(r, pc) == r \in DOMAIN req /\ req[r].pc = pc
Ended(r) == req[r].pc \in {"done", "refused", "failed", "crashed"}
Goto(r, pc) == req' = [req EXCEPT ![r].pc = pc]
Answer(r, s) ==
    req' = [req EXCEPT ![r] = [key |-> @.key, code |-> @.code, answer |-> s, pc |-> "done"]]
Arrive(r, k, c, s, pc) ==
    /\ r \notin DOMAIN req
    /\ req' = [q \in DOMAIN req \cup {r} |->
                 IF q = r THEN [key |-> k, code |-> c, answer |-> s, pc |-> pc] ELSE req[q]]

--------------------------------------------------------------------------------
(* loadReplay(): what the row found under a key means for a code. *)

Expired(k, c) == exchange[k] # None /\ exchange[k].code = c /\ exchange[k].stale

BugReplayableAny(k, c) ==
    /\ exchange[k] # None /\ ~exchange[k].stale
    /\ exchange[k].response # None

BugReplayableBusy(k, c) ==
    /\ exchange[k] # None /\ exchange[k].code = c /\ ~exchange[k].stale
    /\ exchange[k].response # None => sessions[exchange[k].response] = c

\* The stored answer is sealed with the request it answers: another's does not open.
Replayable(k, c) ==
    /\ exchange[k] # None /\ exchange[k].code = c /\ ~exchange[k].stale
    /\ exchange[k].response # None
    /\ sessions[exchange[k].response] = c

\* The first read.  Any other row refuses the request: it is in progress, or the
\* key belongs to another request.
Begin(r) ==
    \E k \in Key, c \in Code :
        /\ \/ exchange[k] = None /\ Arrive(r, k, c, None, "claim")
           \/ Expired(k, c) /\ Arrive(r, k, c, None, "purge")
           \/ Replayable(k, c) /\ Arrive(r, k, c, exchange[k].response, "done")
        /\ UNCHANGED <<exchange, sessions, spent, aged>>

\* deleteMany({ where: { keyHash } }): whatever row is there by now.  In the second
\* loadReplay() the request is refused after it.
Purge(r) ==
    /\ At(r, "purge") \/ At(r, "repurge")
    /\ exchange' = [exchange EXCEPT ![req[r].key] = None]
    /\ Goto(r, IF req[r].pc = "purge" THEN "claim" ELSE "refused")
    /\ UNCHANGED <<sessions, spent, aged>>

--------------------------------------------------------------------------------
(* claimExchange() and the exchange. *)

\* loadCredential() finds no usable OAuth client.
NoCredential(r) ==
    /\ At(r, "claim")
    /\ Goto(r, "refused")
    /\ UNCHANGED <<exchange, sessions, spent, aged>>

BugClaimUpsert(r) ==
    /\ At(r, "claim")
    /\ exchange' = [exchange EXCEPT ![req[r].key] =
          [code |-> req[r].code, response |-> None, stale |-> FALSE, holder |-> r]]
    /\ Goto(r, "exchange")
    /\ UNCHANGED <<sessions, spent, aged>>

\* The insert succeeds for one request; the others (P2002) read again.
Claim(r) ==
    /\ At(r, "claim")
    /\ IF exchange[req[r].key] = None
       THEN /\ exchange' = [exchange EXCEPT ![req[r].key] =
                   [code |-> req[r].code, response |-> None, stale |-> FALSE, holder |-> r]]
            /\ Goto(r, "exchange")
       ELSE Goto(r, "reread") /\ UNCHANGED exchange
    /\ UNCHANGED <<sessions, spent, aged>>

Reread(r) ==
    /\ At(r, "reread")
    /\ LET k == req[r].key
           c == req[r].code
       IN \/ Expired(k, c) /\ Goto(r, "repurge")
          \/ Replayable(k, c) /\ Answer(r, exchange[k].response)
          \/ ~Expired(k, c) /\ ~Replayable(k, c) /\ Goto(r, "refused")
    /\ UNCHANGED <<exchange, sessions, spent, aged>>

\* EduPlus redeems a code once.  The answer may be lost, late (10 s) or incomplete;
\* the request may also fail before EduPlus sees it.
Exchange(r) ==
    /\ At(r, "exchange")
    /\ \/ /\ req[r].code \notin spent
          /\ spent' = spent \cup {req[r].code}
          /\ Goto(r, "store") \/ Goto(r, "cleanup")
       \/ Goto(r, "cleanup") /\ UNCHANGED spent
    /\ UNCHANGED <<exchange, sessions, aged>>

\* The transaction that creates the session and stores the answer; it fails when
\* there is no row to store it in.
Store(r) ==
    /\ At(r, "store")
    /\ exchange[req[r].key] # None
    /\ sessions' = [sessions EXCEPT ![r] = req[r].code]
    /\ exchange' = [exchange EXCEPT ![req[r].key].response = r]
    /\ Answer(r, r)
    /\ UNCHANGED <<spent, aged>>

BugAbandonReleases(r) ==
    /\ At(r, "store")
    /\ Goto(r, "cleanup")
    /\ UNCHANGED <<exchange, sessions, spent, aged>>

\* The token is refused or the transaction fails: the code is spent and the
\* reservation stays.
Abandon(r) ==
    /\ At(r, "store")
    /\ Goto(r, "failed")
    /\ UNCHANGED <<exchange, sessions, spent, aged>>

\* deleteMany({ where: { keyHash, responseCiphertext: null } }) after a failed exchange.
Cleanup(r) ==
    /\ At(r, "cleanup")
    /\ LET k == req[r].key
       IN exchange' = IF exchange[k] # None /\ exchange[k].response = None
                      THEN [exchange EXCEPT ![k] = None] ELSE exchange
    /\ Goto(r, "refused")
    /\ UNCHANGED <<sessions, spent, aged>>

\* 60 s after the claim.
Expire(k) ==
    /\ exchange[k] # None /\ ~exchange[k].stale
    /\ SlowHandlers \/ Ended(exchange[k].holder)
    /\ exchange' = [exchange EXCEPT ![k].stale = TRUE]
    /\ aged' = aged \cup {k}
    /\ UNCHANGED <<sessions, spent, req>>

\* The only backend process stops; the rows stay.
Crash ==
    /\ \E r \in DOMAIN req : ~Ended(r)
    /\ req' = [r \in DOMAIN req |->
                 IF Ended(r) THEN req[r] ELSE [req[r] EXCEPT !.pc = "crashed"]]
    /\ UNCHANGED <<exchange, sessions, spent, aged>>

Next ==
    \/ \E r \in Req :
        \/ Begin(r) \/ Purge(r) \/ NoCredential(r) \/ Claim(r) \/ Reread(r)
        \/ Exchange(r) \/ Store(r) \/ Abandon(r) \/ Cleanup(r)
    \/ \E k \in Key : Expire(k)
    \/ Crash

Spec == Init /\ [][Next]_vars

--------------------------------------------------------------------------------
(* Properties. *)

\* The rows and requests have their types, a request is answered exactly when it is
\* done, and only keys whose lease has ended hold stale rows or get purged.
TypeOK ==
    /\ exchange \in [Key -> Row \cup {None}]
    /\ sessions \in [Req -> Code \cup {None}]
    /\ spent \subseteq Code
    /\ DOMAIN req \subseteq Req
    /\ req \in [DOMAIN req -> Request]
    /\ aged \subseteq Key
    /\ \A r \in DOMAIN req : req[r].pc = "done" <=> req[r].answer # None
    /\ \A k \in Key : exchange[k] # None /\ exchange[k].stale => k \in aged
    /\ \A r \in DOMAIN req : req[r].pc \in {"purge", "repurge"} => req[r].key \in aged

\* authorize(): whatever was replayed, purged, claimed twice or stored into another
\* request's row, an answer names a session that its own handoff code was exchanged
\* for, and there is only one such session.
RepliesMatchRequest ==
    /\ \A r \in DOMAIN req : req[r].pc = "done" => sessions[req[r].answer] = req[r].code
    /\ \A r, s \in Req : sessions[r] # None /\ sessions[r] = sessions[s] => r = s

Holding(r, k) == req[r].key = k /\ req[r].pc \in {"exchange", "store", "cleanup"}

\* claimExchange(): until a lease of the key has ended, at most one request is past
\* its claim, and the row is its own, unanswered reservation.
ExclusiveWithinLease ==
    \A k \in Key \ aged : \A r \in DOMAIN req : Holding(r, k) =>
        /\ exchange[k] # None
        /\ exchange[k].holder = r
        /\ exchange[k].response = None

Kept(k) ==
    /\ exchange[k] # None
    /\ ~Holding(exchange[k].holder, k) \/ req[exchange[k].holder].pc = "store"

\* "keeps the durable reservation when the post-exchange database transaction fails":
\* until a lease of the key has ended, a reservation whose exchange has completed, and
\* one whose handler is gone, is neither released nor taken over.
ReservationKept ==
    [][\A k \in Key : k \notin aged' /\ Kept(k)
          => Kept(k)' /\ exchange'[k].holder = exchange[k].holder]_vars

\* "returns a completed idempotent replay without exchanging the one-time code again":
\* a stored answer would stay until its lease ends.  It fails: a request that read an
\* expired row deletes whatever row is there when its delete runs.
ReplayKeptUntilStale ==
    [][\A k \in Key :
          exchange[k] # None /\ exchange[k].response # None /\ ~exchange[k].stale
              => exchange'[k] # None /\ exchange'[k].response = exchange[k].response]_vars

================================================================================
