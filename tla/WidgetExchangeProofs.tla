------------------------- MODULE WidgetExchangeProofs -------------------------
(***************************************************************************)
(* What WidgetExchange guarantees for every set of requests, keys and      *)
(* codes, whether or not leases outlive their handlers.                    *)
(***************************************************************************)
EXTENDS WidgetExchange, TLAPS

\* Where a session comes from: a redeemed code, which one request at most carries
\* from the exchange to its store, and nobody once the session exists.
SessionInv ==
    /\ \A r \in Req : sessions[r] # None =>
          sessions[r] \in spent /\ r \in DOMAIN req /\ req[r].pc = "done"
    /\ \A r \in DOMAIN req : req[r].pc = "store" =>
          req[r].code \in spent /\ \A q \in Req : sessions[q] # req[r].code
    /\ \A r, s \in DOMAIN req :
          req[r].pc = "store" /\ req[s].pc = "store" /\ req[r].code = req[s].code => r = s

\* A row was claimed by a request with its key, which does not claim again.
PastClaim == {"exchange", "store", "cleanup", "done", "refused", "failed", "crashed"}
HolderInv ==
    \A k \in Key : exchange[k] # None =>
        /\ exchange[k].holder \in DOMAIN req
        /\ req[exchange[k].holder].key = k
        /\ req[exchange[k].holder].pc \in PastClaim

IInv == TypeOK /\ SessionInv /\ HolderInv /\ RepliesMatchRequest /\ ExclusiveWithinLease

--------------------------------------------------------------------------------
(* What the helpers do to the table of requests. *)

\* r arrives as x or becomes x.
Becomes(r, x) ==
    /\ DOMAIN req' = DOMAIN req \cup {r}
    /\ \A q \in DOMAIN req : q # r => req'[q] = req[q]
    /\ req'[r] = x
    /\ x \in Request
    /\ req' \in [DOMAIN req' -> Request]

PCs == {"claim", "purge", "reread", "repurge", "exchange", "store", "cleanup",
        "done", "refused", "failed", "crashed"}
Req4(k, c, s, pc) == [key |-> k, code |-> c, answer |-> s, pc |-> pc]
\* r goes on at pc.
Moved(r, pc) == Becomes(r, Req4(req[r].key, req[r].code, req[r].answer, pc))

LEMMA ArriveBecomes ==
    ASSUME TypeOK, NEW r \in Req, NEW k \in Key, NEW c \in Code, NEW s \in Req \cup {None},
           NEW pc \in PCs, Arrive(r, k, c, s, pc)
    PROVE  r \notin DOMAIN req /\ Becomes(r, Req4(k, c, s, pc))
<1>1. Req4(k, c, s, pc) \in Request
  BY DEF Request, PCs, Req4
<1>2. req \in [DOMAIN req -> Request]
  BY DEF TypeOK
<1> QED BY <1>1, <1>2 DEF Arrive, Becomes, Req4

LEMMA GotoMoves ==
    ASSUME TypeOK, NEW r \in DOMAIN req, NEW pc \in PCs, Goto(r, pc)
    PROVE  Moved(r, pc)
<1>1. req \in [DOMAIN req -> Request] /\ req[r] \in Request
  BY DEF TypeOK
<1>2. req' = [req EXCEPT ![r] = [req[r] EXCEPT !.pc = pc]]
  BY DEF Goto
<1>3. [req[r] EXCEPT !.pc = pc] = Req4(req[r].key, req[r].code, req[r].answer, pc)
  BY <1>1 DEF Request, Req4
<1>4. Req4(req[r].key, req[r].code, req[r].answer, pc) \in Request
  BY <1>1 DEF Request, PCs, Req4
<1> QED BY <1>1, <1>2, <1>3, <1>4 DEF Moved, Becomes

LEMMA AnswerBecomes ==
    ASSUME TypeOK, NEW r \in DOMAIN req, NEW s \in Req, Answer(r, s)
    PROVE  Becomes(r, Req4(req[r].key, req[r].code, s, "done"))
<1>1. req \in [DOMAIN req -> Request] /\ req[r] \in Request
  BY DEF TypeOK
<1>2. Req4(req[r].key, req[r].code, s, "done") \in Request
  BY <1>1 DEF Request, Req4
<1>3. req' = [req EXCEPT ![r] = Req4(req[r].key, req[r].code, s, "done")]
  BY DEF Answer, Req4
<1> QED BY <1>1, <1>2, <1>3 DEF Becomes

--------------------------------------------------------------------------------
(* What a change of one request needs to preserve the parts of IInv. *)

LEMMA RequestTypes ==
    ASSUME TypeOK, NEW r \in Req, NEW x, Becomes(r, x),
           x.pc = "done" <=> x.answer # None,
           x.pc \in {"purge", "repurge"} => x.key \in aged,
           exchange' \in [Key -> Row \cup {None}],
           sessions' \in [Req -> Code \cup {None}],
           spent' \subseteq Code, UNCHANGED aged,
           \A k \in Key : exchange'[k] # None /\ exchange'[k].stale => k \in aged
    PROVE  TypeOK'
<1>1. DOMAIN req' \subseteq Req /\ req' \in [DOMAIN req' -> Request]
  BY DEF Becomes, TypeOK
<1>2. \A q \in DOMAIN req' : req'[q].pc = "done" <=> req'[q].answer # None
  BY DEF Becomes, TypeOK
<1>3. \A q \in DOMAIN req' : req'[q].pc \in {"purge", "repurge"} => req'[q].key \in aged
  BY DEF Becomes, TypeOK
<1> QED BY <1>1, <1>2, <1>3 DEF TypeOK

LEMMA SessionsKept ==
    ASSUME IInv, NEW r \in Req, NEW x, Becomes(r, x), UNCHANGED <<sessions, spent>>,
           r \in DOMAIN req => req[r].pc # "done",
           x.pc # "store",
           x.pc = "done" => sessions[x.answer] = x.code
    PROVE  SessionInv' /\ RepliesMatchRequest'
<1>1. SessionInv'
  BY DEF IInv, SessionInv, Becomes
<1>2. RepliesMatchRequest'
  BY DEF IInv, RepliesMatchRequest, Becomes
<1> QED BY <1>1, <1>2

Holds(x) == x.pc \in {"exchange", "store", "cleanup"}

LEMMA RowsKept ==
    ASSUME IInv, NEW r \in Req, NEW x, Becomes(r, x), UNCHANGED <<exchange, aged>>,
           r \in DOMAIN req => /\ x.key = req[r].key
                               /\ req[r].pc \in PastClaim => x.pc \in PastClaim,
           Holds(x) => r \in DOMAIN req /\ Holds(req[r])
    PROVE  HolderInv' /\ ExclusiveWithinLease'
<1>1. HolderInv'
  BY DEF IInv, HolderInv, Becomes
<1>2. ExclusiveWithinLease'
  BY DEF IInv, ExclusiveWithinLease, Holding, Holds, Becomes
<1> QED BY <1>1, <1>2

--------------------------------------------------------------------------------
LEMMA InitInv == Init => IInv
  BY NoneIsNew DEF Init, IInv, TypeOK, SessionInv, HolderInv, RepliesMatchRequest, ExclusiveWithinLease

\* The steps that change nothing but the request's statement.
LEMMA QuietMove ==
    ASSUME IInv, NEW r \in Req, r \in DOMAIN req, NEW pc \in PCs, Goto(r, pc),
           UNCHANGED <<exchange, sessions, aged>>, spent' = spent,
           req[r].pc # "done", pc \notin {"done", "store"},
           pc \in {"purge", "repurge"} => req[r].key \in aged,
           req[r].pc \in PastClaim => pc \in PastClaim,
           pc \in {"exchange", "cleanup"} => Holds(req[r])
    PROVE  IInv'
<1> DEFINE x == Req4(req[r].key, req[r].code, req[r].answer, pc)
<1>1. Becomes(r, x)
  BY GotoMoves DEF IInv, Moved
<1>2. x.key = req[r].key /\ x.pc = pc /\ x.answer = req[r].answer
  BY DEF Req4
<1>3. req[r].answer = None
  BY DEF IInv, TypeOK
<1> HIDE DEF x
<1>4. TypeOK'
  BY <1>1, <1>2, <1>3, RequestTypes DEF IInv, TypeOK
<1>5. SessionInv' /\ RepliesMatchRequest'
  BY <1>1, <1>2, SessionsKept
<1>6. HolderInv' /\ ExclusiveWithinLease'
  BY <1>1, <1>2, RowsKept DEF Holds
<1> QED BY <1>4, <1>5, <1>6 DEF IInv

LEMMA BeginPreserves ==
    ASSUME IInv, NEW r \in Req, Begin(r)
    PROVE  IInv'
<1>1. PICK k \in Key, c \in Code :
         \/ exchange[k] = None /\ Arrive(r, k, c, None, "claim")
         \/ Expired(k, c) /\ Arrive(r, k, c, None, "purge")
         \/ Replayable(k, c) /\ Arrive(r, k, c, exchange[k].response, "done")
  BY DEF Begin
<1>2. UNCHANGED <<exchange, sessions, spent, aged>>
  BY DEF Begin
<1>3. ASSUME NEW s \in Req \cup {None}, NEW pc \in {"claim", "purge", "done"},
             Arrive(r, k, c, s, pc), pc = "done" <=> s # None,
             pc = "purge" => k \in aged, pc = "done" => sessions[s] = c
      PROVE  IInv'
  <2> DEFINE x == Req4(k, c, s, pc)
  <2>1. r \notin DOMAIN req /\ Becomes(r, x)
    BY <1>3, ArriveBecomes DEF IInv, PCs
  <2>2. x.key = k /\ x.code = c /\ x.answer = s /\ x.pc = pc
    BY DEF Req4
  <2> HIDE DEF x
  <2>3. TypeOK'
    BY <1>2, <1>3, <2>1, <2>2, RequestTypes DEF IInv, TypeOK
  <2>4. SessionInv' /\ RepliesMatchRequest'
    BY <1>2, <1>3, <2>1, <2>2, SessionsKept
  <2>5. HolderInv' /\ ExclusiveWithinLease'
    BY <1>2, <1>3, <2>1, <2>2, RowsKept DEF Holds
  <2> QED BY <2>3, <2>4, <2>5 DEF IInv
<1>4. CASE exchange[k] = None /\ Arrive(r, k, c, None, "claim")
  BY <1>3, <1>4
<1>5. CASE Expired(k, c) /\ Arrive(r, k, c, None, "purge")
  BY <1>3, <1>5 DEF Expired, IInv, TypeOK
<1>6. CASE Replayable(k, c) /\ Arrive(r, k, c, exchange[k].response, "done")
  <2>1. exchange[k].response \in Req
    BY <1>6 DEF Replayable, IInv, TypeOK, Row
  <2> QED BY <1>3, <1>6, <2>1, NoneIsNew DEF Replayable
<1> QED BY <1>1, <1>4, <1>5, <1>6

LEMMA PurgePreserves ==
    ASSUME IInv, NEW r \in Req, Purge(r)
    PROVE  IInv'
<1> DEFINE pc == IF req[r].pc = "purge" THEN "claim" ELSE "refused"
           x == Req4(req[r].key, req[r].code, req[r].answer, pc)
<1>1. /\ r \in DOMAIN req /\ req[r].pc \in {"purge", "repurge"} /\ req[r] \in Request
      /\ req[r].key \in aged /\ req[r].key \in Key
  BY DEF Purge, At, IInv, TypeOK, Request
<1>2. pc \in PCs
  BY DEF PCs
<1>3. Becomes(r, x)
  BY <1>1, <1>2, GotoMoves DEF IInv, Moved, Purge
<1>4. x.key = req[r].key /\ x.pc = pc /\ x.answer = req[r].answer
  BY DEF Req4
<1> HIDE DEF x
<1>5. /\ exchange' = [exchange EXCEPT ![req[r].key] = None]
      /\ UNCHANGED <<sessions, spent, aged>>
  BY DEF Purge
<1>6. exchange' \in [Key -> Row \cup {None}]
  BY <1>5 DEF IInv, TypeOK
<1>7. \A k \in Key : exchange'[k] = None \/ (k # req[r].key /\ exchange'[k] = exchange[k])
  BY <1>5, <1>6 DEF IInv, TypeOK
<1>8. req[r].answer = None
  BY <1>1 DEF IInv, TypeOK
<1>9. TypeOK'
  BY <1>3, <1>4, <1>5, <1>6, <1>7, <1>8, RequestTypes DEF IInv, TypeOK
<1>10. SessionInv' /\ RepliesMatchRequest'
  BY <1>1, <1>3, <1>4, <1>5, SessionsKept
<1>11. HolderInv'
  BY <1>1, <1>3, <1>7 DEF IInv, HolderInv, Becomes, PastClaim
<1>12. ExclusiveWithinLease'
  BY <1>1, <1>3, <1>4, <1>5, <1>6, <1>7 DEF IInv, TypeOK, ExclusiveWithinLease, Holding, Becomes
<1> QED BY <1>9, <1>10, <1>11, <1>12 DEF IInv

LEMMA ClaimPreserves ==
    ASSUME IInv, NEW r \in Req, Claim(r)
    PROVE  IInv'
<1>1. /\ r \in DOMAIN req /\ req[r].pc = "claim" /\ req[r] \in Request
      /\ req[r].key \in Key /\ req[r].code \in Code /\ req[r].answer = None
      /\ UNCHANGED <<sessions, spent, aged>>
  BY DEF Claim, At, IInv, TypeOK, Request
<1>2. CASE exchange[req[r].key] # None
  BY <1>1, <1>2, QuietMove DEF Claim, PCs, PastClaim
<1>3. CASE exchange[req[r].key] = None
  <2> DEFINE x == Req4(req[r].key, req[r].code, req[r].answer, "exchange")
             row == [code |-> req[r].code, response |-> None, stale |-> FALSE, holder |-> r]
  <2>1. Becomes(r, x)
    BY <1>1, <1>3, GotoMoves DEF IInv, Moved, Claim, PCs
  <2>2. x.key = req[r].key /\ x.pc = "exchange" /\ x.answer = None
    BY <1>1 DEF Req4
  <2>3. row \in Row /\ row.holder = r /\ row.response = None /\ ~row.stale /\ row # None
    <3>1. row \in Row
      BY <1>1 DEF Row
    <3> QED BY <3>1, NoneIsNoRow
  <2>4. exchange' = [exchange EXCEPT ![req[r].key] = row]
    BY <1>3 DEF Claim
  <2> HIDE DEF x, row
  <2>5. /\ exchange' \in [Key -> Row \cup {None}]
        /\ \A k \in Key : k # req[r].key => exchange'[k] = exchange[k]
        /\ exchange'[req[r].key] = row
    BY <1>1, <2>3, <2>4 DEF IInv, TypeOK
  <2>6. TypeOK'
    <3>1. \A k \in Key : exchange'[k] # None /\ exchange'[k].stale => k \in aged
      BY <2>3, <2>5 DEF IInv, TypeOK
    <3> QED BY <1>1, <2>1, <2>2, <2>5, <3>1, RequestTypes DEF IInv, TypeOK
  <2>7. SessionInv' /\ RepliesMatchRequest'
    BY <1>1, <2>1, <2>2, SessionsKept
  <2>8. HolderInv'
    BY <1>1, <2>1, <2>2, <2>3, <2>5 DEF IInv, HolderInv, Becomes, PastClaim
  <2>9. ExclusiveWithinLease'
    <3> SUFFICES ASSUME NEW k \in Key, k \notin aged, NEW q \in DOMAIN req', Holding(q, k)'
                 PROVE  /\ exchange'[k] # None
                        /\ exchange'[k].holder = q
                        /\ exchange'[k].response = None
      BY <1>1 DEF ExclusiveWithinLease
    <3>1. CASE q = r
      BY <2>1, <2>2, <2>3, <2>5, <3>1 DEF Becomes, Holding
    <3>2. CASE q # r
      <4>1. q \in DOMAIN req /\ Holding(q, k)
        BY <2>1, <3>2 DEF Becomes, Holding
      <4>2. k # req[r].key
        BY <1>3, <4>1 DEF IInv, ExclusiveWithinLease
      <4> QED BY <2>5, <4>1, <4>2 DEF IInv, ExclusiveWithinLease
    <3> QED BY <3>1, <3>2
  <2> QED BY <2>6, <2>7, <2>8, <2>9 DEF IInv
<1> QED BY <1>2, <1>3

\* A request that replays what another has stored, or gives up.
LEMMA RereadPreserves ==
    ASSUME IInv, NEW r \in Req, Reread(r)
    PROVE  IInv'
<1> DEFINE k == req[r].key
           c == req[r].code
<1>1. /\ r \in DOMAIN req /\ req[r].pc = "reread" /\ k \in Key /\ c \in Code
      /\ UNCHANGED <<exchange, sessions, spent, aged>>
  BY DEF Reread, At, IInv, TypeOK, Request
<1>2. CASE Expired(k, c) /\ Goto(r, "repurge")
  <2>1. k \in aged
    BY <1>1, <1>2 DEF Expired, IInv, TypeOK
  <2> QED BY <1>1, <1>2, <2>1, QuietMove DEF PCs, PastClaim
<1>3. CASE Goto(r, "refused")
  BY <1>1, <1>3, QuietMove DEF PCs, PastClaim
<1>4. CASE Replayable(k, c) /\ Answer(r, exchange[k].response)
  <2> DEFINE x == Req4(k, c, exchange[k].response, "done")
  <2>1. exchange[k].response \in Req /\ sessions[exchange[k].response] = c
    BY <1>1, <1>4 DEF Replayable, IInv, TypeOK, Row
  <2>2. Becomes(r, x)
    BY <1>1, <1>4, <2>1, AnswerBecomes DEF IInv
  <2>3. x.key = k /\ x.code = c /\ x.answer = exchange[k].response /\ x.pc = "done"
    BY DEF Req4
  <2> HIDE DEF x
  <2>4. TypeOK'
    BY <1>1, <2>1, <2>2, <2>3, RequestTypes, NoneIsNew DEF IInv, TypeOK
  <2>5. SessionInv' /\ RepliesMatchRequest'
    BY <1>1, <2>1, <2>2, <2>3, SessionsKept
  <2>6. HolderInv' /\ ExclusiveWithinLease'
    BY <1>1, <2>2, <2>3, RowsKept DEF Holds, PastClaim
  <2> QED BY <2>4, <2>5, <2>6 DEF IInv
<1> QED BY <1>2, <1>3, <1>4 DEF Reread

\* The redemption itself: the code is new, so nobody else carries it.
LEMMA ExchangePreserves ==
    ASSUME IInv, NEW r \in Req, Exchange(r)
    PROVE  IInv'
<1>1. /\ r \in DOMAIN req /\ req[r].pc = "exchange" /\ req[r] \in Request
      /\ req[r].key \in Key /\ req[r].code \in Code /\ req[r].answer = None
      /\ UNCHANGED <<exchange, sessions, aged>>
  BY DEF Exchange, At, IInv, TypeOK, Request
<1>2. PICK pc \in {"store", "cleanup"} :
         /\ Goto(r, pc)
         /\ \/ req[r].code \notin spent /\ spent' = spent \cup {req[r].code}
            \/ pc = "cleanup" /\ UNCHANGED spent
  BY DEF Exchange
<1> DEFINE x == Req4(req[r].key, req[r].code, req[r].answer, pc)
<1>3. Becomes(r, x)
  BY <1>1, <1>2, GotoMoves DEF IInv, Moved, PCs
<1>4. x.key = req[r].key /\ x.code = req[r].code /\ x.pc = pc /\ x.answer = None
  BY <1>1 DEF Req4
<1> HIDE DEF x
<1>5. spent \subseteq spent' /\ spent' \subseteq Code
  BY <1>1, <1>2 DEF IInv, TypeOK
<1>6. TypeOK'
  BY <1>1, <1>3, <1>4, <1>5, RequestTypes DEF IInv, TypeOK
<1>7. SessionInv'
  <2>1. \A q \in Req : sessions[q] # None =>
           sessions[q] \in spent' /\ q \in DOMAIN req' /\ req'[q].pc = "done"
    BY <1>1, <1>3, <1>5 DEF IInv, SessionInv, Becomes
  <2>2. \A q \in DOMAIN req' : req'[q].pc = "store" =>
           req'[q].code \in spent' /\ \A s \in Req : sessions[s] # req'[q].code
    <3>1. pc = "store" => req[r].code \in spent' /\ \A s \in Req : sessions[s] # req[r].code
      BY <1>1, <1>2, NoneIsNew DEF IInv, SessionInv
    <3> QED BY <1>3, <1>4, <1>5, <3>1 DEF IInv, SessionInv, Becomes
  <2>3. ASSUME NEW q \in DOMAIN req, q # r, req[q].pc = "store", pc = "store"
        PROVE  req[q].code # req[r].code
    BY <1>2, <2>3 DEF IInv, SessionInv
  <2>4. \A q, s \in DOMAIN req' :
           req'[q].pc = "store" /\ req'[s].pc = "store" /\ req'[q].code = req'[s].code => q = s
    BY <1>3, <1>4, <2>3 DEF IInv, SessionInv, Becomes
  <2> QED BY <1>1, <2>1, <2>2, <2>4 DEF SessionInv
<1>8. RepliesMatchRequest'
  BY <1>1, <1>3, <1>4 DEF IInv, RepliesMatchRequest, Becomes
<1>9. HolderInv' /\ ExclusiveWithinLease'
  BY <1>1, <1>3, <1>4, RowsKept DEF Holds, PastClaim
<1> QED BY <1>6, <1>7, <1>8, <1>9 DEF IInv

\* The session of a code is created once.
LEMMA StorePreserves ==
    ASSUME IInv, NEW r \in Req, Store(r)
    PROVE  IInv'
<1> DEFINE x == Req4(req[r].key, req[r].code, r, "done")
           row == [exchange[req[r].key] EXCEPT !.response = r]
<1>1. /\ r \in DOMAIN req /\ req[r].pc = "store" /\ req[r] \in Request
      /\ req[r].key \in Key /\ req[r].code \in Code
      /\ exchange[req[r].key] \in Row /\ UNCHANGED <<spent, aged>>
  BY DEF Store, At, IInv, TypeOK, Request
<1>2. Becomes(r, x)
  BY <1>1, AnswerBecomes DEF IInv, Store
<1>3. x.key = req[r].key /\ x.code = req[r].code /\ x.pc = "done" /\ x.answer = r
  BY DEF Req4
<1>4. /\ row \in Row /\ row # None
      /\ row.stale = exchange[req[r].key].stale
      /\ row.holder = exchange[req[r].key].holder
  <2>1. row \in Row /\ row.stale = exchange[req[r].key].stale
        /\ row.holder = exchange[req[r].key].holder
    BY <1>1 DEF Row
  <2> QED BY <2>1, NoneIsNoRow
<1>5. exchange' = [exchange EXCEPT ![req[r].key] = row]
  BY DEF Store
<1> HIDE DEF x, row
<1>6. /\ exchange' \in [Key -> Row \cup {None}]
      /\ exchange'[req[r].key] = row
      /\ \A k \in Key : k # req[r].key => exchange'[k] = exchange[k]
  BY <1>1, <1>4, <1>5 DEF IInv, TypeOK
<1>7. /\ sessions' \in [Req -> Code \cup {None}] /\ sessions'[r] = req[r].code
      /\ \A q \in Req : q # r => sessions'[q] = sessions[q]
  BY <1>1 DEF Store, IInv, TypeOK
<1>8. req[r].code \in spent /\ sessions[r] = None
      /\ \A q \in Req : sessions[q] # req[r].code
  BY <1>1 DEF IInv, SessionInv
<1>9. TypeOK'
  <2>1. \A k \in Key : exchange'[k] # None /\ exchange'[k].stale => k \in aged
    BY <1>1, <1>4, <1>6, NoneIsNoRow DEF IInv, TypeOK
  <2> QED BY <1>1, <1>2, <1>3, <1>6, <1>7, <2>1, RequestTypes, NoneIsNew DEF IInv, TypeOK
<1>10. SessionInv'
  <2>1. \A q \in Req : sessions'[q] # None =>
           sessions'[q] \in spent' /\ q \in DOMAIN req' /\ req'[q].pc = "done"
    BY <1>1, <1>2, <1>3, <1>7, <1>8 DEF IInv, SessionInv, Becomes
  <2>2. \A q \in DOMAIN req' : req'[q].pc = "store" =>
           req'[q].code \in spent' /\ \A s \in Req : sessions'[s] # req'[q].code
    <3> SUFFICES ASSUME NEW q \in DOMAIN req', req'[q].pc = "store"
                 PROVE  req'[q].code \in spent /\ \A s \in Req : sessions'[s] # req'[q].code
      BY <1>1
    <3>1. q # r /\ q \in DOMAIN req /\ req'[q] = req[q]
      BY <1>2, <1>3 DEF Becomes
    <3>2. req[q].code # req[r].code
      BY <1>1, <3>1 DEF IInv, SessionInv
    <3> QED BY <1>7, <3>1, <3>2 DEF IInv, SessionInv
  <2>3. \A q, s \in DOMAIN req' :
           req'[q].pc = "store" /\ req'[s].pc = "store" /\ req'[q].code = req'[s].code => q = s
    BY <1>2, <1>3 DEF IInv, SessionInv, Becomes
  <2> QED BY <2>1, <2>2, <2>3 DEF SessionInv
<1>11. RepliesMatchRequest'
  <2>1. \A q \in DOMAIN req' : req'[q].pc = "done" => sessions'[req'[q].answer] = req'[q].code
    <3> SUFFICES ASSUME NEW q \in DOMAIN req', req'[q].pc = "done"
                 PROVE  sessions'[req'[q].answer] = req'[q].code
      OBVIOUS
    <3>1. CASE q = r
      BY <1>2, <1>3, <1>7, <3>1 DEF Becomes
    <3>2. CASE q # r
      <4>1. q \in DOMAIN req /\ req'[q] = req[q]
        BY <1>2, <3>2 DEF Becomes
      <4>2. req[q].code \in Code /\ req[q].answer \in Req
        BY <4>1 DEF IInv, TypeOK, Request
      <4>3. req[q].answer # r
        BY <1>8, <4>1, <4>2, NoneIsNew DEF IInv, RepliesMatchRequest
      <4> QED BY <1>7, <4>1, <4>2, <4>3 DEF IInv, RepliesMatchRequest
    <3> QED BY <3>1, <3>2
  <2>2. \A q, s \in Req : sessions'[q] # None /\ sessions'[q] = sessions'[s] => q = s
    BY <1>7, <1>8 DEF IInv, RepliesMatchRequest
  <2> QED BY <2>1, <2>2 DEF RepliesMatchRequest
<1>12. HolderInv'
  BY <1>1, <1>2, <1>3, <1>4, <1>6, NoneIsNoRow DEF IInv, HolderInv, Becomes, PastClaim
<1>13. ExclusiveWithinLease'
  <2> SUFFICES ASSUME NEW k \in Key, k \notin aged, NEW q \in DOMAIN req', Holding(q, k)'
               PROVE  /\ exchange'[k] # None
                      /\ exchange'[k].holder = q
                      /\ exchange'[k].response = None
    BY <1>1 DEF ExclusiveWithinLease
  <2>1. q # r /\ q \in DOMAIN req /\ Holding(q, k)
    BY <1>2, <1>3 DEF Becomes, Holding
  <2>2. k # req[r].key
    BY <1>1, <2>1 DEF IInv, ExclusiveWithinLease, Holding
  <2> QED BY <1>6, <2>1, <2>2 DEF IInv, ExclusiveWithinLease
<1> QED BY <1>9, <1>10, <1>11, <1>12, <1>13 DEF IInv

LEMMA CleanupPreserves ==
    ASSUME IInv, NEW r \in Req, Cleanup(r)
    PROVE  IInv'
<1> DEFINE x == Req4(req[r].key, req[r].code, req[r].answer, "refused")
<1>1. /\ r \in DOMAIN req /\ req[r].pc = "cleanup" /\ req[r] \in Request
      /\ req[r].key \in Key /\ req[r].answer = None
      /\ UNCHANGED <<sessions, spent, aged>>
  BY DEF Cleanup, At, IInv, TypeOK, Request
<1>2. Becomes(r, x)
  BY <1>1, GotoMoves DEF IInv, Moved, Cleanup, PCs
<1>3. x.key = req[r].key /\ x.pc = "refused" /\ x.answer = None
  BY <1>1 DEF Req4
<1> HIDE DEF x
<1>4. /\ exchange' \in [Key -> Row \cup {None}]
      /\ \A k \in Key : exchange'[k] = exchange[k] \/ (k = req[r].key /\ exchange'[k] = None)
  BY <1>1 DEF Cleanup, IInv, TypeOK
<1>5. TypeOK'
  <2>1. \A k \in Key : exchange'[k] # None /\ exchange'[k].stale => k \in aged
    BY <1>4 DEF IInv, TypeOK
  <2> QED BY <1>1, <1>2, <1>3, <1>4, <2>1, RequestTypes DEF IInv, TypeOK
<1>6. SessionInv' /\ RepliesMatchRequest'
  BY <1>1, <1>2, <1>3, SessionsKept
<1>7. HolderInv'
  BY <1>1, <1>2, <1>3, <1>4 DEF IInv, HolderInv, Becomes, PastClaim
<1>8. ExclusiveWithinLease'
  <2> SUFFICES ASSUME NEW k \in Key, k \notin aged, NEW q \in DOMAIN req', Holding(q, k)'
               PROVE  /\ exchange'[k] # None
                      /\ exchange'[k].holder = q
                      /\ exchange'[k].response = None
    BY <1>1 DEF ExclusiveWithinLease
  <2>1. q # r /\ q \in DOMAIN req /\ Holding(q, k)
    BY <1>2, <1>3 DEF Becomes, Holding
  <2>2. k # req[r].key
    BY <1>1, <2>1 DEF IInv, ExclusiveWithinLease, Holding
  <2> QED BY <1>4, <2>1, <2>2 DEF IInv, ExclusiveWithinLease
<1> QED BY <1>5, <1>6, <1>7, <1>8 DEF IInv

LEMMA ExpirePreserves ==
    ASSUME IInv, NEW j \in Key, Expire(j)
    PROVE  IInv'
<1> DEFINE row == [exchange[j] EXCEPT !.stale = TRUE]
<1>1. exchange[j] \in Row /\ UNCHANGED <<sessions, spent, req>> /\ aged' = aged \cup {j}
  BY DEF Expire, IInv, TypeOK
<1>2. row \in Row /\ row.holder = exchange[j].holder /\ row # None
  <2>1. row \in Row /\ row.holder = exchange[j].holder
    BY <1>1 DEF Row
  <2> QED BY <2>1, NoneIsNoRow
<1>3. exchange' = [exchange EXCEPT ![j] = row]
  BY DEF Expire
<1> HIDE DEF row
<1>4. /\ exchange' \in [Key -> Row \cup {None}] /\ exchange'[j] = row
      /\ \A k \in Key : k # j => exchange'[k] = exchange[k]
  BY <1>2, <1>3 DEF IInv, TypeOK
<1>5. TypeOK'
  BY <1>1, <1>4 DEF IInv, TypeOK
<1>6. SessionInv' /\ RepliesMatchRequest'
  BY <1>1 DEF IInv, SessionInv, RepliesMatchRequest
<1>7. HolderInv'
  BY <1>1, <1>2, <1>4, NoneIsNoRow DEF IInv, HolderInv
<1>8. ExclusiveWithinLease'
  BY <1>1, <1>4 DEF IInv, ExclusiveWithinLease, Holding
<1> QED BY <1>5, <1>6, <1>7, <1>8 DEF IInv

LEMMA CrashPreserves ==
    ASSUME IInv, Crash
    PROVE  IInv'
<1>1. UNCHANGED <<exchange, sessions, spent, aged>>
  BY DEF Crash
<1>2. /\ DOMAIN req' = DOMAIN req /\ req' \in [DOMAIN req' -> Request]
      /\ \A q \in DOMAIN req : /\ req'[q].key = req[q].key
                               /\ req'[q].code = req[q].code
                               /\ req'[q].answer = req[q].answer
                               /\ req'[q].pc = (IF Ended(q) THEN req[q].pc ELSE "crashed")
  <2>1. req \in [DOMAIN req -> Request]
    BY DEF IInv, TypeOK
  <2>2. req' = [r \in DOMAIN req |->
                  IF Ended(r) THEN req[r] ELSE [req[r] EXCEPT !.pc = "crashed"]]
    BY DEF Crash
  <2>3. ASSUME NEW q \in DOMAIN req
        PROVE  /\ req'[q] \in Request
               /\ req'[q].key = req[q].key
               /\ req'[q].code = req[q].code
               /\ req'[q].answer = req[q].answer
               /\ req'[q].pc = (IF Ended(q) THEN req[q].pc ELSE "crashed")
    <3>1. req[q] \in Request
      BY <2>1
    <3> QED BY <2>2, <3>1 DEF Request
  <2> QED BY <2>2, <2>3
<1>3. \A q \in DOMAIN req : /\ req'[q].pc = "done" <=> req[q].pc = "done"
                            /\ req'[q].pc \notin {"purge", "repurge", "exchange", "store", "cleanup"}
                            /\ req[q].pc \in PastClaim => req'[q].pc \in PastClaim
  BY <1>2 DEF Ended, PastClaim
<1>4. TypeOK'
  <2>1. \A q \in DOMAIN req' : req'[q].pc = "done" <=> req'[q].answer # None
    BY <1>2, <1>3 DEF IInv, TypeOK
  <2> QED BY <1>1, <1>2, <1>3, <2>1 DEF IInv, TypeOK
<1>5. SessionInv'
  BY <1>1, <1>2, <1>3 DEF IInv, SessionInv
<1>6. RepliesMatchRequest'
  BY <1>1, <1>2, <1>3 DEF IInv, RepliesMatchRequest
<1>7. HolderInv' /\ ExclusiveWithinLease'
  BY <1>1, <1>2, <1>3 DEF IInv, HolderInv, ExclusiveWithinLease, Holding
<1> QED BY <1>4, <1>5, <1>6, <1>7 DEF IInv

--------------------------------------------------------------------------------
LEMMA StepInv == IInv /\ [Next]_vars => IInv'
<1> SUFFICES ASSUME IInv, [Next]_vars PROVE IInv'
  OBVIOUS
<1>1. CASE UNCHANGED vars
  BY <1>1 DEF vars, IInv, TypeOK, SessionInv, HolderInv, RepliesMatchRequest,
     ExclusiveWithinLease, Holding
<1>2. ASSUME NEW r \in Req, NoCredential(r) PROVE IInv'
  <2>1. r \in DOMAIN req /\ req[r].pc = "claim" /\ Goto(r, "refused")
        /\ UNCHANGED <<exchange, sessions, aged>> /\ spent' = spent
    BY <1>2 DEF NoCredential, At
  <2> QED BY <2>1, QuietMove DEF PCs, PastClaim
<1>3. ASSUME NEW r \in Req, Abandon(r) PROVE IInv'
  <2>1. r \in DOMAIN req /\ req[r].pc = "store" /\ Goto(r, "failed")
        /\ UNCHANGED <<exchange, sessions, aged>> /\ spent' = spent
    BY <1>3 DEF Abandon, At
  <2> QED BY <2>1, QuietMove DEF PCs, PastClaim
<1> QED
  BY <1>1, <1>2, <1>3, BeginPreserves, PurgePreserves, ClaimPreserves, RereadPreserves,
     ExchangePreserves, StorePreserves, CleanupPreserves, ExpirePreserves, CrashPreserves DEF Next

\* The inductive invariant: which request carries which redeemed code, and which
\* claimed which row.
THEOREM Invariance == Spec => []IInv
  BY InitInv, StepInv, PTL DEF Spec

\* The tables and requests of authorize() have their types.
THEOREM TypeCorrect == Spec => []TypeOK
<1>1. IInv => TypeOK
  BY DEF IInv
<1> QED BY <1>1, Invariance, PTL

\* authorize(): an answer names the one session that the request's own code was
\* exchanged for, whatever other requests purged, claimed or stored in between.
THEOREM RepliesAlwaysMatch == Spec => []RepliesMatchRequest
<1>1. IInv => RepliesMatchRequest
  BY DEF IInv
<1> QED BY <1>1, Invariance, PTL

\* claimExchange(): until a lease of the key has ended, one request at most is past
\* its claim of the key, and the row is its own.
THEOREM ClaimsAreExclusive == Spec => []ExclusiveWithinLease
<1>1. IInv => ExclusiveWithinLease
  BY DEF IInv
<1> QED BY <1>1, Invariance, PTL

\* The row and its holder stay as they are.
LEMMA KeptByOthers ==
    ASSUME IInv, NEW k \in Key, Kept(k), exchange'[k] = exchange[k],
           exchange[k].holder \in DOMAIN req => req'[exchange[k].holder] = req[exchange[k].holder]
    PROVE  Kept(k)' /\ exchange'[k].holder = exchange[k].holder
  BY DEF IInv, HolderInv, Kept, Holding

\* The cleanup of authorize(): until a lease of the key has ended, the reservation of
\* a completed exchange, or of a lost handler, is neither released nor taken over.
THEOREM ReservationsAreKept == Spec => ReservationKept
<1> DEFINE A == \A k \in Key : k \notin aged' /\ Kept(k)
                    => Kept(k)' /\ exchange'[k].holder = exchange[k].holder
<1>1. IInv /\ [Next]_vars => [A]_vars
  <2> SUFFICES ASSUME IInv, [Next]_vars, NEW k \in Key, k \notin aged', Kept(k)
               PROVE  Kept(k)' /\ exchange'[k].holder = exchange[k].holder
    OBVIOUS
  <2> DEFINE h == exchange[k].holder
  <2>1. /\ exchange[k] \in Row /\ h \in DOMAIN req /\ req[h] \in Request
        /\ req[h].key = k /\ req[h].pc \in PastClaim \ {"exchange", "cleanup"}
    BY DEF Kept, Holding, IInv, HolderInv, TypeOK, PastClaim
  <2>2. k \notin aged
    BY DEF Next, vars, Begin, Purge, NoCredential, Claim, Reread, Exchange, Store, Abandon,
       Cleanup, Expire, Crash
  <2>3. CASE UNCHANGED vars
    BY <2>3, KeptByOthers DEF vars
  <2>4. ASSUME NEW r \in Req, Begin(r) PROVE Kept(k)' /\ exchange'[k].holder = h
    <3>1. r # h /\ \A q \in DOMAIN req : q # r => req'[q] = req[q]
      BY <2>1, <2>4 DEF Begin, Arrive
    <3> QED BY <2>1, <2>4, <3>1, KeptByOthers DEF Begin
  <2>5. ASSUME NEW r \in Req, Purge(r) PROVE Kept(k)' /\ exchange'[k].holder = h
    <3>1. r \in DOMAIN req /\ r # h /\ req[r].key # k
      BY <2>1, <2>2, <2>5 DEF Purge, At, PastClaim, IInv, TypeOK
    <3>2. exchange'[k] = exchange[k] /\ req'[h] = req[h]
      BY <2>1, <2>5, <3>1 DEF Purge, Goto, IInv, TypeOK
    <3> QED BY <3>2, KeptByOthers
  <2>6. ASSUME NEW r \in Req, NoCredential(r) \/ Claim(r) \/ Reread(r)
        PROVE  Kept(k)' /\ exchange'[k].holder = h
    <3>1. r \in DOMAIN req /\ r # h
      BY <2>1, <2>6 DEF NoCredential, Claim, Reread, At, PastClaim
    <3>2. exchange'[k] = exchange[k]
      BY <2>6 DEF NoCredential, Claim, Reread, Kept, IInv, TypeOK
    <3>3. req'[h] = req[h]
      BY <2>1, <2>6, <3>1 DEF NoCredential, Claim, Reread, Goto, Answer, IInv, TypeOK
    <3> QED BY <3>2, <3>3, KeptByOthers
  <2>7. ASSUME NEW r \in Req, Exchange(r) PROVE Kept(k)' /\ exchange'[k].holder = h
    <3>1. r # h /\ exchange'[k] = exchange[k]
      BY <2>1, <2>7 DEF Exchange, At
    <3>2. req'[h] = req[h]
      BY <2>1, <2>7, <3>1 DEF Exchange, Goto, IInv, TypeOK
    <3> QED BY <3>1, <3>2, KeptByOthers
  <2>8. ASSUME NEW r \in Req, Store(r) PROVE Kept(k)' /\ exchange'[k].holder = h
    <3>1. /\ r \in DOMAIN req /\ req[r].pc = "store" /\ req[r].key \in Key
          /\ exchange[req[r].key] # None
          /\ exchange' = [exchange EXCEPT ![req[r].key].response = r]
          /\ Answer(r, r)
      BY <2>8 DEF Store, At, IInv, TypeOK, Request
    <3>2. exchange'[k] # None /\ exchange'[k].holder = h
      <4>1. CASE req[r].key = k
        <5>1. exchange'[k] = [exchange[k] EXCEPT !.response = r]
          BY <3>1, <4>1 DEF IInv, TypeOK
        <5>2. exchange'[k] \in Row /\ exchange'[k].holder = h
          BY <2>1, <5>1 DEF Row
        <5> QED BY <5>2, NoneIsNoRow
      <4>2. CASE req[r].key # k
        BY <3>1, <4>2 DEF Kept, IInv, TypeOK
      <4> QED BY <4>1, <4>2
    <3>3. req'[h] = req[h] \/ req'[h].pc = "done"
      BY <2>1, <3>1 DEF Answer, IInv, TypeOK
    <3> QED BY <2>1, <3>2, <3>3 DEF Kept, Holding, PastClaim
  <2>9. ASSUME NEW r \in Req, Abandon(r) PROVE Kept(k)' /\ exchange'[k].holder = h
    <3>1. exchange' = exchange /\ Goto(r, "failed")
      BY <2>9 DEF Abandon
    <3>2. req'[h] = req[h] \/ req'[h].pc = "failed"
      BY <2>1, <3>1 DEF Goto, IInv, TypeOK
    <3> QED BY <2>1, <3>1, <3>2 DEF Kept, Holding, PastClaim
  <2>10. ASSUME NEW r \in Req, Cleanup(r) PROVE Kept(k)' /\ exchange'[k].holder = h
    <3>1. r \in DOMAIN req /\ req[r].pc = "cleanup" /\ r # h
      BY <2>1, <2>10 DEF Cleanup, At
    <3>2. req[r].key # k
      BY <2>2, <3>1 DEF IInv, ExclusiveWithinLease, Holding
    <3>3. exchange'[k] = exchange[k]
      BY <2>10, <3>2 DEF Cleanup, IInv, TypeOK
    <3>4. req'[h] = req[h]
      BY <2>1, <2>10, <3>1 DEF Cleanup, Goto, IInv, TypeOK
    <3> QED BY <3>3, <3>4, KeptByOthers
  <2>11. ASSUME NEW j \in Key, Expire(j) PROVE Kept(k)' /\ exchange'[k].holder = h
    <3>1. exchange'[k] = exchange[k] /\ req' = req
      BY <2>11 DEF Expire, IInv, TypeOK
    <3> QED BY <3>1, KeptByOthers
  <2>12. CASE Crash
    <3>1. exchange' = exchange
      BY <2>12 DEF Crash
    <3>2. req'[h] = req[h] \/ req'[h].pc = "crashed"
      <4>1. req'[h] = IF Ended(h) THEN req[h] ELSE [req[h] EXCEPT !.pc = "crashed"]
        BY <2>1, <2>12 DEF Crash
      <4> QED BY <2>1, <4>1 DEF Request
    <3> QED BY <2>1, <3>1, <3>2 DEF Kept, Holding
  <2> QED BY <2>3, <2>4, <2>5, <2>6, <2>7, <2>8, <2>9, <2>10, <2>11, <2>12 DEF Next
<1>2. Spec => [][A]_vars
  BY <1>1, Invariance, PTL DEF Spec
<1> QED BY <1>2 DEF ReservationKept

================================================================================
