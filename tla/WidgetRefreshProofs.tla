-------------------------- MODULE WidgetRefreshProofs --------------------------
(***************************************************************************)
(* What WidgetRefresh guarantees for every number of concurrent requests,  *)
(* whether or not the provider rotates refresh tokens.                     *)
(***************************************************************************)
EXTENDS WidgetRefresh, TLAPS

\* A token that the row has, or has had: the requests that issued the others are
\* not done, or their tokens were lost.
Settled(t) == t = First \/ (t \in DOMAIN req /\ req[t].pc = "done")

\* What a request carries from its load to its swap.
RequestOK(r) ==
    LET q == req[r] IN
    /\ Settled(q.presented)
    /\ q.presented = session.access => q.loaded = session.refresh
    /\ rotates => q.loaded = q.presented
    /\ ~rotates => q.loaded = First /\ q.granted = First
    /\ rotates /\ q.pc \in {"rotate", "swap"} => q.granted = r /\ r \in live
RequestInv == \A r \in DOMAIN req : RequestOK(r)
RowInv == Settled(session.access) /\ (~rotates => First \in live)

IInv == TypeOK /\ RequestInv /\ RowInv /\ NotStranded

--------------------------------------------------------------------------------
(* What the helpers do to the table of requests. *)

Moved(r, pc) ==
    /\ DOMAIN req' = DOMAIN req
    /\ \A q \in DOMAIN req : q # r => req'[q] = req[q]
    /\ req'[r].pc = pc
    /\ req'[r].presented = req[r].presented
    /\ req'[r].loaded = req[r].loaded
    /\ req'[r].granted = req[r].granted

PCs == {"grant", "rotate", "swap", "revoke", "done", "refused", "lost"}

LEMMA GotoMoves ==
    ASSUME TypeOK, NEW r \in DOMAIN req, NEW pc \in PCs, Goto(r, pc)
    PROVE  Moved(r, pc) /\ req' \in [DOMAIN req' -> Request]
<1>1. req \in [DOMAIN req -> Request] /\ req[r] \in Request
  BY DEF TypeOK
<1>2. req' = [req EXCEPT ![r] = [req[r] EXCEPT !.pc = pc]]
  BY DEF Goto
<1>3. [req[r] EXCEPT !.pc = pc] \in Request
  BY <1>1 DEF Request, PCs
<1> QED BY <1>1, <1>2, <1>3 DEF Moved, Request

LEMMA ArriveAdds ==
    ASSUME TypeOK, NEW r \in Req, NEW pc \in PCs, Arrive(r, pc)
    PROVE  /\ r \notin DOMAIN req /\ DOMAIN req' = DOMAIN req \cup {r}
           /\ req' \in [DOMAIN req' -> Request]
           /\ \A q \in DOMAIN req : req'[q] = req[q]
           /\ req'[r] = [presented |-> session.access, loaded |-> session.refresh,
                         granted |-> session.refresh, pc |-> pc]
<1>1. req \in [DOMAIN req -> Request]
  BY DEF TypeOK
<1>2. [presented |-> session.access, loaded |-> session.refresh,
       granted |-> session.refresh, pc |-> pc] \in Request
  BY DEF TypeOK, Request, PCs
<1> QED BY <1>1, <1>2 DEF Arrive

--------------------------------------------------------------------------------
LEMMA InitInv == Init => IInv
  BY DEF Init, IInv, TypeOK, Token, RequestInv, RowInv, Settled, NotStranded, Usable

\* A request leaves a step without touching the row or the tokens, and not as "done".
LEMMA MovePreserves ==
    ASSUME IInv, NEW r \in DOMAIN req, NEW pc \in PCs, Moved(r, pc),
           req' \in [DOMAIN req' -> Request],
           UNCHANGED <<session, live, rotates>>,
           req[r].pc # "done",
           pc \in {"rotate", "swap"} => req[r].pc \in {"rotate", "swap"},
           NotStranded'
    PROVE  IInv'
<1>1. TypeOK'
  BY DEF IInv, TypeOK, Moved
<1>2. \A t : Settled(t) => Settled(t)'
  BY DEF Settled, Moved
<1>3. RowInv'
  BY <1>2 DEF IInv, RowInv
<1>4. RequestInv'
  <2> SUFFICES ASSUME NEW q \in DOMAIN req PROVE RequestOK(q)'
    BY DEF RequestInv, Moved
  <2>1. RequestOK(q)
    BY DEF IInv, RequestInv
  <2>2. /\ req'[q].presented = req[q].presented
        /\ req'[q].loaded = req[q].loaded
        /\ req'[q].granted = req[q].granted
        /\ req'[q].pc \in {"rotate", "swap"} => req[q].pc \in {"rotate", "swap"}
    BY DEF Moved
  <2> QED BY <2>1, <2>2, <1>2 DEF RequestOK
<1> QED BY <1>1, <1>3, <1>4 DEF IInv

\* A new request with the tokens of the row.
LEMMA ArrivePreserves ==
    ASSUME IInv, NEW r \in Req, NEW pc \in {"grant", "revoke"}, Arrive(r, pc),
           UNCHANGED <<session, live, rotates>>
    PROVE  IInv'
<1>1. /\ r \notin DOMAIN req /\ DOMAIN req' = DOMAIN req \cup {r}
      /\ req' \in [DOMAIN req' -> Request]
      /\ \A q \in DOMAIN req : req'[q] = req[q]
      /\ req'[r] = [presented |-> session.access, loaded |-> session.refresh,
                    granted |-> session.refresh, pc |-> pc]
  BY ArriveAdds DEF IInv, PCs
<1>2. TypeOK'
  BY <1>1 DEF IInv, TypeOK
<1>3. \A t : Settled(t) => Settled(t)'
  BY <1>1 DEF Settled
<1>4. RowInv'
  BY <1>3 DEF IInv, RowInv
<1>5. RequestInv'
  <2>1. ASSUME NEW q \in DOMAIN req PROVE RequestOK(q)'
    BY <1>1, <1>3 DEF IInv, RequestInv, RequestOK
  <2>2. RequestOK(r)'
    BY <1>1, <1>3 DEF IInv, TypeOK, RowInv, RequestOK
  <2> QED BY <2>1, <2>2, <1>1 DEF RequestInv
<1>6. NotStranded'
  BY <1>1 DEF IInv, NotStranded, Usable
<1> QED BY <1>2, <1>4, <1>5, <1>6 DEF IInv

LEMMA GrantPreserves ==
    ASSUME IInv, NEW r \in Req, Grant(r)
    PROVE  IInv'
<1>1. r \in DOMAIN req /\ req[r].pc = "grant" /\ req[r] \in Request
  BY DEF Grant, At, IInv, TypeOK
<1>2. CASE Goto(r, "refused") /\ UNCHANGED live
  <2>1. Moved(r, "refused") /\ req' \in [DOMAIN req' -> Request]
    BY <1>1, <1>2, GotoMoves DEF IInv, PCs
  <2>2. NotStranded'
    BY <1>1, <1>2, <2>1 DEF Grant, IInv, NotStranded, Usable, Moved
  <2> QED BY <1>1, <1>2, <2>1, <2>2, MovePreserves DEF Grant, PCs
<1>3. CASE /\ req[r].loaded \in live
           /\ live' = IF rotates THEN (live \ {req[r].loaded}) \cup {r} ELSE live
           /\ \/ req' = [req EXCEPT ![r].pc = "rotate",
                                    ![r].granted = IF rotates THEN r ELSE @]
              \/ Goto(r, IF rotates THEN "lost" ELSE "refused")
  <2> DEFINE pc == req'[r].pc
  <2>1. /\ DOMAIN req' = DOMAIN req
        /\ req' \in [DOMAIN req' -> Request]
        /\ \A q \in DOMAIN req : q # r => req'[q] = req[q]
        /\ req'[r].presented = req[r].presented /\ req'[r].loaded = req[r].loaded
        /\ pc \in {"rotate", IF rotates THEN "lost" ELSE "refused"}
        /\ req'[r].granted = req[r].granted \/ (rotates /\ req'[r].granted = r)
        /\ pc = "rotate" /\ rotates => req'[r].granted = r
    <3>1. CASE Goto(r, IF rotates THEN "lost" ELSE "refused")
      <4> DEFINE to == IF rotates THEN "lost" ELSE "refused"
      <4>1. to \in PCs
        BY DEF PCs
      <4>2. Moved(r, to) /\ req' \in [DOMAIN req' -> Request]
        BY <1>1, <3>1, <4>1, GotoMoves DEF IInv
      <4> QED BY <4>2 DEF Moved
    <3>2. CASE req' = [req EXCEPT ![r].pc = "rotate",
                                  ![r].granted = IF rotates THEN r ELSE @]
      <4> DEFINE new == [req[r] EXCEPT !.pc = "rotate",
                                       !.granted = IF rotates THEN r ELSE @]
      <4>1. req' = [req EXCEPT ![r] = new]
        BY <3>2
      <4>2. /\ new \in Request /\ new.presented = req[r].presented
            /\ new.loaded = req[r].loaded /\ new.pc = "rotate"
            /\ new.granted = IF rotates THEN r ELSE req[r].granted
        BY <1>1 DEF Request, Token
      <4> HIDE DEF new
      <4> QED BY <1>1, <4>1, <4>2 DEF IInv, TypeOK
    <3> QED BY <1>3, <3>1, <3>2
  <2> HIDE DEF pc
  <2>2. UNCHANGED <<session, rotates>>
    BY DEF Grant
  <2>3. live' \subseteq Token
    BY <1>1, <1>3 DEF IInv, TypeOK, Token
  <2>4. TypeOK'
    BY <2>1, <2>2, <2>3 DEF IInv, TypeOK
  <2>5. \A t : Settled(t) => Settled(t)'
    BY <1>1, <2>1 DEF Settled
  <2>6. RowInv'
    BY <1>3, <2>2, <2>5 DEF IInv, RowInv
  <2>7. RequestInv'
    <3>1. RequestOK(r)'
      <4>1. RequestOK(r)
        BY <1>1 DEF IInv, RequestInv
      <4>2. rotates => r \in live'
        BY <1>3
      <4> QED BY <1>1, <2>1, <2>2, <2>5, <4>1, <4>2 DEF RequestOK, pc
    <3>2. ASSUME NEW q \in DOMAIN req, q # r PROVE RequestOK(q)'
      <4>1. RequestOK(q) /\ RequestOK(r)
        BY <1>1 DEF IInv, RequestInv
      <4>2. req'[q] = req[q]
        BY <2>1, <3>2
      <4>3. rotates /\ req[q].pc \in {"rotate", "swap"} => q # req[r].loaded
        <5>1. q # First
          BY FirstIsNew DEF IInv, TypeOK
        <5> QED BY <4>1, <5>1 DEF RequestOK, Settled
      <4>4. rotates /\ req[q].pc \in {"rotate", "swap"} => q \in live'
        BY <1>3, <4>1, <4>3 DEF RequestOK
      <4> QED BY <2>2, <2>5, <4>1, <4>2, <4>4 DEF RequestOK
    <3> QED BY <2>1, <3>1, <3>2 DEF RequestInv
  <2>8. NotStranded'
    <3> SUFFICES ASSUME Usable
                 PROVE  \/ session.refresh \in live'
                        \/ \E q \in DOMAIN req :
                              /\ req'[q].loaded = session.refresh
                              /\ req'[q].pc \in {"rotate", "swap", "lost"}
      BY <2>1, <2>2 DEF NotStranded, Usable
    <3>1. CASE ~rotates
      BY <3>1, <2>6, <2>2 DEF IInv, TypeOK, RowInv
    <3>2. CASE rotates /\ session.refresh = req[r].loaded
      BY <1>1, <2>1, <3>2 DEF pc
    <3>3. CASE rotates /\ session.refresh # req[r].loaded /\ session.refresh \in live
      BY <1>3, <3>3
    <3>4. CASE session.refresh \notin live
      <4>1. PICK q \in DOMAIN req : /\ req[q].loaded = session.refresh
                                    /\ req[q].pc \in {"rotate", "swap", "lost"}
        BY <3>4 DEF IInv, NotStranded
      <4>2. q # r
        BY <1>1, <4>1
      <4> QED BY <2>1, <4>1, <4>2
    <3> QED BY <3>1, <3>2, <3>3, <3>4
  <2> QED BY <2>4, <2>6, <2>7, <2>8 DEF IInv
<1> QED BY <1>2, <1>3 DEF Grant

\* A request that does not swap is refused while its loaded token is not the row's.
LEMMA RefusedIsNoWitness ==
    ASSUME IInv, NEW r \in DOMAIN req, rotates, session.access # req[r].presented
    PROVE  req[r].loaded # session.refresh
  BY DEF IInv, TypeOK, RequestInv, RequestOK

\* Refusing such a request strands nobody.
LEMMA RefusalStrandsNobody ==
    ASSUME IInv, NEW r \in DOMAIN req, Moved(r, "refused"),
           UNCHANGED <<session, live, rotates>>,
           ~Usable \/ session.access # req[r].presented
    PROVE  NotStranded'
<1> SUFFICES ASSUME Usable, session.refresh \notin live
             PROVE  \E q \in DOMAIN req :
                       /\ req'[q].loaded = session.refresh
                       /\ req'[q].pc \in {"rotate", "swap", "lost"}
  BY DEF NotStranded, Usable, Moved
<1>1. rotates
  BY DEF IInv, TypeOK, RowInv
<1>2. PICK q \in DOMAIN req : /\ req[q].loaded = session.refresh
                              /\ req[q].pc \in {"rotate", "swap", "lost"}
  BY DEF IInv, NotStranded
<1>3. q # r
  BY <1>1, <1>2, RefusedIsNoWitness
<1> QED BY <1>2, <1>3 DEF Moved

LEMMA ReadForRotatePreserves ==
    ASSUME IInv, NEW r \in Req, ReadForRotate(r)
    PROVE  IInv'
<1>1. r \in DOMAIN req /\ req[r].pc = "rotate" /\ UNCHANGED <<session, live, rotates>>
  BY DEF ReadForRotate, At
<1>2. CASE Usable /\ session.access = req[r].presented
  <2>1. Moved(r, "swap") /\ req' \in [DOMAIN req' -> Request]
    BY <1>1, <1>2, GotoMoves DEF ReadForRotate, IInv, PCs
  <2>2. NotStranded'
    BY <1>1, <2>1 DEF IInv, NotStranded, Usable, Moved
  <2> QED BY <1>1, <2>1, <2>2, MovePreserves DEF PCs
<1>3. CASE ~(Usable /\ session.access = req[r].presented)
  <2>1. Moved(r, "refused") /\ req' \in [DOMAIN req' -> Request]
    BY <1>1, <1>3, GotoMoves DEF ReadForRotate, IInv, PCs
  <2>2. NotStranded'
    BY <1>1, <1>3, <2>1, RefusalStrandsNobody
  <2> QED BY <1>1, <2>1, <2>2, MovePreserves DEF PCs
<1> QED BY <1>2, <1>3

LEMMA SwapPreserves ==
    ASSUME IInv, NEW r \in Req, Swap(r)
    PROVE  IInv'
<1>1. r \in DOMAIN req /\ req[r].pc = "swap" /\ req[r] \in Request
      /\ UNCHANGED <<live, rotates>> /\ RequestOK(r)
  BY DEF Swap, At, IInv, TypeOK, RequestInv
<1>2. CASE ~Swaps(r)
  <2>1. Moved(r, "refused") /\ req' \in [DOMAIN req' -> Request]
    BY <1>1, <1>2, GotoMoves DEF Swap, IInv, PCs
  <2>2. UNCHANGED session
    BY <1>2 DEF Swap
  <2>3. NotStranded'
    BY <1>1, <1>2, <2>1, <2>2, RefusalStrandsNobody DEF Swaps
  <2> QED BY <1>1, <2>1, <2>2, <2>3, MovePreserves DEF PCs
<1>3. CASE Swaps(r)
  <2>1. Moved(r, "done") /\ req' \in [DOMAIN req' -> Request]
    BY <1>1, <1>3, GotoMoves DEF Swap, IInv, PCs
  <2>2. /\ session' \in [access: Token, refresh: Token, revoked: BOOLEAN, expired: BOOLEAN]
        /\ session'.access = r /\ session'.refresh = req[r].granted
    BY <1>1, <1>3 DEF Swap, IInv, TypeOK, Request, Token
  <2>3. TypeOK'
    BY <1>1, <2>1, <2>2 DEF IInv, TypeOK, Moved, RequestOK
  <2>4. \A t : Settled(t) => Settled(t)'
    BY <2>1 DEF Settled, Moved
  <2>5. Settled(r)'
    BY <1>1, <2>1 DEF Settled, Moved
  <2>6. RowInv'
    BY <1>1, <2>2, <2>5 DEF IInv, RowInv
  <2>7. RequestInv'
    <3> SUFFICES ASSUME NEW q \in DOMAIN req PROVE RequestOK(q)'
      BY <2>1 DEF RequestInv, Moved
    <3>1. RequestOK(q)
      BY DEF IInv, RequestInv
    <3>2. req[q].presented # r
      <4>1. r # First
        BY FirstIsNew
      <4> QED BY <1>1, <3>1, <4>1 DEF RequestOK, Settled
    <3>3. /\ req'[q].presented = req[q].presented
          /\ req'[q].loaded = req[q].loaded
          /\ req'[q].granted = req[q].granted
          /\ req'[q].pc \in {"rotate", "swap"} => req[q].pc \in {"rotate", "swap"}
      BY <2>1 DEF Moved
    <3> QED BY <1>1, <2>2, <2>4, <3>1, <3>2, <3>3 DEF RequestOK
  <2>8. NotStranded'
    <3>1. session'.refresh \in live'
      BY <1>1, <2>2 DEF IInv, RowInv, RequestOK
    <3> QED BY <3>1 DEF NotStranded
  <2> QED BY <2>3, <2>6, <2>7, <2>8 DEF IInv
<1> QED BY <1>2, <1>3

\* The row's flags go up; its tokens stay.
LEMMA RetirePreserves ==
    ASSUME IInv, UNCHANGED <<live, rotates>>, ~Usable',
           session' \in [access: Token, refresh: Token, revoked: BOOLEAN, expired: BOOLEAN],
           session'.access = session.access, session'.refresh = session.refresh,
           \/ UNCHANGED req
           \/ \E r \in DOMAIN req : /\ Moved(r, "done") /\ req[r].pc = "revoke"
                                    /\ req' \in [DOMAIN req' -> Request]
    PROVE  IInv'
<1>1. /\ DOMAIN req' = DOMAIN req /\ req' \in [DOMAIN req' -> Request]
      /\ \A q \in DOMAIN req : /\ req'[q].presented = req[q].presented
                               /\ req'[q].loaded = req[q].loaded
                               /\ req'[q].granted = req[q].granted
                               /\ req'[q].pc \in {req[q].pc, "done"}
  BY DEF Moved, IInv, TypeOK
<1>2. TypeOK'
  BY <1>1 DEF IInv, TypeOK
<1>3. \A t : Settled(t) => Settled(t)'
  BY <1>1 DEF Settled
<1>4. RowInv'
  BY <1>3 DEF IInv, RowInv
<1>5. RequestInv'
  <2> SUFFICES ASSUME NEW q \in DOMAIN req PROVE RequestOK(q)'
    BY <1>1 DEF RequestInv
  <2>1. RequestOK(q)
    BY DEF IInv, RequestInv
  <2>2. req'[q].pc \in {"rotate", "swap"} => req[q].pc \in {"rotate", "swap"}
    BY <1>1
  <2> QED BY <1>1, <1>3, <2>1, <2>2 DEF RequestOK
<1>6. NotStranded'
  BY DEF NotStranded
<1> QED BY <1>2, <1>4, <1>5, <1>6 DEF IInv

LEMMA RevokePreserves ==
    ASSUME IInv, NEW r \in Req, Revoke(r)
    PROVE  IInv'
<1>1. r \in DOMAIN req /\ req[r].pc = "revoke" /\ UNCHANGED <<live, rotates>>
  BY DEF Revoke, At
<1>2. CASE session.revoked
  <2>1. Moved(r, "refused") /\ req' \in [DOMAIN req' -> Request] /\ UNCHANGED session
    BY <1>1, <1>2, GotoMoves DEF Revoke, IInv, PCs
  <2>2. NotStranded'
    BY <1>2, <2>1 DEF NotStranded, Usable
  <2> QED BY <1>1, <2>1, <2>2, MovePreserves DEF PCs
<1>3. CASE ~session.revoked
  <2>1. Moved(r, "done") /\ req' \in [DOMAIN req' -> Request]
    BY <1>1, <1>3, GotoMoves DEF Revoke, IInv, PCs
  <2>2. /\ session' \in [access: Token, refresh: Token, revoked: BOOLEAN, expired: BOOLEAN]
        /\ session'.access = session.access /\ session'.refresh = session.refresh
        /\ session'.revoked
    BY <1>3 DEF Revoke, IInv, TypeOK
  <2>3. ~Usable'
    BY <2>2 DEF Usable
  <2> QED BY <1>1, <2>1, <2>2, <2>3, RetirePreserves
<1> QED BY <1>2, <1>3

LEMMA ExpirePreserves ==
    ASSUME IInv, Expire
    PROVE  IInv'
<1>1. /\ session' \in [access: Token, refresh: Token, revoked: BOOLEAN, expired: BOOLEAN]
      /\ session'.access = session.access /\ session'.refresh = session.refresh
      /\ session'.expired
  BY DEF Expire, IInv, TypeOK
<1>2. ~Usable'
  BY <1>1 DEF Usable
<1> QED BY <1>1, <1>2, RetirePreserves DEF Expire

LEMMA CrashPreserves ==
    ASSUME IInv, Crash
    PROVE  IInv'
<1>1. /\ DOMAIN req' = DOMAIN req /\ req' \in [DOMAIN req' -> Request]
      /\ \A q \in DOMAIN req : /\ req'[q].presented = req[q].presented
                               /\ req'[q].loaded = req[q].loaded
                               /\ req'[q].granted = req[q].granted
                               /\ req'[q].pc \notin {"rotate", "swap"}
                               /\ req[q].pc = "done" => req'[q].pc = "done"
                               /\ req[q].pc \in {"rotate", "swap", "lost"} => req'[q].pc = "lost"
  <2>1. req' = [r \in DOMAIN req |->
                 IF ~InProgress(r) THEN req[r]
                 ELSE [req[r] EXCEPT !.pc = IF @ \in {"rotate", "swap"} THEN "lost" ELSE "refused"]]
    BY DEF Crash
  <2>2. req \in [DOMAIN req -> Request]
    BY DEF IInv, TypeOK
  <2>3. ASSUME NEW q \in DOMAIN req
        PROVE  /\ req'[q] \in Request
               /\ req'[q].presented = req[q].presented
               /\ req'[q].loaded = req[q].loaded
               /\ req'[q].granted = req[q].granted
               /\ req'[q].pc \notin {"rotate", "swap"}
               /\ req[q].pc = "done" => req'[q].pc = "done"
               /\ req[q].pc \in {"rotate", "swap", "lost"} => req'[q].pc = "lost"
    <3>1. req[q] \in Request
      BY <2>2
    <3> QED BY <2>1, <3>1 DEF Request, InProgress
  <2> QED BY <2>1, <2>3
<1>2. UNCHANGED <<session, live, rotates>>
  BY DEF Crash
<1>3. TypeOK'
  BY <1>1, <1>2 DEF IInv, TypeOK
<1>4. \A t : Settled(t) => Settled(t)'
  BY <1>1 DEF Settled
<1>5. RowInv'
  BY <1>2, <1>4 DEF IInv, RowInv
<1>6. RequestInv'
  <2> SUFFICES ASSUME NEW q \in DOMAIN req PROVE RequestOK(q)'
    BY <1>1 DEF RequestInv
  <2>1. RequestOK(q)
    BY DEF IInv, RequestInv
  <2> QED BY <1>1, <1>2, <1>4, <2>1 DEF RequestOK
<1>7. NotStranded'
  BY <1>1, <1>2 DEF IInv, NotStranded, Usable
<1> QED BY <1>3, <1>5, <1>6, <1>7 DEF IInv

--------------------------------------------------------------------------------
LEMMA StepInv == IInv /\ [Next]_vars => IInv'
<1> SUFFICES ASSUME IInv, [Next]_vars PROVE IInv'
  OBVIOUS
<1>1. CASE UNCHANGED vars
  BY <1>1 DEF vars, IInv, TypeOK, RequestInv, RequestOK, RowInv, Settled, NotStranded, Usable
<1>2. ASSUME NEW r \in Req, Load(r) \/ ReadForRevoke(r) PROVE IInv'
  BY <1>2, ArrivePreserves DEF Load, ReadForRevoke
<1> QED
  BY <1>1, <1>2, GrantPreserves, ReadForRotatePreserves, SwapPreserves, RevokePreserves,
     ExpirePreserves, CrashPreserves DEF Next

\* The inductive invariant: what a request in progress carries agrees with the row
\* as long as the row is the one it loaded, and the tokens it was granted are live.
THEOREM Invariance == Spec => []IInv
  BY InitInv, StepInv, PTL DEF Spec

\* load(), rotate(), revoke(): the row and the requests have their types, and the row
\* pairs each access token with the refresh token granted with it.
THEOREM TypeCorrect == Spec => []TypeOK
<1>1. IInv => TypeOK
  BY DEF IInv
<1> QED BY <1>1, Invariance, PTL

\* rotate(): however many refreshes race, concurrency alone never leaves a usable
\* session with a refresh token that the provider no longer accepts.
THEOREM NeverStranded == Spec => []NotStranded
<1>1. IInv => NotStranded
  BY DEF IInv
<1> QED BY <1>1, Invariance, PTL

\* rotate()'s compare-and-swap: a request that lost the race never replaces the
\* tokens of the winner.
THEOREM LosersNeverOverwrite == Spec => LoserNeverOverwrites
<1> DEFINE A == session'.access # session.access =>
                  \E r \in DOMAIN req : /\ session'.access = r
                                        /\ req[r].presented = session.access
                                        /\ req[r].loaded = session.refresh
<1>1. IInv /\ [Next]_vars => [A]_vars
  <2> SUFFICES ASSUME IInv, [Next]_vars, session'.access # session.access PROVE A
    OBVIOUS
  <2>1. PICK r \in Req : Swap(r)
    <3>1. session \in [access: Token, refresh: Token, revoked: BOOLEAN, expired: BOOLEAN]
      BY DEF IInv, TypeOK
    <3> QED BY <3>1 DEF Next, vars, Load, Grant, ReadForRotate, ReadForRevoke, Revoke, Expire, Crash
  <2>2. Swaps(r) /\ session' = [session EXCEPT !.access = r, !.refresh = req[r].granted]
    BY <2>1 DEF Swap
  <2>3. session'.access = r /\ r \in DOMAIN req /\ req[r].presented = session.access
    BY <2>1, <2>2 DEF IInv, TypeOK, Swap, Swaps, At
  <2>4. req[r].loaded = session.refresh
    BY <2>3 DEF IInv, RequestInv, RequestOK
  <2> QED BY <2>3, <2>4
<1>2. Spec => [][A]_vars
  BY <1>1, Invariance, PTL DEF Spec
<1> QED BY <1>2 DEF LoserNeverOverwrites

\* assertUsable() and the condition of rotate()'s update: a revoked or expired session
\* keeps its tokens, whatever refresh was in progress.
THEOREM UnusableForGood == Spec => UnusableStaysUnusable
<1> DEFINE A == ~Usable => ~Usable' /\ session'.access = session.access
                                    /\ session'.refresh = session.refresh
<1>1. IInv /\ [Next]_vars => [A]_vars
  <2> SUFFICES ASSUME IInv, [Next]_vars, ~Usable PROVE A
    OBVIOUS
  <2>1. session \in [access: Token, refresh: Token, revoked: BOOLEAN, expired: BOOLEAN]
    BY DEF IInv, TypeOK
  <2>2. CASE UNCHANGED session
    BY <2>2 DEF Usable
  <2>3. ASSUME NEW r \in Req, Swap(r) PROVE A
    BY <2>2, <2>3 DEF Swap, Swaps
  <2>4. CASE (\E r \in Req : Revoke(r)) \/ Expire
    BY <2>1, <2>2, <2>4 DEF Revoke, Expire, Usable
  <2> QED BY <2>2, <2>3, <2>4 DEF Next, vars, Load, Grant, ReadForRotate, ReadForRevoke, Crash
<1>2. Spec => [][A]_vars
  BY <1>1, Invariance, PTL DEF Spec
<1> QED BY <1>2 DEF UnusableStaysUnusable

================================================================================
