-------------------------- MODULE SubscriptionsProofs --------------------------
(***************************************************************************)
(* What Subscriptions guarantees for every set of deliveries, events and   *)
(* tenant codes, and that it implements SubscriptionLog.                   *)
(***************************************************************************)
EXTENDS Subscriptions, TLAPS

Pcs == {"insert", "tenant", "credential", "commit", "applied", "duplicate", "refused"}
Open == {"tenant", "credential", "commit"}
Writes == [tenant: TenantRow \cup {None}, cred: CredRow \cup {None}]

\* The rows an event writes when it comes to that: the tenant's and the secret's.
NewTenant(e) == [eduplus |-> e.eduplus, status |-> "ACTIVE"]
NewCred(e) == [client |-> e.client, secret |-> e.secret, revoked |-> FALSE]
Revoked(e) ==
    /\ creds[e.code] # None
    /\ e.client \in {None, creds[e.code].client}

\* What a transaction has written when its tenant's row is done, and when it is
\* about to commit.  The locks keep the committed rows it started from.
TenantWritten(d, e) ==
    \/ e.kind = "created" /\ tx[d].tenant = NewTenant(e)
    \/ /\ e.kind \in StatusKinds
       /\ tx[d].tenant = [tenants[e.code] EXCEPT !.status = StatusAfter(e.kind)]
    \/ e.kind \in {"rotated", "revoked", "other"} /\ tx[d].tenant = None
CredWritten(d, e) ==
    \/ e.kind \in {"created", "rotated"} /\ tx[d].cred = NewCred(e)
    \/ /\ e.kind = "revoked"
       /\ \/ e.client # None /\ tx[d].cred = None
          \/ Revoked(e) /\ tx[d].cred = [creds[e.code] EXCEPT !.revoked = TRUE]
    \/ e.kind \in StatusKinds \cup {"other"} /\ tx[d].cred = None

\* A transaction in progress: its event has no receipt yet, its tenant exists unless
\* it creates it, and it has written what its statements so far write.
TxOK(d) ==
    LET e == Event(d) IN
    /\ e.id \notin receipts
    /\ del[d].pc = "tenant" => tx[d] = NoWrites
    /\ del[d].pc # "tenant" => TenantWritten(d, e) /\ (e.kind # "created" => tenants[e.code] # None)
    /\ del[d].pc = "credential" => /\ e.kind \in {"created", "rotated", "revoked"}
                                   /\ tx[d].cred = None
    /\ del[d].pc = "commit" => CredWritten(d, e)
TxInv == \A d \in Delivery : InTransaction(d) => TxOK(d)

\* No two transactions insert the same receipt.
OneInserts ==
    \A d, q \in Delivery : InTransaction(d) /\ InTransaction(q) /\ d # q => Event(d).id # Event(q).id

\* No two transactions have written the same row.
RowsLocked ==
    \A d, q \in DOMAIN del : d # q /\ Event(d).code = Event(q).code =>
        /\ tx[d].tenant = None \/ tx[q].tenant = None
        /\ tx[d].cred = None \/ tx[q].cred = None

IInv == TypeOK /\ RowsLocked /\ TxInv /\ OneInserts /\ AppliedOnce /\ TenantsHaveCredentials

--------------------------------------------------------------------------------
\* Facts about events and rows.
LEMMA EventTypes ==
    ASSUME NEW e \in Events
    PROVE  /\ e.kind \in Kinds /\ e.code \in Code /\ e.id \in EventIds
           /\ e.kind = "created" => NewTenant(e) \in TenantRow /\ NewTenant(e) # None
           /\ NewCred(e) \in CredRow /\ NewCred(e) # None
<1>1. e.kind \in Kinds /\ e.code \in Code
  BY EventData
<1>2. e.id \in EventIds /\ e.eduplus \in EduplusIds
  BY DEF EventIds, EduplusIds
<1>3. e.kind = "created" => NewTenant(e) \in TenantRow
  BY <1>2, EventData DEF NewTenant, TenantRow
<1>4. NewCred(e) \in CredRow
  BY DEF NewCred, CredRow
<1> QED BY <1>1, <1>2, <1>3, <1>4, Markers

\* A changed status or a revoked secret is a row again.
LEMMA RowTypes ==
    /\ \A row \in TenantRow, kind \in StatusKinds :
          /\ [row EXCEPT !.status = StatusAfter(kind)] \in TenantRow
          /\ [row EXCEPT !.status = StatusAfter(kind)] # None
    /\ \A row \in CredRow : /\ [row EXCEPT !.revoked = TRUE] \in CredRow
                            /\ [row EXCEPT !.revoked = TRUE] # None
<1>1. \A kind \in StatusKinds : StatusAfter(kind) \in {"ACTIVE", "SUSPENDED", "REVOKED"}
  BY DEF StatusKinds, StatusAfter
<1>2. \A row \in TenantRow, kind \in StatusKinds :
         [row EXCEPT !.status = StatusAfter(kind)] \in TenantRow
  BY <1>1 DEF TenantRow
<1>3. \A row \in CredRow : [row EXCEPT !.revoked = TRUE] \in CredRow
  BY DEF CredRow
<1> QED BY <1>2, <1>3, Markers

LEMMA DelTypes ==
    ASSUME TypeOK, NEW d \in DOMAIN del
    PROVE  d \in Delivery /\ del[d] \in [event: Events, pc: Pcs] /\ Event(d) \in Events
BY DEF TypeOK, RowsLocked, Event, Pcs

LEMMA InitInv == Init => IInv
<1> SUFFICES ASSUME Init PROVE IInv
  OBVIOUS
<1>1. DOMAIN del = {} /\ \A d \in Delivery : ~InTransaction(d)
  BY DEF Init, InTransaction
<1>2. TypeOK
  <2>1. NoWrites \in Writes
    BY DEF NoWrites, Writes
  <2> QED BY <1>1, <2>1 DEF Init, TypeOK, RowsLocked, Writes
<1> QED BY <1>1, <1>2 DEF Init, IInv, RowsLocked, TxInv, OneInserts, AppliedOnce, TenantsHaveCredentials

--------------------------------------------------------------------------------
\* A step of d's own transaction: the delivery moves, the tables stay, and what it
\* writes is written by no other transaction.
Own(d, pc, w) ==
    /\ d \in DOMAIN del
    /\ del' = [del EXCEPT ![d].pc = pc]
    /\ tx' = [tx EXCEPT ![d] = w]
    /\ UNCHANGED <<tenants, creds, receipts, applied>>

LEMMA OwnMoves ==
    ASSUME TypeOK, NEW d, NEW pc \in Pcs, NEW w \in Writes, Own(d, pc, w)
    PROVE  /\ d \in Delivery /\ DOMAIN del' = DOMAIN del
           /\ del' \in [DOMAIN del -> [event: Events, pc: Pcs]]
           /\ \A q \in DOMAIN del : Event(q)' = Event(q)
           /\ del'[d].pc = pc
           /\ \A q \in DOMAIN del : q # d => del'[q] = del[q]
           /\ tx' \in [Delivery -> Writes] /\ tx'[d] = w
           /\ \A q \in Delivery : q # d => tx'[q] = tx[q]
           /\ InTransaction(d)' <=> pc \in Open
           /\ \A q : q # d => (InTransaction(q)' <=> InTransaction(q))
<1>1. d \in Delivery /\ del \in [DOMAIN del -> [event: Events, pc: Pcs]]
  BY DEF TypeOK, RowsLocked, Own, Pcs
<1>2. tx \in [Delivery -> Writes]
  BY DEF TypeOK, RowsLocked, Writes
<1>3. DOMAIN del' = DOMAIN del /\ del' \in [DOMAIN del -> [event: Events, pc: Pcs]]
  BY <1>1 DEF Own
<1>4. del'[d] = [del[d] EXCEPT !.pc = pc] /\ \A q \in DOMAIN del : q # d => del'[q] = del[q]
  BY <1>1 DEF Own
<1>5. \A q \in DOMAIN del : del'[q].event = del[q].event
  BY <1>1, <1>4 DEF Own
<1>6. del'[d].pc = pc
  BY <1>1, <1>4 DEF Own
<1>7. tx' \in [Delivery -> Writes] /\ tx'[d] = w /\ \A q \in Delivery : q # d => tx'[q] = tx[q]
  BY <1>1, <1>2 DEF Own
<1>8. InTransaction(d)' <=> pc \in Open
  BY <1>3, <1>6 DEF Own, InTransaction, Open
<1>9. \A q : q # d => (InTransaction(q)' <=> InTransaction(q))
  BY <1>3, <1>4 DEF InTransaction
<1> QED BY <1>1, <1>3, <1>4, <1>5, <1>6, <1>7, <1>8, <1>9 DEF Event

LEMMA OwnStep ==
    ASSUME IInv, NEW d, NEW pc \in Pcs, NEW w \in Writes, Own(d, pc, w),
           pc \notin Open => w = NoWrites,
           w.tenant # None => tx[d].tenant # None \/ TenantUnlocked(d),
           w.cred # None => tx[d].cred # None \/ CredentialUnlocked(d),
           pc \in Open => /\ TxOK(d)'
                          /\ \A q \in Delivery \ {d} :
                                InTransaction(q) => Event(q).id # Event(d).id
    PROVE  IInv'
<1> USE DEF IInv
<1>1. /\ d \in Delivery /\ DOMAIN del' = DOMAIN del
      /\ del' \in [DOMAIN del -> [event: Events, pc: Pcs]]
      /\ \A q \in DOMAIN del : Event(q)' = Event(q)
      /\ \A q \in DOMAIN del : q # d => del'[q] = del[q]
      /\ tx' \in [Delivery -> Writes] /\ tx'[d] = w
      /\ \A q \in Delivery : q # d => tx'[q] = tx[q]
      /\ InTransaction(d)' <=> pc \in Open
      /\ \A q : q # d => (InTransaction(q)' <=> InTransaction(q))
  BY OwnMoves
<1>2. TypeOK' /\ RowsLocked'
  <2>1. \A q \in Delivery : ~InTransaction(q)' => tx'[q] = NoWrites
    BY <1>1 DEF TypeOK, RowsLocked
  <2>2. ASSUME NEW p \in DOMAIN del, NEW q \in DOMAIN del, p # q, Event(p).code = Event(q).code
        PROVE  /\ tx'[p].tenant = None \/ tx'[q].tenant = None
               /\ tx'[p].cred = None \/ tx'[q].cred = None
    <3>1. p \in Delivery /\ q \in Delivery
      BY DEF TypeOK, RowsLocked
    <3>2. /\ tx[p].tenant = None \/ tx[q].tenant = None
          /\ tx[p].cred = None \/ tx[q].cred = None
      BY <2>2 DEF TypeOK, RowsLocked
    <3>3. ASSUME NEW x \in DOMAIN del \ {d}, Event(x).code = Event(d).code, d \in DOMAIN del
          PROVE  /\ w.tenant = None \/ tx[x].tenant = None
                 /\ w.cred = None \/ tx[x].cred = None
      <4>1. x \in Delivery /\ (~InTransaction(x) => tx[x] = NoWrites)
        BY DEF TypeOK, RowsLocked
      <4>2. /\ tx[x].tenant = None \/ tx[d].tenant = None
            /\ tx[x].cred = None \/ tx[d].cred = None
        BY <3>3 DEF TypeOK, RowsLocked
      <4> QED BY <3>3, <4>1, <4>2 DEF TenantUnlocked, CredentialUnlocked, NoWrites
    <3>4. CASE p # d /\ q # d
      BY <1>1, <3>1, <3>2, <3>4
    <3>5. CASE p = d \/ q = d
      BY <1>1, <2>2, <3>1, <3>3, <3>5
    <3> QED BY <3>4, <3>5
  <2>3. \A p, q \in DOMAIN del' : p # q /\ Event(p)'.code = Event(q)'.code =>
           /\ tx'[p].tenant = None \/ tx'[q].tenant = None
           /\ tx'[p].cred = None \/ tx'[q].cred = None
    BY <1>1, <2>2
  <2> QED BY <1>1, <2>1, <2>3 DEF TypeOK, RowsLocked, Own, Pcs, Writes
<1>3. TxInv'
  <2> SUFFICES ASSUME NEW q \in Delivery, InTransaction(q)' PROVE TxOK(q)'
    BY DEF TxInv
  <2>1. CASE q = d
    BY <1>1, <2>1
  <2>2. CASE q # d
    <3>1. InTransaction(q) /\ TxOK(q) /\ q \in DOMAIN del
      BY <1>1, <2>2 DEF TxInv, InTransaction
    <3>2. tx'[q] = tx[q] /\ del'[q] = del[q] /\ Event(q)' = Event(q)
      BY <1>1, <2>2, <3>1
    <3> QED BY <3>1, <3>2 DEF TxOK, Own, TenantWritten, CredWritten, Revoked
  <2> QED BY <2>1, <2>2
<1>4. OneInserts'
  BY <1>1 DEF OneInserts, InTransaction, Own
<1> QED BY <1>2, <1>3, <1>4 DEF Own, AppliedOnce, TenantsHaveCredentials

--------------------------------------------------------------------------------
\* Each action of a delivery preserves the invariant.
LEMMA ReceiveStep == ASSUME IInv, NEW d \in Delivery, Receive(d) PROVE IInv'
<1> USE DEF IInv
<1>1. PICK e \in Events :
        /\ d \notin DOMAIN del
        /\ del' = [q \in DOMAIN del \cup {d} |->
                     IF q = d
                     THEN [event |-> e,
                           pc |-> IF e.id \in receipts THEN "duplicate" ELSE "insert"]
                     ELSE del[q]]
  BY DEF Receive
<1>2. UNCHANGED <<tenants, creds, receipts, tx, applied>>
  BY DEF Receive
<1>3. /\ DOMAIN del' = DOMAIN del \cup {d}
      /\ del'[d] \in [event: Events, pc: {"duplicate", "insert"}]
      /\ \A q \in DOMAIN del : q # d /\ del'[q] = del[q]
  BY <1>1
<1>4. \A q : InTransaction(q)' <=> InTransaction(q)
  BY <1>1, <1>3 DEF InTransaction
<1>5. \A q : InTransaction(q) => q # d /\ del'[q] = del[q] /\ Event(q)' = Event(q)
  BY <1>3 DEF InTransaction, Event
<1>6. TypeOK' /\ RowsLocked'
  <2>1. del' \in [DOMAIN del' -> [event: Events, pc: Pcs]]
    BY <1>1, <1>3 DEF TypeOK, RowsLocked, Pcs
  <2>2. ~InTransaction(d) /\ tx[d] = NoWrites
    BY <1>1 DEF InTransaction, TypeOK, RowsLocked
  <2>3. ASSUME NEW p \in DOMAIN del', NEW q \in DOMAIN del', p # q, Event(p)'.code = Event(q)'.code
        PROVE  /\ tx[p].tenant = None \/ tx[q].tenant = None
               /\ tx[p].cred = None \/ tx[q].cred = None
    BY <1>3, <2>2, <2>3 DEF TypeOK, RowsLocked, Event, NoWrites
  <2> QED BY <1>2, <1>3, <1>4, <2>1, <2>3 DEF TypeOK, RowsLocked, Pcs
<1>7. TxInv'
  BY <1>2, <1>4, <1>5 DEF TxInv, TxOK, TenantWritten, CredWritten, Revoked
<1>8. OneInserts'
  BY <1>4, <1>5 DEF OneInserts
<1> QED BY <1>2, <1>6, <1>7, <1>8 DEF AppliedOnce, TenantsHaveCredentials

\* A transaction ends without effect, or a delivery is answered before it has one.
LEMMA ReleaseStep ==
    ASSUME IInv, NEW d \in DOMAIN del, NEW pc \in {"duplicate", "refused"}, Release(d, pc),
           UNCHANGED <<tenants, creds, receipts, applied>>
    PROVE  IInv'
<1>1. NoWrites \in Writes /\ NoWrites.tenant = None /\ NoWrites.cred = None
  BY DEF NoWrites, Writes
<1>2. Own(d, pc, NoWrites) /\ pc \in Pcs /\ pc \notin Open
  BY DEF Own, Release, Goto, Pcs, Open
<1> QED BY <1>1, <1>2, OwnStep

LEMMA InsertStep == ASSUME IInv, NEW d \in Delivery, InsertReceipt(d) PROVE IInv'
<1> DEFINE pc == IF Event(d).id \in receipts THEN "duplicate" ELSE "tenant"
<1>1. d \in DOMAIN del /\ del[d].pc = "insert" /\ ~InTransaction(d)
  BY DEF InsertReceipt, At, InTransaction
<1>2. tx \in [Delivery -> Writes] /\ tx[d] = NoWrites
  BY <1>1 DEF IInv, TypeOK, RowsLocked, Writes
<1>3. Own(d, pc, NoWrites)
  BY <1>1, <1>2 DEF Own, InsertReceipt, Goto
<1>4. pc \in Pcs /\ NoWrites \in Writes /\ NoWrites.tenant = None /\ NoWrites.cred = None
  BY DEF Pcs, NoWrites, Writes
<1>5. ASSUME pc \in Open
      PROVE  /\ TxOK(d)'
             /\ \A q \in Delivery \ {d} : InTransaction(q) => Event(q).id # Event(d).id
  <2>1. Event(d).id \notin receipts /\ pc = "tenant"
    BY <1>5 DEF Open
  <2>2. Event(d)' = Event(d) /\ del'[d].pc = "tenant" /\ tx'[d] = NoWrites
    BY <1>3, <1>4, <2>1, OwnMoves DEF IInv, Own
  <2> QED BY <2>1, <2>2 DEF TxOK, InsertReceipt
<1> HIDE DEF pc
<1> QED BY <1>3, <1>4, <1>5, OwnStep

\* A delivery in a transaction, and what the invariant says of it.
LEMMA Inside ==
    ASSUME IInv, NEW d, InTransaction(d)
    PROVE  /\ d \in DOMAIN del /\ d \in Delivery /\ TxOK(d)
           /\ Event(d) \in Events /\ tx[d] \in Writes
           /\ \A q \in Delivery \ {d} : InTransaction(q) => Event(q).id # Event(d).id
BY DEF IInv, InTransaction, TypeOK, RowsLocked, TxInv, OneInserts, Event, Writes

\* A statement of a transaction that writes the tenant's row or nothing.
LEMMA TenantStatement ==
    ASSUME IInv, NEW d \in Delivery, At(d, "tenant"),
           NEW pc \in {"credential", "commit"}, NEW row \in TenantRow \cup {None},
           tx' = [tx EXCEPT ![d].tenant = row], Goto(d, pc),
           UNCHANGED <<tenants, creds, receipts, applied>>,
           row # None => TenantUnlocked(d),
           Event(d).kind # "created" => tenants[Event(d).code] # None,
           \/ /\ Event(d).kind = "created"
              /\ row = NewTenant(Event(d))
           \/ /\ Event(d).kind \in StatusKinds
              /\ row = [tenants[Event(d).code] EXCEPT !.status = StatusAfter(Event(d).kind)]
           \/ Event(d).kind \in {"rotated", "revoked", "other"} /\ row = None,
           pc = IF Event(d).kind \in {"created", "rotated", "revoked"} THEN "credential" ELSE "commit"
    PROVE  IInv'
<1>1. InTransaction(d) /\ del[d].pc = "tenant"
  BY DEF At, InTransaction
<1>2. /\ d \in DOMAIN del /\ TxOK(d) /\ tx[d] \in Writes /\ Event(d) \in Events
      /\ \A q \in Delivery \ {d} : InTransaction(q) => Event(q).id # Event(d).id
  BY <1>1, Inside
<1>3. tx[d] = NoWrites
  BY <1>1, <1>2 DEF TxOK
<1> DEFINE w == [tenant |-> row, cred |-> None]
<1>4. w \in Writes /\ w.tenant = row /\ w.cred = None
  BY DEF Writes
<1>5. [tx[d] EXCEPT !.tenant = row] = w
  BY <1>3 DEF NoWrites
<1>6. Own(d, pc, w)
  BY <1>2, <1>5 DEF Own, Goto
<1>7. pc \in Pcs /\ pc \in Open
  BY DEF Pcs, Open
<1> HIDE DEF w
<1>8. TxOK(d)'
  <2>1. Event(d)' = Event(d) /\ del'[d].pc = pc /\ tx'[d] = w
    <3>1. /\ del'[d].pc = pc /\ tx'[d] = w
          /\ \A q \in DOMAIN del : Event(q)' = Event(q)
      BY ONLY IInv, <1>4, <1>6, <1>7, OwnMoves DEF IInv
    <3> QED BY <1>2, <3>1
  <2>2. Event(d).id \notin receipts /\ Event(d).kind \in Kinds
    BY <1>2, EventTypes DEF TxOK
  <2>3. pc = "commit" => Event(d).kind \in StatusKinds \cup {"other"}
    BY <2>2 DEF Kinds, StatusKinds
  <2>4. pc = "credential" => Event(d).kind \in {"created", "rotated", "revoked"}
    OBVIOUS
  <2>5. TenantWritten(d, Event(d))'
    BY <2>1, <1>4 DEF TenantWritten
  <2>6. pc = "commit" => CredWritten(d, Event(d))'
    BY <2>1, <2>3, <1>4 DEF CredWritten
  <2> QED BY <1>4, <2>1, <2>2, <2>4, <2>5, <2>6 DEF TxOK
<1> QED BY <1>2, <1>4, <1>6, <1>7, <1>8, OwnStep

\* The same for the statement that writes the secret.
LEMMA CredentialStatement ==
    ASSUME IInv, NEW d \in Delivery, At(d, "credential"), NEW row \in CredRow \cup {None},
           tx' = [tx EXCEPT ![d].cred = row], Goto(d, "commit"),
           UNCHANGED <<tenants, creds, receipts, applied>>,
           row # None => CredentialUnlocked(d),
           \/ Event(d).kind \in {"created", "rotated"} /\ row = NewCred(Event(d))
           \/ /\ Event(d).kind = "revoked"
              /\ \/ Event(d).client # None /\ row = None
                 \/ Revoked(Event(d)) /\ row = [creds[Event(d).code] EXCEPT !.revoked = TRUE]
    PROVE  IInv'
<1>1. InTransaction(d) /\ del[d].pc = "credential"
  BY DEF At, InTransaction
<1>2. /\ d \in DOMAIN del /\ TxOK(d) /\ tx[d] \in Writes /\ Event(d) \in Events
      /\ \A q \in Delivery \ {d} : InTransaction(q) => Event(q).id # Event(d).id
  BY <1>1, Inside
<1> DEFINE w == [tx[d] EXCEPT !.cred = row]
<1>3. w \in Writes /\ w.tenant = tx[d].tenant /\ w.cred = row
  BY <1>2 DEF Writes
<1>4. Own(d, "commit", w)
  BY <1>2 DEF Own, Goto
<1>5. "commit" \in Pcs /\ "commit" \in Open
  BY DEF Pcs, Open
<1>6. TxOK(d)'
  <2>1. Event(d)' = Event(d) /\ del'[d].pc = "commit" /\ tx'[d] = w
    BY <1>2, <1>3, <1>4, <1>5, OwnMoves DEF IInv
  <2>2. TenantWritten(d, Event(d))'
    BY <1>1, <1>2, <1>3, <2>1 DEF TxOK, TenantWritten
  <2>3. CredWritten(d, Event(d))'
    BY <1>3, <2>1 DEF CredWritten, Revoked
  <2> QED BY <1>1, <1>2, <2>1, <2>2, <2>3 DEF TxOK
<1> HIDE DEF w
<1> QED BY <1>2, <1>3, <1>4, <1>5, <1>6, OwnStep

LEMMA UpsertStep == ASSUME IInv, NEW d \in Delivery, UpsertTenant(d) PROVE IInv'
<1>1. CASE IdTaken(Event(d))
  <2>1. d \in DOMAIN del /\ Release(d, "duplicate") /\ UNCHANGED <<tenants, creds, receipts, applied>>
    BY <1>1 DEF UpsertTenant, At
  <2> QED BY <2>1, ReleaseStep
<1>2. CASE ~IdTaken(Event(d))
  <2>1. /\ At(d, "tenant") /\ Event(d).kind = "created" /\ TenantUnlocked(d)
        /\ tx' = [tx EXCEPT ![d].tenant = NewTenant(Event(d))] /\ Goto(d, "credential")
        /\ UNCHANGED <<tenants, creds, receipts, applied>>
    BY <1>2 DEF UpsertTenant, NewTenant
  <2>2. NewTenant(Event(d)) \in TenantRow \cup {None}
    BY <2>1, DelTypes, EventTypes DEF At, IInv
  <2> QED BY <2>1, <2>2, TenantStatement
<1> QED BY <1>1, <1>2

LEMMA UpdateStep == ASSUME IInv, NEW d \in Delivery, UpdateStatus(d) PROVE IInv'
<1> DEFINE row == [tenants[Event(d).code] EXCEPT !.status = StatusAfter(Event(d).kind)]
<1>1. /\ At(d, "tenant") /\ Event(d).kind \in StatusKinds /\ TenantUnlocked(d)
      /\ tenants[Event(d).code] # None
      /\ tx' = [tx EXCEPT ![d].tenant = row] /\ Goto(d, "commit")
      /\ UNCHANGED <<tenants, creds, receipts, applied>>
  BY DEF UpdateStatus
<1>2. Event(d).code \in Code
  BY <1>1, DelTypes, EventTypes DEF At, IInv
<1>3. tenants[Event(d).code] \in TenantRow
  BY <1>1, <1>2 DEF IInv, TypeOK, RowsLocked
<1>4. row \in TenantRow \cup {None}
  BY <1>1, <1>3, RowTypes
<1>5. Event(d).kind \notin {"created", "rotated", "revoked"}
  BY <1>1 DEF StatusKinds
<1> QED BY <1>1, <1>4, <1>5, TenantStatement

LEMMA FindStep == ASSUME IInv, NEW d \in Delivery, FindTenant(d) PROVE IInv'
<1> DEFINE pc == IF Event(d).kind = "other" THEN "commit" ELSE "credential"
<1>1. /\ At(d, "tenant") /\ Event(d).kind \in {"rotated", "revoked", "other"}
      /\ tenants[Event(d).code] # None /\ Goto(d, pc)
      /\ UNCHANGED <<tenants, creds, receipts, tx, applied>>
  BY DEF FindTenant
<1>2. tx' = [tx EXCEPT ![d].tenant = None]
  <2>1. InTransaction(d) /\ del[d].pc = "tenant"
    BY <1>1 DEF At, InTransaction
  <2>2. tx[d] = NoWrites /\ tx \in [Delivery -> Writes]
    BY <2>1, Inside DEF TxOK, IInv, TypeOK, RowsLocked, Writes
  <2>3. [tx[d] EXCEPT !.tenant = None] = tx[d]
    BY <2>2 DEF NoWrites
  <2> QED BY <1>1, <2>2, <2>3
<1>3. /\ pc \in {"credential", "commit"} /\ Event(d).kind # "created"
      /\ pc = IF Event(d).kind \in {"created", "rotated", "revoked"} THEN "credential" ELSE "commit"
  BY <1>1
<1> HIDE DEF pc
<1> QED BY <1>1, <1>2, <1>3, TenantStatement

LEMMA SaveStep == ASSUME IInv, NEW d \in Delivery, SaveCredential(d) PROVE IInv'
<1>1. /\ At(d, "credential") /\ Event(d).kind \in {"created", "rotated"} /\ CredentialUnlocked(d)
      /\ tx' = [tx EXCEPT ![d].cred = NewCred(Event(d))] /\ Goto(d, "commit")
      /\ UNCHANGED <<tenants, creds, receipts, applied>>
  BY DEF SaveCredential, NewCred
<1>2. NewCred(Event(d)) \in CredRow \cup {None}
  BY <1>1, DelTypes, EventTypes DEF At, IInv
<1> QED BY <1>1, <1>2, CredentialStatement

LEMMA RevokeStep == ASSUME IInv, NEW d \in Delivery, RevokeCredential(d) PROVE IInv'
<1> DEFINE old == creds[Event(d).code]
<1>1. /\ At(d, "credential") /\ Event(d).kind = "revoked" /\ CredentialUnlocked(d)
      /\ tx' = IF old # None /\ Event(d).client \in {None, old.client}
               THEN [tx EXCEPT ![d].cred = [old EXCEPT !.revoked = TRUE]]
               ELSE tx
      /\ Goto(d, "commit")
      /\ UNCHANGED <<tenants, creds, receipts, applied>>
  BY DEF RevokeCredential
<1>2. CASE old # None /\ Event(d).client \in {None, old.client}
  <2>1. Event(d).code \in Code
    BY <1>1, DelTypes, EventTypes DEF At, IInv
  <2>2. [old EXCEPT !.revoked = TRUE] \in CredRow \cup {None}
    BY <1>2, <2>1, RowTypes DEF IInv, TypeOK, RowsLocked
  <2>3. Revoked(Event(d)) /\ tx' = [tx EXCEPT ![d].cred = [old EXCEPT !.revoked = TRUE]]
    BY <1>1, <1>2 DEF Revoked
  <2> QED BY <1>1, <2>2, <2>3, CredentialStatement
<1>3. CASE ~(old # None /\ Event(d).client \in {None, old.client})
  <2>1. InTransaction(d) /\ del[d].pc = "credential"
    BY <1>1 DEF At, InTransaction
  <2>2. /\ tx[d] \in Writes /\ tx[d].cred = None /\ tx \in [Delivery -> Writes]
        /\ Event(d).kind # "created" => tenants[Event(d).code] # None
    BY <2>1, Inside DEF TxOK, IInv, TypeOK, RowsLocked, Writes
  <2>3. [tx[d] EXCEPT !.cred = None] = tx[d]
    BY <2>2 DEF Writes
  <2>4. tx' = [tx EXCEPT ![d].cred = None]
    BY <1>1, <1>3, <2>2, <2>3
  <2>5. old # None
    <3>1. Event(d).code \in Code
      BY <1>1, DelTypes, EventTypes DEF At, IInv
    <3> QED BY <1>1, <2>2, <3>1 DEF IInv, TenantsHaveCredentials
  <2>6. Event(d).client # None
    BY <1>3, <2>5
  <2> QED BY <1>1, <2>4, <2>6, CredentialStatement
<1> QED BY <1>2, <1>3

--------------------------------------------------------------------------------
\* A commit publishes the event whole, on top of the rows committed before: this is
\* the step of SubscriptionLog, and the only one that changes the tables.
LEMMA CommitIsHandle ==
    ASSUME IInv, NEW d \in Delivery, Commit(d)
    PROVE  Event(d) \in Events /\ Log!Handle(Event(d))
<1> DEFINE e == Event(d)
<1>1. InTransaction(d) /\ del[d].pc = "commit"
  BY DEF Commit, At, InTransaction
<1>2. /\ e \in Events /\ e.kind \in Kinds /\ e.code \in Code /\ tx[d] \in Writes
      /\ e.id \notin receipts /\ (e.kind # "created" => tenants[e.code] # None)
      /\ TenantWritten(d, e) /\ CredWritten(d, e)
  BY <1>1, Inside, EventTypes DEF TxOK
<1>3. /\ tenants' = IF tx[d].tenant = None THEN tenants
                    ELSE [tenants EXCEPT ![e.code] = tx[d].tenant]
      /\ creds' = IF tx[d].cred = None THEN creds
                  ELSE [creds EXCEPT ![e.code] = tx[d].cred]
      /\ receipts' = receipts \cup {e.id}
  BY DEF Commit
<1>4. (e.kind = "created" => NewTenant(e) # None) /\ NewCred(e) # None
  BY <1>2, EventTypes
<1>5. tenants \in [Code -> TenantRow \cup {None}] /\ creds \in [Code -> CredRow \cup {None}]
  BY DEF IInv, TypeOK, RowsLocked
<1> HIDE DEF e
<1>6. CASE e.kind = "created"
  <2>1. tx[d].tenant = NewTenant(e) /\ tx[d].cred = NewCred(e)
    BY <1>2, <1>6 DEF TenantWritten, CredWritten, StatusKinds
  <2> QED BY <1>2, <1>3, <1>4, <1>6, <2>1 DEF Log!Handle, Log!Create, Log!Fresh, NewTenant, NewCred, e
<1>7. CASE e.kind \in StatusKinds
  <2>1. /\ tx[d].tenant = [tenants[e.code] EXCEPT !.status = StatusAfter(e.kind)]
        /\ tx[d].cred = None
    BY <1>2, <1>7 DEF TenantWritten, CredWritten, StatusKinds
  <2>2. tenants[e.code] # None /\ tenants[e.code] \in TenantRow
    BY <1>2, <1>5, <1>7 DEF StatusKinds
  <2>3. tx[d].tenant # None
    BY <1>7, <2>1, <2>2, RowTypes
  <2>4. StatusAfter(e.kind) = Log!StatusAfter(e.kind)
    BY DEF StatusAfter, Log!StatusAfter
  <2>5. Log!ChangeStatus(e)
    BY <1>3, <2>1, <2>3, <2>4 DEF Log!ChangeStatus
  <2> QED BY <1>2, <1>3, <1>7, <2>2, <2>5 DEF Log!Handle, StatusKinds, e
<1>8. CASE e.kind = "rotated"
  <2>1. tx[d].tenant = None /\ tx[d].cred = NewCred(e)
    BY <1>2, <1>8 DEF TenantWritten, CredWritten, StatusKinds
  <2> QED BY <1>2, <1>3, <1>4, <1>8, <2>1 DEF Log!Handle, Log!Rotate, Log!Fresh, NewCred, e
<1>9. CASE e.kind = "revoked"
  <2>1. tx[d].tenant = None
    BY <1>2, <1>9 DEF TenantWritten, StatusKinds
  <2>2. \/ e.client # None /\ tx[d].cred = None
        \/ /\ creds[e.code] # None /\ e.client \in {None, creds[e.code].client}
           /\ tx[d].cred = [creds[e.code] EXCEPT !.revoked = TRUE]
    BY <1>2, <1>9 DEF CredWritten, StatusKinds, Revoked
  <2>3. creds[e.code] # None => [creds[e.code] EXCEPT !.revoked = TRUE] # None
    BY <1>2, <1>5, RowTypes
  <2>4. Log!Revoke(e)
    BY <1>3, <2>1, <2>2, <2>3 DEF Log!Revoke
  <2> QED BY <1>2, <1>3, <1>9, <2>4 DEF Log!Handle, e
<1>10. CASE e.kind = "other"
  <2>1. tx[d].tenant = None /\ tx[d].cred = None
    BY <1>2, <1>10 DEF TenantWritten, CredWritten, StatusKinds
  <2> QED BY <1>2, <1>3, <1>10, <2>1 DEF Log!Handle, e
<1> QED BY <1>2, <1>6, <1>7, <1>8, <1>9, <1>10 DEF Kinds, StatusKinds, e

LEMMA CommitStep == ASSUME IInv, NEW d \in Delivery, Commit(d) PROVE IInv'
<1> USE DEF IInv
<1> DEFINE e == Event(d)
<1>1. InTransaction(d) /\ del[d].pc = "commit"
  BY DEF Commit, At, InTransaction
<1>2. /\ d \in DOMAIN del /\ e \in Events /\ e.kind \in Kinds /\ e.code \in Code /\ e.id \in EventIds
      /\ tx[d] \in Writes /\ e.id \notin receipts /\ (e.kind # "created" => tenants[e.code] # None)
      /\ TenantWritten(d, e) /\ CredWritten(d, e)
      /\ \A q \in Delivery \ {d} : InTransaction(q) => Event(q).id # e.id
  BY <1>1, Inside, EventTypes DEF TxOK
<1>3. /\ tenants' = IF tx[d].tenant = None THEN tenants
                    ELSE [tenants EXCEPT ![e.code] = tx[d].tenant]
      /\ creds' = IF tx[d].cred = None THEN creds
                  ELSE [creds EXCEPT ![e.code] = tx[d].cred]
      /\ receipts' = receipts \cup {e.id}
      /\ applied' = [applied EXCEPT ![e.id] = @ + 1]
      /\ del' = [del EXCEPT ![d].pc = "applied"]
      /\ tx' = [tx EXCEPT ![d] = NoWrites]
  BY DEF Commit, Release, Goto
<1>4. /\ tenants \in [Code -> TenantRow \cup {None}] /\ creds \in [Code -> CredRow \cup {None}]
      /\ tx \in [Delivery -> Writes] /\ del \in [DOMAIN del -> [event: Events, pc: Pcs]]
  BY DEF TypeOK, RowsLocked, Writes, Pcs
<1>5. /\ DOMAIN del' = DOMAIN del /\ del' \in [DOMAIN del -> [event: Events, pc: Pcs]]
      /\ \A q \in DOMAIN del : q # d => del'[q] = del[q]
      /\ \A q \in DOMAIN del : Event(q)' = Event(q)
      /\ del'[d].pc = "applied"
  BY <1>2, <1>3, <1>4 DEF Pcs, Event
<1>6. /\ ~InTransaction(d)'
      /\ \A q : q # d => (InTransaction(q)' <=> InTransaction(q))
  BY <1>5 DEF InTransaction
<1>7. /\ tenants' \in [Code -> TenantRow \cup {None}] /\ creds' \in [Code -> CredRow \cup {None}]
      /\ \A c \in Code : /\ c # e.code \/ tx[d].tenant = None => tenants'[c] = tenants[c]
                         /\ c # e.code \/ tx[d].cred = None => creds'[c] = creds[c]
                         /\ tenants[c] # None => tenants'[c] # None
                         /\ creds[c] # None => creds'[c] # None
  BY <1>2, <1>3, <1>4 DEF Writes
<1>8. /\ tx' \in [Delivery -> Writes] /\ tx'[d] = NoWrites
      /\ \A q \in Delivery : q # d => tx'[q] = tx[q]
  BY <1>3, <1>4 DEF Writes, NoWrites
<1> HIDE DEF e
<1>9. TypeOK' /\ RowsLocked'
  <2>1. \A q \in Delivery : ~InTransaction(q)' => tx'[q] = NoWrites
    BY <1>6, <1>8 DEF TypeOK, RowsLocked
  <2>2. ASSUME NEW p \in DOMAIN del', NEW q \in DOMAIN del', p # q, Event(p)'.code = Event(q)'.code
        PROVE  /\ tx'[p].tenant = None \/ tx'[q].tenant = None
               /\ tx'[p].cred = None \/ tx'[q].cred = None
    <3>1. p \in Delivery /\ q \in Delivery /\ Event(p).code = Event(q).code
      BY <1>5, <2>2 DEF TypeOK, RowsLocked
    <3>2. /\ tx[p].tenant = None \/ tx[q].tenant = None
          /\ tx[p].cred = None \/ tx[q].cred = None
      BY <1>5, <2>2, <3>1 DEF TypeOK, RowsLocked
    <3> QED BY <1>8, <3>1, <3>2 DEF NoWrites
  <2>3. receipts' \subseteq EventIds /\ applied' \in [EventIds -> Nat]
    BY <1>2, <1>3 DEF TypeOK, RowsLocked
  <2> QED BY <1>5, <1>7, <1>8, <2>1, <2>2, <2>3 DEF TypeOK, RowsLocked, Pcs, Writes
<1>10. TxInv'
  <2> SUFFICES ASSUME NEW q \in Delivery, InTransaction(q)' PROVE TxOK(q)'
    BY DEF TxInv
  <2>1. q # d /\ InTransaction(q)
    BY <1>6
  <2>2. /\ q \in DOMAIN del /\ TxOK(q) /\ Event(q) \in Events /\ Event(q).code \in Code
        /\ Event(q).id # e.id /\ Event(q).kind \in Kinds
    BY <1>2, <2>1, Inside, EventTypes
  <2>3. tx'[q] = tx[q] /\ del'[q] = del[q] /\ Event(q)' = Event(q)
    BY <1>5, <1>8, <2>1, <2>2
  <2>4. Event(q).code = e.code => /\ tx[q].tenant = None \/ tx[d].tenant = None
                                  /\ tx[q].cred = None \/ tx[d].cred = None
    BY <1>2, <2>1, <2>2 DEF TypeOK, RowsLocked, e
  <2>5. TenantWritten(q, Event(q)) /\ Event(q).kind # "created" /\ tenants[Event(q).code] # None
          => TenantWritten(q, Event(q))'
    <3>1. CASE Event(q).kind \in StatusKinds
      <4> SUFFICES ASSUME TenantWritten(q, Event(q)), tenants[Event(q).code] # None
                   PROVE  TenantWritten(q, Event(q))'
        OBVIOUS
      <4>1. tx[q].tenant = [tenants[Event(q).code] EXCEPT !.status = StatusAfter(Event(q).kind)]
        BY <3>1 DEF TenantWritten, StatusKinds
      <4>2. tx[q].tenant # None
        BY <1>4, <2>2, <3>1, <4>1, RowTypes
      <4>3. tenants'[Event(q).code] = tenants[Event(q).code]
        BY <1>7, <2>2, <2>4, <4>2
      <4> QED BY <2>3, <3>1, <4>1, <4>3 DEF TenantWritten
    <3>2. CASE Event(q).kind \in {"rotated", "revoked", "other"}
      BY <2>3, <3>2 DEF TenantWritten, StatusKinds
    <3> QED BY <2>2, <3>1, <3>2 DEF Kinds, StatusKinds
  <2>6. TenantWritten(q, Event(q)) /\ Event(q).kind = "created" => TenantWritten(q, Event(q))'
    BY <2>3 DEF TenantWritten, StatusKinds
  <2>7. CredWritten(q, Event(q)) => CredWritten(q, Event(q))'
    <3>1. CASE tx[q].cred = None
      <4>1. NewCred(Event(q)) # None
        BY <2>2, EventTypes
      <4>2. creds[Event(q).code] # None => [creds[Event(q).code] EXCEPT !.revoked = TRUE] # None
        BY <1>4, <2>2, RowTypes
      <4> QED BY <2>3, <3>1, <4>1, <4>2 DEF CredWritten, Revoked
    <3>2. CASE tx[q].cred # None
      <4>1. creds'[Event(q).code] = creds[Event(q).code]
        BY <1>7, <2>2, <2>4, <3>2
      <4> QED BY <2>3, <4>1 DEF CredWritten, Revoked
    <3> QED BY <3>1, <3>2
  <2>8. Event(q).id \notin receipts' /\ (tenants[Event(q).code] # None => tenants'[Event(q).code] # None)
    BY <1>3, <1>7, <2>2 DEF TxOK
  <2> QED BY <2>2, <2>3, <2>5, <2>6, <2>7, <2>8 DEF TxOK
<1>11. OneInserts'
  BY <1>5, <1>6 DEF OneInserts, InTransaction
<1>12. AppliedOnce'
  <2>1. DOMAIN applied = EventIds
    BY DEF TypeOK, RowsLocked
  <2> QED BY <1>2, <1>3, <2>1 DEF AppliedOnce
<1>13. TenantsHaveCredentials'
  <2> SUFFICES ASSUME NEW c \in Code, tenants'[c] # None PROVE creds'[c] # None
    BY DEF TenantsHaveCredentials
  <2>1. CASE tenants[c] # None
    BY <1>7, <2>1 DEF TenantsHaveCredentials
  <2>2. CASE tenants[c] = None
    <3>1. c = e.code /\ tx[d].tenant # None
      BY <1>7, <2>2
    <3>2. e.kind = "created"
      BY <1>2, <2>2, <3>1
    <3>3. tx[d].cred = NewCred(e)
      BY <1>2, <3>2 DEF CredWritten, StatusKinds
    <3> QED BY <1>2, <1>3, <1>4, <3>1, <3>3, EventTypes
  <2> QED BY <2>1, <2>2
<1> QED BY <1>9, <1>10, <1>11, <1>12, <1>13

--------------------------------------------------------------------------------
LEMMA UnchangedStep == ASSUME IInv, UNCHANGED vars PROVE IInv'
BY DEF IInv, vars, TypeOK, RowsLocked, TxInv, TxOK, TenantWritten, CredWritten, Revoked, OneInserts,
       AppliedOnce, TenantsHaveCredentials, InTransaction, Event

LEMMA NextInv == ASSUME IInv, [Next]_vars PROVE IInv'
<1>1. ASSUME NEW d \in Delivery, Receive(d) PROVE IInv'
  BY <1>1, ReceiveStep
<1>2. ASSUME NEW d \in Delivery, InsertReceipt(d) PROVE IInv'
  BY <1>2, InsertStep
<1>3. ASSUME NEW d \in Delivery, UpsertTenant(d) PROVE IInv'
  BY <1>3, UpsertStep
<1>4. ASSUME NEW d \in Delivery, UnknownTenant(d) PROVE IInv'
  BY <1>4, ReleaseStep DEF UnknownTenant, At
<1>5. ASSUME NEW d \in Delivery, UpdateStatus(d) PROVE IInv'
  BY <1>5, UpdateStep
<1>6. ASSUME NEW d \in Delivery, FindTenant(d) PROVE IInv'
  BY <1>6, FindStep
<1>7. ASSUME NEW d \in Delivery, SaveCredential(d) PROVE IInv'
  BY <1>7, SaveStep
<1>8. ASSUME NEW d \in Delivery, RevokeCredential(d) PROVE IInv'
  BY <1>8, RevokeStep
<1>9. ASSUME NEW d \in Delivery, Commit(d) PROVE IInv'
  BY <1>9, CommitStep
<1>10. ASSUME NEW d \in Delivery, Abort(d) PROVE IInv'
  BY <1>10, ReleaseStep DEF Abort, InTransaction
<1>11. CASE UNCHANGED vars
  BY <1>11, UnchangedStep
<1> QED BY <1>1, <1>2, <1>3, <1>4, <1>5, <1>6, <1>7, <1>8, <1>9, <1>10, <1>11 DEF Next

\* The invariant the other theorems rest on: what a transaction in progress has
\* written is what its event writes on top of the committed rows.
THEOREM Invariance == Spec => []IInv
<1>1. Init => IInv
  BY InitInv
<1>2. IInv /\ [Next]_vars => IInv'
  BY NextInv
<1> QED BY <1>1, <1>2, PTL DEF Spec

\* Tables, deliveries and transactions of receive() always have their types, every
\* tenant has an EduPlus id, and a transaction that is not in progress wrote nothing.
THEOREM TypeCorrect == Spec => []TypeOK
<1>1. IInv => TypeOK
  BY DEF IInv
<1> QED BY <1>1, Invariance, PTL

\* Whatever is delivered however often, an event takes effect once at most, and a
\* receipt says exactly that it did.
THEOREM EventsApplyOnce == Spec => []AppliedOnce
<1>1. IInv => AppliedOnce
  BY DEF IInv
<1> QED BY <1>1, Invariance, PTL

\* No tenant is ever visible without a client secret.
THEOREM NoTenantWithoutSecret == Spec => []TenantsHaveCredentials
<1>1. IInv => TenantsHaveCredentials
  BY DEF IInv
<1> QED BY <1>1, Invariance, PTL

--------------------------------------------------------------------------------
\* A step of one delivery that is not its commit leaves the tables alone.
LEMMA TablesStep ==
    ASSUME [Next]_vars
    PROVE  UNCHANGED <<tenants, creds, receipts>> \/ \E d \in Delivery : Commit(d)
BY DEF Next, vars, Receive, InsertReceipt, UpsertTenant, UnknownTenant, UpdateStatus, FindTenant,
       SaveCredential, RevokeCredential, Abort

\* The transactions of receive() implement SubscriptionLog: every commit is one event
\* handled whole, and no other step shows.
THEOREM Refinement == Spec => LogSpec
<1>1. Init => Log!Init
  BY DEF Init, Log!Init
<1>2. IInv /\ [Next]_vars => [Log!Next]_<<tenants, creds, receipts>>
  <2> SUFFICES ASSUME IInv, [Next]_vars PROVE [Log!Next]_<<tenants, creds, receipts>>
    OBVIOUS
  <2>1. ASSUME NEW d \in Delivery, Commit(d) PROVE Log!Next
    BY <2>1, CommitIsHandle DEF Log!Next
  <2> QED BY <2>1, TablesStep
<1> QED BY <1>1, <1>2, Invariance, PTL DEF Spec, LogSpec, Log!Spec

\* The deliveries a step acknowledges: by a receipt that is there, by the clash of
\* two tenants' EduPlus ids, or by the commit that adds the receipt.
LEMMA AcknowledgedStep ==
    ASSUME IInv, [Next]_vars, NEW d \in Delivery, ~Acknowledged(d), Acknowledged(d)'
    PROVE  Event(d)'.id \in receipts' \/ (Event(d)'.kind = "created" /\ IdTaken(Event(d)'))
<1>1. ASSUME NEW q \in DOMAIN del, NEW pc \in Pcs, del' = [del EXCEPT ![q].pc = pc]
      PROVE  /\ q = d /\ d \in DOMAIN del /\ Event(d)' = Event(d) /\ pc \in {"applied", "duplicate"}
  <2>1. /\ DOMAIN del' = DOMAIN del /\ \A x \in DOMAIN del : x # q => del'[x] = del[x]
        /\ del'[q].event = del[q].event /\ del'[q].pc = pc
    BY <1>1 DEF IInv, TypeOK, RowsLocked
  <2> QED BY <2>1 DEF Acknowledged, Event
<1>2. ASSUME NEW q \in Delivery, Receive(q)
      PROVE  Event(d)'.id \in receipts'
  <2>1. PICK e \in Events :
          /\ q \notin DOMAIN del
          /\ del' = [x \in DOMAIN del \cup {q} |->
                       IF x = q
                       THEN [event |-> e,
                             pc |-> IF e.id \in receipts THEN "duplicate" ELSE "insert"]
                       ELSE del[x]]
          /\ receipts' = receipts
    BY <1>2 DEF Receive
  <2>2. q = d
    BY <2>1 DEF Acknowledged
  <2>3. del'[d] = [event |-> e, pc |-> IF e.id \in receipts THEN "duplicate" ELSE "insert"]
    BY <2>1, <2>2
  <2> QED BY <2>1, <2>3 DEF Acknowledged, Event
<1>3. ASSUME NEW q \in Delivery, InsertReceipt(q)
      PROVE  Event(d)'.id \in receipts'
  <2>1. /\ q \in DOMAIN del /\ receipts' = receipts
        /\ del' = [del EXCEPT ![q].pc = IF Event(q).id \in receipts THEN "duplicate" ELSE "tenant"]
    BY <1>3 DEF InsertReceipt, At, Goto
  <2> QED BY <1>1, <2>1 DEF Pcs
<1>4. ASSUME NEW q \in Delivery, UpsertTenant(q)
      PROVE  Event(d)'.kind = "created" /\ IdTaken(Event(d)')
  <2>1. /\ q \in DOMAIN del /\ Event(q).kind = "created" /\ UNCHANGED tenants
        /\ del' = [del EXCEPT ![q].pc = IF IdTaken(Event(q)) THEN "duplicate" ELSE "credential"]
    BY <1>4 DEF UpsertTenant, At, Goto, Release
  <2>2. q = d /\ Event(d)' = Event(d) /\ IdTaken(Event(d))
    BY <1>1, <2>1 DEF Pcs
  <2> QED BY <2>1, <2>2
<1>5. ASSUME NEW q \in Delivery, UnknownTenant(q) \/ Abort(q) PROVE FALSE
  <2>1. q \in DOMAIN del /\ del' = [del EXCEPT ![q].pc = "refused"]
    BY <1>5 DEF UnknownTenant, Abort, At, InTransaction, Release, Goto
  <2> QED BY <1>1, <2>1 DEF Pcs
<1>6. ASSUME NEW q \in Delivery,
             UpdateStatus(q) \/ FindTenant(q) \/ SaveCredential(q) \/ RevokeCredential(q)
      PROVE  FALSE
  <2>1. PICK pc \in {"credential", "commit"} : del' = [del EXCEPT ![q].pc = pc]
    BY <1>6 DEF UpdateStatus, FindTenant, SaveCredential, RevokeCredential, Goto
  <2>2. q \in DOMAIN del
    BY <1>6 DEF UpdateStatus, FindTenant, SaveCredential, RevokeCredential, At
  <2> QED BY <1>1, <2>1, <2>2 DEF Pcs
<1>7. ASSUME NEW q \in Delivery, Commit(q) PROVE Event(d)'.id \in receipts'
  <2>1. /\ q \in DOMAIN del /\ del' = [del EXCEPT ![q].pc = "applied"]
        /\ receipts' = receipts \cup {Event(q).id}
    BY <1>7 DEF Commit, Release, Goto, At
  <2> QED BY <1>1, <2>1 DEF Pcs
<1>8. CASE UNCHANGED vars
  BY <1>8 DEF vars, Acknowledged
<1> QED BY <1>2, <1>3, <1>4, <1>5, <1>6, <1>7, <1>8 DEF Next

\* A delivery is acknowledged without a receipt only when a tenant is created under
\* a new code with the EduPlus id of another.
THEOREM UnrecordedOnClash == Spec => UnrecordedOnlyOnClash
<1>1. IInv /\ [Next]_vars =>
        [\A d \in Delivery : ~Acknowledged(d) /\ Acknowledged(d)' =>
            Event(d)'.id \in receipts' \/ (Event(d)'.kind = "created" /\ IdTaken(Event(d)'))]_vars
  BY AcknowledgedStep
<1> QED BY <1>1, Invariance, PTL DEF Spec, UnrecordedOnlyOnClash

================================================================================
