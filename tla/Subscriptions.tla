----------------------------- MODULE Subscriptions -----------------------------
(***************************************************************************)
(* SubscriptionsService.receive() (src/backend/src/subscriptions): signed  *)
(* webhook events of EduPlus, delivered in any order and any number of     *)
(* times, handled each in one database transaction (READ COMMITTED).  Each *)
(* statement is a step; a transaction's writes are private and locked      *)
(* until it commits.  Deliveries with a bad signature or body write        *)
(* nothing and are left out.                                               *)
(***************************************************************************)
EXTENDS Naturals

CONSTANTS
    Delivery,  \* webhook requests, each used once
    Events,    \* the events EduPlus may send
    Code,      \* tenant codes
    None       \* no row, no value

\* "other": events that change nothing (renewed, expiring, plan_changed).
Kinds == {"created", "suspended", "reactivated", "terminated", "expired",
          "rotated", "revoked", "other"}
StatusKinds == {"suspended", "reactivated", "terminated", "expired"}
EventIds == {e.id : e \in Events}
EduplusIds == {e.eduplus : e \in Events}

ASSUME EventData ==
    /\ \A e \in Events : /\ e.kind \in Kinds /\ e.code \in Code
                         /\ e.kind = "created" => e.eduplus # None
    /\ \A e, f \in Events : e.id = f.id => e = f

TenantRow == [eduplus: EduplusIds \ {None}, status: {"ACTIVE", "SUSPENDED", "REVOKED"}]
CredRow == [client: {e.client : e \in Events}, secret: {e.secret : e \in Events},
            revoked: BOOLEAN]

ASSUME Markers == None \notin TenantRow /\ None \notin CredRow

VARIABLES
    tenants,   \* table tenants, by code: EduPlus tenant id and status
    creds,     \* table tenant_credentials, by tenant code: the OAuth client secret
    receipts,  \* table webhook_receipts: the event ids
    del,       \* the deliveries that have arrived
    tx,        \* per delivery: the rows its transaction has written and locked
    applied    \* how often an event's transaction has committed (history)

vars == <<tenants, creds, receipts, del, tx, applied>>

NoWrites == [tenant |-> None, cred |-> None]

Init ==
    /\ tenants = [c \in Code |-> None]
    /\ creds = [c \in Code |-> None]
    /\ receipts = {}
    /\ del = [d \in {} |-> {}]
    /\ tx = [d \in Delivery |-> NoWrites]
    /\ applied = [i \in EventIds |-> 0]

At(d, pc) == d \in DOMAIN del /\ del[d].pc = pc
Goto(d, pc) == del' = [del EXCEPT ![d].pc = pc]
Event(d) == del[d].event
InTransaction(d) == d \in DOMAIN del /\ del[d].pc \in {"tenant", "credential", "commit"}
\* The transaction ends without effect.
Release(d, pc) == Goto(d, pc) /\ tx' = [tx EXCEPT ![d] = NoWrites]

--------------------------------------------------------------------------------
\* A delivery arrives; a receipt that is already there ends it.
Receive(d) ==
    \E e \in Events :
        /\ d \notin DOMAIN del
        /\ del' = [q \in DOMAIN del \cup {d} |->
                     IF q = d
                     THEN [event |-> e,
                           pc |-> IF e.id \in receipts THEN "duplicate" ELSE "insert"]
                     ELSE del[q]]
        /\ UNCHANGED <<tenants, creds, receipts, tx, applied>>

BugNoUniqueReceipt(d) ==
    /\ At(d, "insert")
    /\ Goto(d, "tenant")
    /\ UNCHANGED <<tenants, creds, receipts, tx, applied>>

\* The insert of the receipt waits for a transaction that has inserted the same id.
InsertReceipt(d) ==
    /\ At(d, "insert")
    /\ \A q \in Delivery \ {d} : InTransaction(q) => Event(q).id # Event(d).id
    /\ Goto(d, IF Event(d).id \in receipts THEN "duplicate" ELSE "tenant")
    /\ UNCHANGED <<tenants, creds, receipts, tx, applied>>

\* No other transaction has written the tenant's row.
TenantUnlocked(d) ==
    \A q \in Delivery \ {d} :
        InTransaction(q) /\ Event(q).code = Event(d).code => tx[q].tenant = None

\* Another tenant's row has, or will have, the EduPlus id of the event.
Claims(c, e) == tenants[c] # None /\ tenants[c].eduplus = e.eduplus
ClaimPending(d) ==
    \E q \in Delivery \ {d} :
        /\ InTransaction(q) /\ tx[q].tenant # None
        /\ tx[q].tenant.eduplus = Event(d).eduplus \/ Claims(Event(q).code, Event(d))
IdTaken(e) == \E c \in Code \ {e.code} : Claims(c, e)

BugUpsertWithoutSecret(d) ==
    /\ At(d, "tenant") /\ Event(d).kind = "created"
    /\ TenantUnlocked(d) /\ ~ClaimPending(d) /\ ~IdTaken(Event(d))
    /\ tx' = [tx EXCEPT ![d].tenant = [eduplus |-> Event(d).eduplus, status |-> "ACTIVE"]]
    /\ Goto(d, "commit")
    /\ UNCHANGED <<tenants, creds, receipts, applied>>

BugUpsertAnyKind(d) ==
    /\ At(d, "tenant")
    /\ TenantUnlocked(d) /\ ~ClaimPending(d) /\ ~IdTaken(Event(d))
    /\ tx' = [tx EXCEPT ![d].tenant = [eduplus |-> Event(d).eduplus, status |-> "ACTIVE"]]
    /\ Goto(d, "credential")
    /\ UNCHANGED <<tenants, creds, receipts, applied>>

\* subscription.created: the upsert of the tenant.  A violated unique EduPlus id is
\* P2002 as well and is answered like a duplicate.
UpsertTenant(d) ==
    /\ At(d, "tenant") /\ Event(d).kind = "created"
    /\ TenantUnlocked(d) /\ ~ClaimPending(d)
    /\ IF IdTaken(Event(d))
       THEN Release(d, "duplicate")
       ELSE /\ tx' = [tx EXCEPT ![d].tenant =
                         [eduplus |-> Event(d).eduplus, status |-> "ACTIVE"]]
            /\ Goto(d, "credential")
    /\ UNCHANGED <<tenants, creds, receipts, applied>>

\* Any other event of a tenant that was never created is refused.
UnknownTenant(d) ==
    /\ At(d, "tenant") /\ Event(d).kind # "created"
    /\ tenants[Event(d).code] = None
    /\ Release(d, "refused")
    /\ UNCHANGED <<tenants, creds, receipts, applied>>

StatusAfter(kind) ==
    CASE kind = "suspended" -> "SUSPENDED"
      [] kind = "reactivated" -> "ACTIVE"
      [] kind \in {"terminated", "expired"} -> "REVOKED"

UpdateStatus(d) ==
    /\ At(d, "tenant") /\ Event(d).kind \in StatusKinds
    /\ tenants[Event(d).code] # None
    /\ TenantUnlocked(d)
    /\ tx' = [tx EXCEPT ![d].tenant =
                 [tenants[Event(d).code] EXCEPT !.status = StatusAfter(Event(d).kind)]]
    /\ Goto(d, "commit")
    /\ UNCHANGED <<tenants, creds, receipts, applied>>

\* The tenant is only looked up.
FindTenant(d) ==
    /\ At(d, "tenant") /\ Event(d).kind \in {"rotated", "revoked", "other"}
    /\ tenants[Event(d).code] # None
    /\ Goto(d, IF Event(d).kind = "other" THEN "commit" ELSE "credential")
    /\ UNCHANGED <<tenants, creds, receipts, tx, applied>>

CredentialUnlocked(d) ==
    \A q \in Delivery \ {d} :
        InTransaction(q) /\ Event(q).code = Event(d).code => tx[q].cred = None

BugSaveOutsideTransaction(d) ==
    /\ At(d, "credential") /\ Event(d).kind \in {"created", "rotated"}
    /\ CredentialUnlocked(d)
    /\ creds' = [creds EXCEPT ![Event(d).code] =
          [client |-> Event(d).client, secret |-> Event(d).secret, revoked |-> FALSE]]
    /\ Goto(d, "commit")
    /\ UNCHANGED <<tenants, receipts, tx, applied>>

\* saveOauthCredential().
SaveCredential(d) ==
    /\ At(d, "credential") /\ Event(d).kind \in {"created", "rotated"}
    /\ CredentialUnlocked(d)
    /\ tx' = [tx EXCEPT ![d].cred = [client |-> Event(d).client,
                                     secret |-> Event(d).secret, revoked |-> FALSE]]
    /\ Goto(d, "commit")
    /\ UNCHANGED <<tenants, creds, receipts, applied>>

\* credential.revoked: an event that names a client revokes only that client's.
RevokeCredential(d) ==
    /\ At(d, "credential") /\ Event(d).kind = "revoked"
    /\ CredentialUnlocked(d)
    /\ LET old == creds[Event(d).code]
       IN tx' = IF old # None /\ Event(d).client \in {None, old.client}
                THEN [tx EXCEPT ![d].cred = [old EXCEPT !.revoked = TRUE]]
                ELSE tx
    /\ Goto(d, "commit")
    /\ UNCHANGED <<tenants, creds, receipts, applied>>

Commit(d) ==
    /\ At(d, "commit")
    /\ tenants' = IF tx[d].tenant = None THEN tenants
                  ELSE [tenants EXCEPT ![Event(d).code] = tx[d].tenant]
    /\ creds' = IF tx[d].cred = None THEN creds
                ELSE [creds EXCEPT ![Event(d).code] = tx[d].cred]
    /\ receipts' = receipts \cup {Event(d).id}
    /\ applied' = [applied EXCEPT ![Event(d).id] = @ + 1]
    /\ Release(d, "applied")

BugAbortAcknowledged(d) ==
    /\ InTransaction(d)
    /\ Release(d, "duplicate")
    /\ UNCHANGED <<tenants, creds, receipts, applied>>

\* A missing credential in the payload, a timeout, a lost connection, a deadlock, a crash.
Abort(d) ==
    /\ InTransaction(d)
    /\ Release(d, "refused")
    /\ UNCHANGED <<tenants, creds, receipts, applied>>

Next ==
    \E d \in Delivery :
        \/ Receive(d) \/ InsertReceipt(d) \/ UpsertTenant(d) \/ UnknownTenant(d)
        \/ UpdateStatus(d) \/ FindTenant(d) \/ SaveCredential(d) \/ RevokeCredential(d)
        \/ Commit(d) \/ Abort(d)

Spec == Init /\ [][Next]_vars

--------------------------------------------------------------------------------
(* Properties. *)

\* Tables and transactions have their types, every tenant has an EduPlus id, and a
\* transaction that is not in progress has written nothing.
TypeOK ==
    /\ tenants \in [Code -> TenantRow \cup {None}]
    /\ creds \in [Code -> CredRow \cup {None}]
    /\ receipts \subseteq EventIds /\ applied \in [EventIds -> Nat]
    /\ DOMAIN del \subseteq Delivery
    /\ del \in [DOMAIN del -> [event: Events, pc: {"insert", "tenant", "credential", "commit",
                                                  "applied", "duplicate", "refused"}]]
    /\ tx \in [Delivery -> [tenant: TenantRow \cup {None}, cred: CredRow \cup {None}]]
    /\ \A d \in Delivery : ~InTransaction(d) => tx[d] = NoWrites

\* receive(): however often and however concurrently an event is delivered, it takes
\* effect at most once, and exactly the events that did have a receipt.
AppliedOnce == \A i \in EventIds : applied[i] = (IF i \in receipts THEN 1 ELSE 0)

\* No tenant is ever visible without a client secret, which logins need: the two
\* tables are written by one transaction, and nothing deletes a credential.
TenantsHaveCredentials == \A c \in Code : tenants[c] # None => creds[c] # None

Acknowledged(d) == d \in DOMAIN del /\ del[d].pc \in {"applied", "duplicate"}

\* A delivery is acknowledged without a receipt in one case only: a tenant is created
\* under a new code with the EduPlus id of another.
UnrecordedOnlyOnClash ==
    [][\A d \in Delivery : ~Acknowledged(d) /\ Acknowledged(d)' =>
          Event(d)'.id \in receipts' \/ (Event(d)'.kind = "created" /\ IdTaken(Event(d)'))]_vars

\* "make duplicate events return HTTP 200 without reapplying state": a delivery is
\* acknowledged only if its event has been handled and has a receipt.  It fails: the
\* catch takes every unique violation for a duplicate.
AcknowledgedIsRecorded ==
    \A d \in Delivery : Acknowledged(d) => Event(d).id \in receipts

Log == INSTANCE SubscriptionLog

\* The transactions with their waits, conflicts and aborts implement the log: events
\* take effect whole, once, each on top of what the committed ones left.
LogSpec == Log!Spec

================================================================================
