---------------------------- MODULE SubscriptionLog ----------------------------
(***************************************************************************)
(* What the webhook endpoint promises: an event takes effect whole, at     *)
(* most once, and in the same step as its receipt; each event builds on    *)
(* what the events before it left.                                         *)
(***************************************************************************)
CONSTANTS Events, Code, None

VARIABLES
    tenants,   \* code -> the tenant's EduPlus id and status
    creds,     \* code -> the tenant's OAuth client secret
    receipts   \* ids of the events handled

Init ==
    /\ tenants = [c \in Code |-> None]
    /\ creds = [c \in Code |-> None]
    /\ receipts = {}

StatusAfter(kind) ==
    CASE kind = "suspended" -> "SUSPENDED"
      [] kind = "reactivated" -> "ACTIVE"
      [] kind \in {"terminated", "expired"} -> "REVOKED"

Fresh(e) == [client |-> e.client, secret |-> e.secret, revoked |-> FALSE]

Create(e) ==
    /\ tenants' = [tenants EXCEPT ![e.code] = [eduplus |-> e.eduplus, status |-> "ACTIVE"]]
    /\ creds' = [creds EXCEPT ![e.code] = Fresh(e)]

ChangeStatus(e) ==
    /\ tenants' = [tenants EXCEPT ![e.code].status = StatusAfter(e.kind)]
    /\ UNCHANGED creds

Rotate(e) ==
    /\ creds' = [creds EXCEPT ![e.code] = Fresh(e)]
    /\ UNCHANGED tenants

\* A revocation of a client that is not, or not yet, the tenant's has no effect; one
\* that names no client always has.
Revoke(e) ==
    /\ \/ e.client # None /\ UNCHANGED creds
       \/ /\ creds[e.code] # None
          /\ e.client \in {None, creds[e.code].client}
          /\ creds' = [creds EXCEPT ![e.code].revoked = TRUE]
    /\ UNCHANGED tenants

Handle(e) ==
    /\ e.id \notin receipts
    /\ receipts' = receipts \cup {e.id}
    /\ e.kind # "created" => tenants[e.code] # None
    /\ CASE e.kind = "created" -> Create(e)
         [] e.kind \in {"suspended", "reactivated", "terminated", "expired"} -> ChangeStatus(e)
         [] e.kind = "rotated" -> Rotate(e)
         [] e.kind = "revoked" -> Revoke(e)
         [] e.kind = "other" -> UNCHANGED <<tenants, creds>>

Next == \E e \in Events : Handle(e)

Spec == Init /\ [][Next]_<<tenants, creds, receipts>>
================================================================================
