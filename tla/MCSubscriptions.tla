--------------------------- MODULE MCSubscriptions ---------------------------
(* Two tenant codes; the second is created with the EduPlus id of the first,  *)
(* as after a change of the code.  Each event may be delivered repeatedly.    *)
EXTENDS Subscriptions, TLC

CONSTANTS d1, d2, d3, d4, t1, t2, one, two, clientA, clientB, s1, s2, s3

MCDelivery == {d1, d2, d3, d4}
MCCode == {t1, t2}

Ev(id, kind, code, eduplus, client, secret) ==
    [id |-> id, kind |-> kind, code |-> code, eduplus |-> eduplus,
     client |-> client, secret |-> secret]

MCEvents ==
    {Ev("created", "created", t1, one, clientA, s1),
     Ev("recreated", "created", t1, two, clientB, s2),
     Ev("renamed", "created", t2, one, clientB, s2),
     Ev("suspended", "suspended", t1, None, None, None),
     Ev("reactivated", "reactivated", t1, None, None, None),
     Ev("terminated", "terminated", t2, None, None, None),
     Ev("rotated", "rotated", t1, None, clientB, s3),
     Ev("revoked", "revoked", t1, None, clientA, None),
     Ev("revoked all", "revoked", t1, None, None, None),
     Ev("renewed", "other", t1, None, None, None)}

Symmetry == Permutations(MCDelivery)
==============================================================================
