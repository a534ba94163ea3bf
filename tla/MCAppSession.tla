------------------------------ MODULE MCAppSession ------------------------------
(* A student and a teacher log in; a third login presents a widget code.     *)
EXTENDS AppSession, TLC

CONSTANTS l1, l2, l3, q1, q2, x1, x2, c1, c2, c3

MCLogin == {l1, l2, l3}
MCRefresh == {q1, q2}
MCStudentRow == {x1, x2}
MCCode == {c1, c2, c3}
MCCodeOf == l1 :> c1 @@ l2 :> c2 @@ l3 :> c3
MCViaHandoff == {l1, l3}
Says(i, eit, scope, handoff) ==
    [identity |-> i, eit |-> eit, tenant |-> TRUE, scope |-> scope, handoff |-> handoff]
MCClaims == c1 :> Says("student", "stu", {"openid"}, "app_launch")
            @@ c2 :> Says("teacher", "tch", {}, "")
            @@ c3 :> Says("student", "stu", {"widget.data.read"}, "widget_data")
=============================================================================
