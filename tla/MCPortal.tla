-------------------------------- MODULE MCPortal --------------------------------
(* Two tabs; one is opened by a launch from the EduPlus workbench.            *)
EXTENDS Portal, TLC

CONSTANTS t1, t2, c1

MCTab == {t1, t2}
MCCode == {c1}
MCOpenedWith == t1 :> c1 @@ t2 :> None
=============================================================================
