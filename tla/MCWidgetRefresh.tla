--------------------------- MODULE MCWidgetRefresh ---------------------------
(* Up to five refreshes or revocations of one session.                        *)
EXTENDS WidgetRefresh, TLC

CONSTANTS r1, r2, r3, r4, r5

MCReq == {r1, r2, r3, r4, r5}
Symmetry == Permutations(MCReq)
==============================================================================
