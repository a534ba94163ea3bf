-------------------------- MODULE MCWidgetExchange --------------------------
(* Up to four requests of one client: the same or different idempotency      *)
(* keys, the same or different handoff codes.                                *)
EXTENDS WidgetExchange, TLC

CONSTANTS r1, r2, r3, r4, k1, k2, c1, c2

MCReq == {r1, r2, r3, r4}
MCReqThree == {r1, r2, r3}
MCKeys == {k1, k2}
MCOneKey == {k1}
MCCodes == {c1, c2}

Symmetry == Permutations(MCReq) \cup Permutations(MCKeys) \cup Permutations(MCCodes)
SymmetryOneKey == Permutations(MCReq) \cup Permutations(MCCodes)
=============================================================================
