--------------------------- MODULE MCApiRequests ---------------------------
(* Small instances of ApiRequests: a launch and a promotion under one key   *)
(* each, two request bodies.                                                *)
EXTENDS ApiRequests, TLC

CONSTANTS r1, r2, r3, launch, promote, p1, p2

MCDeliveries == {r1, r2, r3}
MCSymmetry == Permutations(MCDeliveries) \cup Permutations(Payloads)
=============================================================================
