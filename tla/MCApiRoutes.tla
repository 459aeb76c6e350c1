---------------------------- MODULE MCApiRoutes ----------------------------
(* Instances of ApiRoutes for TLC. *)
EXTENDS ApiRoutes, TLC

CONSTANTS r1, r2, q1, q2

OneReceipt == {r1}
TwoReceipts == {r1, r2}
TwoRequests == {q1, q2}
=============================================================================
