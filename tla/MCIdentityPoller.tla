-------------------------- MODULE MCIdentityPoller --------------------------
(* Instances of IdentityPoller for TLC. *)
EXTENDS IdentityPoller, TLC

CONSTANTS p1, p2, e1, e2

TwoPollers == {p1, p2}
TwoEvents == {e1, e2}
=============================================================================
