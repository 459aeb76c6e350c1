--------------------------- MODULE MCTransparencyLog ---------------------------
(* Instances of TransparencyLog for TLC. *)
EXTENDS TransparencyLog, TLC

CONSTANTS p1, p2

TwoProcs == {p1, p2}
Symmetric == Permutations(TwoProcs)

Behind == -1
=============================================================================
