--------------------------- MODULE MCEvidenceStore ---------------------------
(* Instances of EvidenceStore for TLC. *)
EXTENDS EvidenceStore, TLC

CONSTANTS w1, w2

TwoWriters == {w1, w2}
Symmetric == Permutations(TwoWriters)
=============================================================================
