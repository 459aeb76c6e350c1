---------------------------- MODULE MCScanWorker ----------------------------
(* Instances of ScanWorker for TLC. *)
EXTENDS ScanWorker, TLC

CONSTANTS r1, r2, s1, s2

TwoReceipts == {r1, r2}
OneScan == {s1}
TwoScans == {s1, s2}
NoFaults == {}
=============================================================================
