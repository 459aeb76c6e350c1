----------------------------- MODULE MCRiskStore -----------------------------
(* Instances of RiskStore for TLC.  Signal 1 is critical, two of signal 2   *)
(* make a high risk.                                                         *)
EXTENDS RiskStore, TLC

CONSTANTS r1, r2

TwoRuns == {r1, r2}
MCSignals == {1, 2}
MCCritical == {1}
MCPoints == (1 :> 60 @@ 2 :> 40)
TwoKinds == {{1}, {2}}
=============================================================================
