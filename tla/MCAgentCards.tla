----------------------------- MODULE MCAgentCards -----------------------------
(* Instances of AgentCards for TLC. *)
EXTENDS AgentCards, TLC

CONSTANTS r1, r2, e1, e2, c1, c2

TwoRuns == {r1, r2}
OneAgent == {1}
TwoEvents == {e1, e2}
AgentOf == (e1 :> 1) @@ (e2 :> 1)
UriOf == (e1 :> "u") @@ (e2 :> "v")
BlockOf == (e1 :> 1) @@ (e2 :> 2)
Both == {"u", "v"}
TwoCards == {c1, c2}
=============================================================================
