---------------------------- MODULE MCContextSync ----------------------------
(* Instances of ContextSync for TLC. *)
EXTENDS ContextSync, TLC

CONSTANTS s1, s2, x1, x2

TwoSyncs == {s1, s2}
TwoTxs == {x1, x2}
Senders == (x1 :> "a") @@ (x2 :> "c")
OnlySecond == {x2}
OneAndTwo == (x1 :> 1) @@ (x2 :> 2)
NoTags == [peer \in {} |-> "CEX"]
KnownSender == "a" :> "CEX"
Symmetric == Permutations(TwoSyncs)
=============================================================================
