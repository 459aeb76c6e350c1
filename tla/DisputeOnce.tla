---------------------------- MODULE DisputeOnce ----------------------------
(***************************************************************************)
(* What the action ledger promises of one chain watcher, told without      *)
(* scans, awaits, files or timers: a dispute transaction is submitted for  *)
(* a receipt only while the watcher holds no record of an earlier one, and *)
(* an earlier one can be without a record for one reason only, that its    *)
(* outcome was lost.                                                       *)
(*                                                                         *)
(*   open      no dispute transaction was ever submitted                   *)
(*   inflight  submitted, the answer of the RPC node is awaited            *)
(*   recorded  the ledger has an entry for the receipt                     *)
(*   unknown   submitted at least once, and no record of it is left        *)
(***************************************************************************)
CONSTANT Receipts

VARIABLE status

Status == {"open", "inflight", "recorded", "unknown"}

Init == status = [r \in Receipts |-> "open"]

\* One transaction at a time, and never for a receipt with a record.
Submit(r) ==
    /\ status[r] \in {"open", "unknown"}
    /\ \A q \in Receipts : status[q] # "inflight"
    /\ status' = [status EXCEPT ![r] = "inflight"]

Record(r) ==
    /\ status[r] = "inflight"
    /\ status' = [status EXCEPT ![r] = "recorded"]

\* An answer that never comes, a process that dies, a ledger file that is
\* unreadable: what was submitted for the receipts in R is forgotten.
Lose(R) ==
    /\ \A r \in R : status[r] \in {"inflight", "recorded"}
    /\ status' = [r \in Receipts |-> IF r \in R THEN "unknown" ELSE status[r]]

Next ==
    \/ \E r \in Receipts : Submit(r) \/ Record(r)
    \/ \E R \in SUBSET Receipts : Lose(R)

Spec == Init /\ [][Next]_status
=============================================================================
