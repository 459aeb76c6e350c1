----------------------------- MODULE AppendOnly -----------------------------
(***************************************************************************)
(* What a directory of lines promises to those whose writes it has         *)
(* acknowledged, told without lines, pieces, rotation, keys or days: an    *)
(* acknowledged record can be read, and stays so, unless its file was left *)
(* without a line end by a write that failed.  Then it is lost, and the    *)
(* file is well again: a failure costs one acknowledged record at most.    *)
(***************************************************************************)
CONSTANTS Files, Records

VARIABLES
    acknowledged, \* records whose write has returned
    unended,      \* files whose last line lacks its end
    kept          \* acknowledged records that can be read

vars == <<acknowledged, unended, kept>>

Init == acknowledged = {} /\ unended = {} /\ kept = {}

Acknowledge(r) ==
    /\ r \notin acknowledged
    /\ acknowledged' = acknowledged \cup {r}

Keep(f, r) ==
    /\ Acknowledge(r)
    /\ f \notin unended
    /\ kept' = kept \cup {r}
    /\ UNCHANGED unended

Lose(f, r) ==
    /\ Acknowledge(r)
    /\ f \in unended
    /\ unended' = unended \ {f}
    /\ UNCHANGED kept

\* A write that is not acknowledged, and leaves something.
Fail(f) ==
    /\ f \notin unended
    /\ unended' = unended \cup {f}
    /\ UNCHANGED <<acknowledged, kept>>

Next == \E f \in Files : Fail(f) \/ \E r \in Records : Keep(f, r) \/ Lose(f, r)

Spec == Init /\ [][Next]_vars
=============================================================================
