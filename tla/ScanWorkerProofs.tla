-------------------------- MODULE ScanWorkerProofs --------------------------
(***************************************************************************)
(* Proofs about ScanWorker for any receipts, any number of overlapping     *)
(* cycles, any window, lookback, rate limit and set of faults.             *)
(***************************************************************************)
EXTENDS ScanWorker, FiniteSetTheorems, TLAPS

-----------------------------------------------------------------------------
(* Types.  The counter of executed actions stays within the rate limit      *)
(* because a cycle that is at work on a finding is still below it.          *)

BelowCap == \A s \in Scans : pc[s] \in {"handler", "reply"} => acted[s] < MaxActions

TypeInv == TypeOK /\ BelowCap

LEMMA ScanStepTypes ==
    ASSUME TypeInv, NEW s \in Scans, ScanStep(s)
    PROVE  TypeInv'
<1>0. UNCHANGED process
    BY DEF ScanStep
<1> USE <1>0, ParamAssumption DEF TypeInv, TypeOK, BelowCap, PCs, chainVars, stateVars, scanVars, Goto
<1>1. CASE StartScan(s) BY <1>1 DEF StartScan
<1>2. CASE ReadHead(s) BY <1>2 DEF ReadHead, Heads
<1>3. CASE HeadFails(s) BY <1>3 DEF HeadFails, EndScan
<1>4. CASE ReadReceipts(s) BY <1>4 DEF ReadReceipts
<1>5. CASE ReadDisputes(s) BY <1>5 DEF ReadDisputes, Findings
<1>6. CASE RuleFails(s) BY <1>6 DEF RuleFails
<1>7. CASE PickFinding(s) BY <1>7 DEF PickFinding, Oldest
<1>8. CASE EndActions(s) BY <1>8 DEF EndActions
<1>9. CASE HandlerFails(s) BY <1>9 DEF HandlerFails
<1>10. CASE Submit(s) BY <1>10 DEF Submit
<1>11. CASE RecordAction(s) BY <1>11 DEF RecordAction, BackToLoop
<1>12. CASE RecordActionUnsaved(s) BY <1>12 DEF RecordActionUnsaved, BackToLoop
<1>13. CASE ReplyLost(s) BY <1>13 DEF ReplyLost, BackToLoop
<1>14. CASE UpdateCursor(s) BY <1>14 DEF UpdateCursor, EndScan
<1>15. CASE CursorRefuses(s) BY <1>15 DEF CursorRefuses, EndScan
<1> QED BY <1>1, <1>2, <1>3, <1>4, <1>5, <1>6, <1>7, <1>8, <1>9, <1>10, <1>11,
           <1>12, <1>13, <1>14, <1>15 DEF ScanStep

\* Every variable of the watcher keeps its type, in particular the number
\* of counted actions of a cycle never exceeds MAX_ACTIONS_PER_SCAN.
THEOREM TypeCorrect == Spec => []TypeOK
<1>1. Init => TypeInv
    BY ParamAssumption DEF Init, TypeInv, TypeOK, BelowCap, PCs
<1>2. TypeInv /\ [Next]_vars => TypeInv'
    <2> SUFFICES ASSUME TypeInv, [Next]_vars PROVE TypeInv'
        OBVIOUS
    <2>1. ASSUME NEW s \in Scans, ScanStep(s) PROVE TypeInv'
        BY <2>1, ScanStepTypes
    <2>2. ASSUME NEW new \in SUBSET Receipts, NEW opened \in SUBSET Receipts,
                 MineBlock(new, opened)
          PROVE  TypeInv'
        BY <2>2, ParamAssumption
           DEF MineBlock, TypeInv, TypeOK, BelowCap, stateVars, scanVars
    <2>3. CASE AnyStop
        BY <2>3, ParamAssumption
           DEF AnyStop, Stop, TypeInv, TypeOK, BelowCap, PCs, chainVars
    <2>4. CASE Boot
        BY <2>4 DEF Boot, chainVars, stateVars, scanVars, TypeInv, TypeOK, BelowCap
    <2>5. CASE UNCHANGED vars
        BY <2>5 DEF vars, chainVars, stateVars, scanVars, TypeInv, TypeOK, BelowCap
    <2> QED BY <2>1, <2>2, <2>3, <2>4, <2>5 DEF Next
<1>3. TypeInv => TypeOK
    BY DEF TypeInv
<1> QED BY <1>1, <1>2, <1>3, PTL DEF Spec

-----------------------------------------------------------------------------
(* The number of transactions.  A cycle asks the ledger before it hands a   *)
(* receipt to the handler, so until the first answer for the receipt every   *)
(* transaction belongs to a cycle that still waits for its own, and from     *)
(* then on only cycles that had asked before can add one.                    *)

At(p, t, r, label) == {s \in Scans : p[s] = label /\ r \in t[s]}

AccountedFor(r) ==
    /\ r \notin ledger => sent[r] = Cardinality(At(pc, target, r, "reply"))
    /\ r \in ledger =>
         sent[r] + Cardinality(At(pc, target, r, "handler")) <= Cardinality(Scans)

SubmissionInv ==
    /\ ledgerFile \subseteq ledger
    /\ \A r \in Receipts : r \notin lost => AccountedFor(r)

LEMMA AtFinite ==
    ASSUME NEW p, NEW t, NEW r, NEW label
    PROVE  /\ IsFiniteSet(At(p, t, r, label))
           /\ Cardinality(At(p, t, r, label)) \in Nat
           /\ Cardinality(At(p, t, r, label)) <= Cardinality(Scans)
           /\ Cardinality(Scans) \in Nat
BY ParamAssumption, FS_Subset, FS_CardinalityType DEF At

\* No cycle is in the handler and waits for an answer at once.
LEMMA AtDisjoint ==
    ASSUME NEW r
    PROVE  Cardinality(At(pc, target, r, "reply")) + Cardinality(At(pc, target, r, "handler"))
              <= Cardinality(Scans)
<1> DEFINE R == At(pc, target, r, "reply")
           H == At(pc, target, r, "handler")
<1>1. IsFiniteSet(R) /\ IsFiniteSet(H) /\ Cardinality(R) \in Nat /\ Cardinality(H) \in Nat
    BY AtFinite
<1>2. R \cap H = {}
    BY DEF At
<1>3. Cardinality(R \cup H) = Cardinality(R) + Cardinality(H)
    <2>1. Cardinality(R \cup H) = Cardinality(R) + Cardinality(H) - Cardinality(R \cap H)
        BY <1>1, FS_Union
    <2>2. Cardinality(R \cap H) = 0
        BY <1>2, FS_EmptySet
    <2> QED BY <1>1, <2>1, <2>2
<1>4. R \cup H \subseteq Scans
    BY DEF At
<1>5. Cardinality(R \cup H) <= Cardinality(Scans)
    BY <1>4, ParamAssumption, FS_Subset
<1> QED BY <1>3, <1>5

\* A step that moves no cycle into or out of the handler or its wait, and
\* submits and records nothing, changes nothing in the account.
LEMMA AccountFrame ==
    ASSUME SubmissionInv, UNCHANGED <<sent, ledger, ledgerFile>>, lost \subseteq lost',
           \A r \in Receipts : /\ At(pc', target', r, "reply") = At(pc, target, r, "reply")
                               /\ At(pc', target', r, "handler") = At(pc, target, r, "handler")
    PROVE  SubmissionInv'
BY DEF SubmissionInv, AccountedFor

LEMMA PickFindingAccount ==
    ASSUME TypeOK, SubmissionInv, NEW s \in Scans, PickFinding(s)
    PROVE  SubmissionInv'
<1>1. PICK r \in todo[s] \ ledger : target' = [target EXCEPT ![s] = {r}]
    BY DEF PickFinding, Oldest
<1>2. /\ pc[s] = "act" /\ pc' = [pc EXCEPT ![s] = "handler"]
      /\ UNCHANGED <<sent, ledger, ledgerFile, lost>>
    BY DEF PickFinding, Goto, stateVars
<1>3. ASSUME NEW q \in Receipts
      PROVE  /\ At(pc', target', q, "reply") = At(pc, target, q, "reply")
             /\ q \in ledger => At(pc', target', q, "handler") = At(pc, target, q, "handler")
    BY <1>1, <1>2 DEF At, TypeOK
<1> QED BY <1>2, <1>3 DEF SubmissionInv, AccountedFor

LEMMA HandlerFailsAccount ==
    ASSUME TypeOK, SubmissionInv, NEW s \in Scans, HandlerFails(s)
    PROVE  SubmissionInv'
<1>1. /\ pc[s] = "handler" /\ pc' = [pc EXCEPT ![s] = "act"]
      /\ target' = [target EXCEPT ![s] = {}]
      /\ UNCHANGED <<sent, ledger, ledgerFile, lost>>
    BY DEF HandlerFails, Goto, stateVars
<1>2. ASSUME NEW r \in Receipts, r \notin lost
      PROVE  AccountedFor(r)'
    <2> DEFINE H == At(pc, target, r, "handler")
               H2 == At(pc', target', r, "handler")
    <2>1. At(pc', target', r, "reply") = At(pc, target, r, "reply")
        BY <1>1 DEF At, TypeOK
    <2>2. H2 \subseteq H
        BY <1>1 DEF At, TypeOK
    <2>3. Cardinality(H2) <= Cardinality(H)
        BY <2>2, AtFinite, FS_Subset
    <2>4. /\ Cardinality(H) \in Nat /\ Cardinality(H2) \in Nat
          /\ Cardinality(Scans) \in Nat /\ sent[r] \in Nat
        BY AtFinite DEF TypeOK
    <2>5. AccountedFor(r)
        BY <1>2 DEF SubmissionInv
    <2>6. CASE r \notin ledger
        BY <1>1, <2>1, <2>5, <2>6 DEF AccountedFor
    <2>7. CASE r \in ledger
        <3>1. sent[r] + Cardinality(H) <= Cardinality(Scans)
            BY <2>5, <2>7 DEF AccountedFor
        <3>2. sent[r] + Cardinality(H2) <= Cardinality(Scans)
            <4> HIDE DEF H, H2
            <4> QED BY <2>3, <2>4, <3>1
        <3> QED BY <1>1, <2>7, <3>2 DEF AccountedFor
    <2> QED BY <2>6, <2>7
<1> QED BY <1>1, <1>2 DEF SubmissionInv

LEMMA SubmitAccount ==
    ASSUME TypeOK, SubmissionInv, NEW s \in Scans, Submit(s)
    PROVE  SubmissionInv'
<1>1. /\ pc[s] = "handler" /\ pc' = [pc EXCEPT ![s] = "reply"]
      /\ sent' = [r \in Receipts |-> IF r \in target[s] THEN sent[r] + 1 ELSE sent[r]]
      /\ UNCHANGED <<target, ledger, ledgerFile, lost>>
    BY DEF Submit, Goto, stateVars
<1>2. SUFFICES ASSUME NEW r \in Receipts, r \notin lost, AccountedFor(r)
               PROVE  AccountedFor(r)'
    BY <1>1 DEF SubmissionInv
<1> DEFINE R == At(pc, target, r, "reply")
           H == At(pc, target, r, "handler")
           R2 == At(pc', target', r, "reply")
           H2 == At(pc', target', r, "handler")
<1>3. CASE r \notin target[s]
    <2>1. R2 = R /\ H2 = H
        BY <1>1, <1>3 DEF At, TypeOK
    <2> QED BY <1>1, <1>2, <1>3, <2>1 DEF AccountedFor
<1>4. CASE r \in target[s]
    <2>1. R2 = R \cup {s} /\ s \notin R /\ H2 = H \ {s} /\ s \in H
        BY <1>1, <1>4 DEF At, TypeOK
    <2>2. Cardinality(R2) = Cardinality(R) + 1 /\ Cardinality(H2) = Cardinality(H) - 1
        BY <2>1, AtFinite, FS_AddElement, FS_RemoveElement
    <2>3. sent'[r] = sent[r] + 1 /\ sent[r] \in Nat
        BY <1>1, <1>4 DEF TypeOK
    <2>4. Cardinality(R) \in Nat /\ Cardinality(H) \in Nat /\ Cardinality(Scans) \in Nat
        BY AtFinite
    <2>5. CASE r \notin ledger
        <3>1. sent[r] = Cardinality(R)
            BY <1>2, <2>5 DEF AccountedFor
        <3>2. sent'[r] = Cardinality(R2)
            BY <2>2, <2>3, <3>1
        <3> QED BY <1>1, <2>5, <3>2 DEF AccountedFor
    <2>6. CASE r \in ledger
        <3>1. sent[r] + Cardinality(H) <= Cardinality(Scans)
            BY <1>2, <2>6 DEF AccountedFor
        <3>2. sent'[r] + Cardinality(H2) <= Cardinality(Scans)
            <4> HIDE DEF H, H2
            <4> QED BY <2>2, <2>3, <2>4, <3>1
        <3> QED BY <1>1, <2>6, <3>2 DEF AccountedFor
    <2> QED BY <2>5, <2>6
<1> QED BY <1>3, <1>4

\* The answer of a submission, whatever becomes of it: the receipt enters
\* the ledger or is among the lost ones.
LEMMA ReplyAccount ==
    ASSUME TypeOK, SubmissionInv, NEW s \in Scans, pc[s] = "reply",
           pc' = [pc EXCEPT ![s] = "act"], target' = [target EXCEPT ![s] = {}],
           UNCHANGED sent, ledgerFile' \subseteq ledger',
           \/ ledger' = ledger \cup target[s] /\ lost' = lost
           \/ ledger' = ledger /\ lost' = lost \cup (target[s] \ ledger)
    PROVE  SubmissionInv'
<1> SUFFICES ASSUME NEW r \in Receipts, r \notin lost'
             PROVE  AccountedFor(r)'
    BY DEF SubmissionInv
<1>1. AccountedFor(r)
    BY DEF SubmissionInv
<1>2. At(pc', target', r, "handler") = At(pc, target, r, "handler")
    BY DEF At, TypeOK
<1>3. CASE r \notin target[s]
    <2>1. At(pc', target', r, "reply") = At(pc, target, r, "reply")
        BY <1>3 DEF At, TypeOK
    <2> QED BY <1>1, <1>2, <1>3, <2>1 DEF AccountedFor
<1>4. CASE r \in target[s] /\ r \in ledger
    BY <1>1, <1>2, <1>4 DEF AccountedFor
<1>5. CASE r \in target[s] /\ r \notin ledger
    <2>1. r \in ledger'
        BY <1>5
    <2>2. sent[r] = Cardinality(At(pc, target, r, "reply"))
        BY <1>1, <1>5 DEF AccountedFor
    <2> QED BY <1>2, <2>1, <2>2, AtDisjoint DEF AccountedFor
<1> QED BY <1>3, <1>4, <1>5

LEMMA StopAccount ==
    ASSUME TypeOK, SubmissionInv, AnyStop
    PROVE  SubmissionInv'
<1>1. /\ pc' = [s \in Scans |-> "idle"]
      /\ ledger' = ledgerFile' /\ ledger' \subseteq ledger
      /\ lost' = lost \cup {r \in Receipts : sent[r] > 0 /\ r \notin ledger'}
      /\ UNCHANGED sent
    BY DEF AnyStop, Stop, SubmissionInv
<1>2. \A r \in Receipts, label \in {"reply", "handler"} :
          Cardinality(At(pc', target', r, label)) = 0
    <2>1. \A r \in Receipts, label \in {"reply", "handler"} : At(pc', target', r, label) = {}
        BY <1>1 DEF At
    <2> QED BY <2>1, FS_EmptySet
<1>3. ASSUME NEW r \in Receipts, r \notin lost'
      PROVE  AccountedFor(r)'
    <2>1. AccountedFor(r) /\ sent[r] \in Nat
        BY <1>1, <1>3 DEF SubmissionInv, TypeOK
    <2>2. CASE r \notin ledger'
        BY <1>1, <1>2, <1>3, <2>1, <2>2 DEF AccountedFor
    <2>3. CASE r \in ledger'
        <3>1. sent[r] + Cardinality(At(pc, target, r, "handler")) <= Cardinality(Scans)
            BY <1>1, <2>1, <2>3 DEF AccountedFor
        <3>2. Cardinality(At(pc, target, r, "handler")) \in Nat /\ Cardinality(Scans) \in Nat
            BY AtFinite
        <3> QED BY <1>1, <1>2, <2>1, <2>3, <3>1, <3>2 DEF AccountedFor
    <2> QED BY <2>2, <2>3
<1> QED BY <1>1, <1>3 DEF SubmissionInv

LEMMA ScanStepAccount ==
    ASSUME TypeOK, SubmissionInv, NEW s \in Scans, ScanStep(s)
    PROVE  SubmissionInv'
<1> USE DEF Goto, chainVars, stateVars, scanVars
<1>1. CASE PickFinding(s) BY <1>1, PickFindingAccount
<1>2. CASE HandlerFails(s) BY <1>2, HandlerFailsAccount
<1>3. CASE Submit(s) BY <1>3, SubmitAccount
<1>4. CASE RecordAction(s)
    <2>1. ledgerFile' \subseteq ledger'
        BY <1>4 DEF RecordAction, SubmissionInv
    <2> QED BY <1>4, <2>1, ReplyAccount DEF RecordAction, BackToLoop
<1>5. CASE RecordActionUnsaved(s)
    <2>1. ledgerFile' \subseteq ledger'
        BY <1>5 DEF RecordActionUnsaved, SubmissionInv
    <2> QED BY <1>5, <2>1, ReplyAccount DEF RecordActionUnsaved, BackToLoop
<1>6. CASE ReplyLost(s)
    <2>1. ledgerFile' \subseteq ledger'
        BY <1>6 DEF ReplyLost, SubmissionInv
    <2> QED BY <1>6, <2>1, ReplyAccount DEF ReplyLost, BackToLoop
<1>7. ASSUME UNCHANGED <<sent, ledger, ledgerFile, target, lost>>,
             pc[s] \notin {"handler", "reply"}, NEW l \in PCs \ {"handler", "reply"},
             pc' = [pc EXCEPT ![s] = l]
      PROVE  SubmissionInv'
    <2>1. \A r \in Receipts : /\ At(pc', target', r, "reply") = At(pc, target, r, "reply")
                              /\ At(pc', target', r, "handler") = At(pc, target, r, "handler")
        BY <1>7 DEF At, TypeOK
    <2> QED BY <1>7, <2>1, AccountFrame
<1> USE DEF PCs
<1>8. CASE StartScan(s) BY <1>7, <1>8 DEF StartScan
<1>9. CASE ReadHead(s) BY <1>7, <1>9 DEF ReadHead
<1>10. CASE HeadFails(s) BY <1>7, <1>10 DEF HeadFails, EndScan
<1>11. CASE ReadReceipts(s) BY <1>7, <1>11 DEF ReadReceipts
<1>12. CASE ReadDisputes(s) BY <1>7, <1>12 DEF ReadDisputes
<1>13. CASE RuleFails(s) BY <1>7, <1>13 DEF RuleFails
<1>14. CASE EndActions(s) BY <1>7, <1>14 DEF EndActions
<1>15. CASE UpdateCursor(s) BY <1>7, <1>15 DEF UpdateCursor, EndScan
<1>16. CASE CursorRefuses(s) BY <1>7, <1>16 DEF CursorRefuses, EndScan
<1> QED BY <1>1, <1>2, <1>3, <1>4, <1>5, <1>6, <1>8, <1>9, <1>10, <1>11, <1>12,
           <1>13, <1>14, <1>15, <1>16 DEF ScanStep

\* For any number n of overlapping cycles and any faults: a receipt for
\* which no outcome was lost gets at most n transactions, so exactly one
\* when cycles do not overlap.
THEOREM SubmissionsAreBounded == Spec => []SubmissionsBounded
<1>1. Init => SubmissionInv
    <2> SUFFICES ASSUME Init PROVE SubmissionInv
        OBVIOUS
    <2>1. \A r \in Receipts : At(pc, target, r, "reply") = {}
        BY DEF Init, At
    <2> QED BY <2>1, FS_EmptySet DEF Init, SubmissionInv, AccountedFor
<1>2. TypeOK /\ SubmissionInv /\ [Next]_vars => SubmissionInv'
    <2> SUFFICES ASSUME TypeOK, SubmissionInv, [Next]_vars PROVE SubmissionInv'
        OBVIOUS
    <2>1. ASSUME NEW s \in Scans, ScanStep(s) PROVE SubmissionInv'
        BY <2>1, ScanStepAccount
    <2>2. ASSUME NEW new \in SUBSET Receipts, NEW opened \in SUBSET Receipts,
                 MineBlock(new, opened)
          PROVE  SubmissionInv'
        BY <2>2, AccountFrame DEF MineBlock, stateVars, scanVars
    <2>3. CASE AnyStop
        BY <2>3, StopAccount
    <2>4. CASE Boot
        BY <2>4, AccountFrame DEF Boot, stateVars, scanVars
    <2>5. CASE UNCHANGED vars
        BY <2>5, AccountFrame DEF vars, chainVars, stateVars, scanVars
    <2> QED BY <2>1, <2>2, <2>3, <2>4, <2>5 DEF Next
<1>3. TypeOK /\ SubmissionInv => SubmissionsBounded
    <2> SUFFICES ASSUME TypeOK, SubmissionInv, NEW r \in Receipts, r \notin lost
                 PROVE  ~(sent[r] > Cardinality(Scans))
        BY DEF SubmissionsBounded
    <2>1. AccountedFor(r) /\ sent[r] \in Nat
        BY DEF SubmissionInv, TypeOK
    <2>2. CASE r \notin ledger
        BY <2>1, <2>2, AtFinite DEF AccountedFor
    <2>3. CASE r \in ledger
        <3>1. sent[r] + Cardinality(At(pc, target, r, "handler")) <= Cardinality(Scans)
            BY <2>1, <2>3 DEF AccountedFor
        <3>2. Cardinality(At(pc, target, r, "handler")) \in Nat /\ Cardinality(Scans) \in Nat
            BY AtFinite
        <3> QED BY <2>1, <3>1, <3>2
    <2> QED BY <2>2, <2>3
<1> QED BY <1>1, <1>2, <1>3, TypeCorrect, PTL DEF Spec

-----------------------------------------------------------------------------
(* What a cycle works on.  Its findings were stale and undisputed at the    *)
(* block it scans, which the chain has reached by then and cannot change.    *)

ChainInv ==
    /\ \A r \in Receipts : postedAt[r] <= head /\ disputedAt[r] <= head
    /\ \A r \in Receipts : disputedAt[r] # 0 => postedAt[r] # 0 /\ postedAt[r] <= disputedAt[r]

\* r was a finding at block b.
FindingAt(r, b) ==
    /\ postedAt[r] # 0 /\ IsStale(postedAt[r], b)
    /\ disputedAt[r] = 0 \/ disputedAt[r] > b

CycleInv(s) ==
    /\ block[s] <= head
    /\ \A r \in seen[s] : InWindow(postedAt[r], block[s])
    /\ \A r \in todo[s] \cup target[s] : FindingAt(r, block[s])
    /\ pc[s] \notin {"act", "handler", "reply"} => todo[s] = {}
    /\ pc[s] \notin {"handler", "reply"} => target[s] = {}
    /\ pc[s] # "disputes" => seen[s] = {}
    /\ pc[s] = "reply" => \A r \in target[s] : sent[r] > 0

WorkInv == ChainInv /\ LedgerSound /\ DisputedOnlyWhenStale /\ \A s \in Scans : CycleInv(s)

LEMMA StaleLater ==
    ASSUME NEW b \in Nat, NEW c \in Nat, NEW d \in Nat, c <= d, IsStale(b, c)
    PROVE  IsStale(b, d)
BY ParamAssumption DEF IsStale

LEMMA FindingsAreFindings ==
    ASSUME TypeOK, ChainInv, NEW s \in Scans, CycleInv(s), NEW r \in Findings(s)
    PROVE  r \in Receipts /\ FindingAt(r, block[s])
<1>1. /\ r \in Receipts /\ InWindow(postedAt[r], block[s])
      /\ ~InWindow(disputedAt[r], block[s]) /\ IsStale(postedAt[r], block[s])
    BY DEF Findings, CycleInv, TypeOK
<1>2. /\ postedAt[r] \in Nat /\ disputedAt[r] \in Nat /\ block[s] \in Nat
      /\ FromBlock(block[s]) \in Nat
    BY <1>1, ParamAssumption DEF TypeOK, FromBlock
<1>3. postedAt[r] # 0 /\ (disputedAt[r] = 0 \/ disputedAt[r] > block[s])
    BY <1>1, <1>2 DEF InWindow, ChainInv
<1> QED BY <1>1, <1>3 DEF FindingAt

LEMMA MineBlockWork ==
    ASSUME TypeOK, WorkInv, NEW new \in SUBSET Receipts, NEW opened \in SUBSET Receipts,
           MineBlock(new, opened)
    PROVE  WorkInv'
<1>1. /\ head \in Nat /\ head' = head + 1
      /\ UNCHANGED <<sent, ledger, ledgerFile, pc, block, seen, todo, target>>
    BY DEF MineBlock, TypeOK, stateVars, scanVars
<1>2. ASSUME NEW r \in Receipts
      PROVE  /\ postedAt[r] \in Nat /\ disputedAt[r] \in Nat
             /\ postedAt[r] # 0 => postedAt'[r] = postedAt[r]
             /\ disputedAt[r] # 0 => disputedAt'[r] = disputedAt[r]
             /\ postedAt'[r] = postedAt[r] \/ postedAt'[r] = head + 1
             /\ \/ disputedAt'[r] = disputedAt[r]
                \/ disputedAt'[r] = head + 1 /\ postedAt[r] # 0
    <2>1. postedAt[r] \in Nat /\ disputedAt[r] \in Nat
        BY DEF TypeOK
    <2>2. /\ r \in new => postedAt[r] = 0
          /\ r \in opened => postedAt[r] # 0 /\ disputedAt[r] = 0
          /\ postedAt'[r] = IF r \in new THEN head + 1 ELSE postedAt[r]
          /\ disputedAt'[r] = IF r \in opened THEN head + 1 ELSE disputedAt[r]
        BY DEF MineBlock
    <2> QED BY <2>1, <2>2
<1>3. ChainInv'
    BY <1>1, <1>2 DEF WorkInv, ChainInv
<1>4. LedgerSound'
    BY <1>1 DEF WorkInv, LedgerSound
<1>5. ASSUME NEW r \in Receipts, sent'[r] > 0
      PROVE  postedAt'[r] # 0 /\ IsStale(postedAt'[r], head')
    BY <1>1, <1>2, <1>5, StaleLater DEF WorkInv, DisputedOnlyWhenStale
<1>6. ASSUME NEW s \in Scans PROVE CycleInv(s)'
    <2>1. CycleInv(s) /\ block[s] \in Nat /\ seen[s] \subseteq Receipts
          /\ todo[s] \cup target[s] \subseteq Receipts
        BY DEF WorkInv, TypeOK
    <2>2. ASSUME NEW r \in Receipts, FindingAt(r, block[s]) PROVE FindingAt(r, block[s])'
        BY <1>1, <1>2, <2>1, <2>2 DEF FindingAt, CycleInv
    <2>3. ASSUME NEW r \in Receipts, InWindow(postedAt[r], block[s])
          PROVE  InWindow(postedAt[r], block[s])'
        BY <1>1, <1>2, <2>3 DEF InWindow
    <2>4. block'[s] <= head'
        BY <1>1, <2>1 DEF CycleInv
    <2> QED BY <1>1, <2>1, <2>2, <2>3, <2>4 DEF CycleInv
<1> QED BY <1>3, <1>4, <1>5, <1>6 DEF WorkInv, DisputedOnlyWhenStale

\* A step of cycle s that neither submits nor records leaves the others and
\* what all of them share alone.
LEMMA CycleFrame ==
    ASSUME TypeOK, WorkInv, NEW s \in Scans,
           UNCHANGED <<head, postedAt, disputedAt, sent, ledger, ledgerFile>>,
           \A q \in Scans \ {s} :
               /\ pc'[q] = pc[q] /\ block'[q] = block[q] /\ seen'[q] = seen[q]
               /\ todo'[q] = todo[q] /\ target'[q] = target[q],
           CycleInv(s)'
    PROVE  WorkInv'
<1>1. ChainInv' /\ LedgerSound' /\ DisputedOnlyWhenStale'
    BY DEF WorkInv, ChainInv, LedgerSound, DisputedOnlyWhenStale
<1>2. ASSUME NEW q \in Scans \ {s} PROVE CycleInv(q)'
    BY DEF WorkInv, CycleInv, FindingAt
<1> QED BY <1>1, <1>2 DEF WorkInv

LEMMA ReadsWork ==
    ASSUME TypeOK, WorkInv, NEW s \in Scans,
           \/ StartScan(s) \/ ReadHead(s) \/ HeadFails(s)
           \/ ReadReceipts(s) \/ ReadDisputes(s) \/ RuleFails(s)
    PROVE  WorkInv'
<1>1. CycleInv(s) /\ ChainInv /\ head \in Nat
    BY DEF WorkInv, TypeOK
<1>2. UNCHANGED <<head, postedAt, disputedAt, sent, ledger, ledgerFile, target>>
    BY DEF StartScan, ReadHead, HeadFails, EndScan, ReadReceipts, ReadDisputes, RuleFails,
           chainVars, stateVars, scanVars
<1> USE <1>1, <1>2 DEF CycleInv, FindingAt, TypeOK, Goto, stateVars, scanVars
<1>3. CASE StartScan(s)
    <2>1. CycleInv(s)'
        BY <1>3 DEF StartScan
    <2> QED BY <1>3, <2>1, CycleFrame DEF StartScan
<1>4. CASE ReadHead(s)
    <2>1. CycleInv(s)'
        BY <1>4 DEF ReadHead, Heads
    <2> QED BY <1>4, <2>1, CycleFrame DEF ReadHead
<1>5. CASE HeadFails(s)
    <2>1. CycleInv(s)'
        BY <1>5 DEF HeadFails, EndScan
    <2> QED BY <1>5, <2>1, CycleFrame DEF HeadFails, EndScan
<1>6. CASE ReadReceipts(s)
    <2>1. CycleInv(s)'
        BY <1>6 DEF ReadReceipts, InWindow
    <2> QED BY <1>6, <2>1, CycleFrame DEF ReadReceipts
<1>7. CASE ReadDisputes(s)
    <2>1. CycleInv(s)'
        BY <1>7, FindingsAreFindings DEF ReadDisputes
    <2> QED BY <1>7, <2>1, CycleFrame DEF ReadDisputes
<1>8. CASE RuleFails(s)
    <2>1. CycleInv(s)'
        BY <1>8 DEF RuleFails
    <2> QED BY <1>8, <2>1, CycleFrame DEF RuleFails
<1> QED BY <1>3, <1>4, <1>5, <1>6, <1>7, <1>8

LEMMA LoopWork ==
    ASSUME TypeOK, WorkInv, NEW s \in Scans,
           \/ PickFinding(s) \/ EndActions(s) \/ HandlerFails(s)
           \/ UpdateCursor(s) \/ CursorRefuses(s)
    PROVE  WorkInv'
<1>1. CycleInv(s) /\ head \in Nat
    BY DEF WorkInv, TypeOK
<1>2. UNCHANGED <<head, postedAt, disputedAt, sent, ledger, ledgerFile, seen>>
    BY DEF PickFinding, EndActions, HandlerFails, UpdateCursor, CursorRefuses, EndScan,
           chainVars, stateVars, scanVars
<1> USE <1>1, <1>2 DEF CycleInv, FindingAt, TypeOK, Goto, stateVars, scanVars
<1>3. CASE PickFinding(s)
    <2>1. CycleInv(s)'
        BY <1>3 DEF PickFinding, Oldest
    <2> QED BY <1>3, <2>1, CycleFrame DEF PickFinding
<1>4. CASE EndActions(s)
    <2>1. CycleInv(s)'
        BY <1>4 DEF EndActions
    <2> QED BY <1>4, <2>1, CycleFrame DEF EndActions
<1>5. CASE HandlerFails(s)
    <2>1. CycleInv(s)'
        BY <1>5 DEF HandlerFails
    <2> QED BY <1>5, <2>1, CycleFrame DEF HandlerFails
<1>6. CASE UpdateCursor(s)
    <2>1. CycleInv(s)'
        BY <1>6 DEF UpdateCursor, EndScan
    <2> QED BY <1>6, <2>1, CycleFrame DEF UpdateCursor, EndScan
<1>7. CASE CursorRefuses(s)
    <2>1. CycleInv(s)'
        BY <1>7 DEF CursorRefuses, EndScan
    <2> QED BY <1>7, <2>1, CycleFrame DEF CursorRefuses, EndScan
<1> QED BY <1>3, <1>4, <1>5, <1>6, <1>7

LEMMA SubmitWork ==
    ASSUME TypeOK, WorkInv, NEW s \in Scans, Submit(s)
    PROVE  WorkInv'
<1>1. /\ pc[s] = "handler" /\ pc' = [pc EXCEPT ![s] = "reply"]
      /\ sent' = [r \in Receipts |-> IF r \in target[s] THEN sent[r] + 1 ELSE sent[r]]
      /\ UNCHANGED <<head, postedAt, disputedAt, ledger, ledgerFile, block, seen, todo, target>>
    BY DEF Submit, Goto, chainVars, stateVars
<1>2. \A r \in Receipts : /\ sent[r] \in Nat /\ sent'[r] \in Nat
                          /\ sent[r] > 0 => sent'[r] > 0
                          /\ r \in target[s] => sent'[r] > 0
                          /\ sent'[r] > 0 => sent[r] > 0 \/ r \in target[s]
    BY <1>1 DEF TypeOK
<1>3. LedgerSound'
    BY <1>1, <1>2 DEF WorkInv, LedgerSound, TypeOK
<1>4. ASSUME NEW r \in target[s]
      PROVE  postedAt[r] # 0 /\ IsStale(postedAt[r], head)
    <2>1. FindingAt(r, block[s]) /\ block[s] <= head
        BY DEF WorkInv, CycleInv
    <2>2. postedAt[r] \in Nat /\ block[s] \in Nat /\ head \in Nat
        BY DEF TypeOK
    <2> QED BY <2>1, <2>2, StaleLater DEF FindingAt
<1>5. DisputedOnlyWhenStale'
    BY <1>1, <1>2, <1>4 DEF WorkInv, DisputedOnlyWhenStale, IsStale
<1>6. ASSUME NEW q \in Scans PROVE CycleInv(q)'
    BY <1>1, <1>2 DEF WorkInv, CycleInv, FindingAt, IsStale, InWindow, FromBlock, TypeOK
<1> QED BY <1>1, <1>3, <1>5, <1>6 DEF WorkInv, ChainInv

LEMMA RepliesWork ==
    ASSUME TypeOK, WorkInv, NEW s \in Scans,
           RecordAction(s) \/ RecordActionUnsaved(s) \/ ReplyLost(s)
    PROVE  WorkInv'
<1>1. /\ pc[s] = "reply" /\ pc' = [pc EXCEPT ![s] = "act"]
      /\ target' = [target EXCEPT ![s] = {}]
      /\ UNCHANGED <<head, postedAt, disputedAt, sent, block, seen, todo>>
    BY DEF RecordAction, RecordActionUnsaved, ReplyLost, BackToLoop, Goto, chainVars
<1>2. LedgerSound'
    <2>1. \A r \in target[s] : sent[r] > 0
        BY <1>1 DEF WorkInv, CycleInv
    <2> QED BY <1>1, <2>1
            DEF WorkInv, LedgerSound, RecordAction, RecordActionUnsaved, ReplyLost
<1>3. ASSUME NEW q \in Scans PROVE CycleInv(q)'
    BY <1>1 DEF WorkInv, CycleInv, FindingAt, TypeOK
<1> QED BY <1>1, <1>2, <1>3 DEF WorkInv, ChainInv, DisputedOnlyWhenStale

LEMMA StopWork ==
    ASSUME TypeOK, WorkInv, AnyStop
    PROVE  WorkInv'
<1>1. /\ pc' = [s \in Scans |-> "idle"] /\ block' = [s \in Scans |-> 0]
      /\ seen' = [s \in Scans |-> {}] /\ todo' = [s \in Scans |-> {}]
      /\ target' = [s \in Scans |-> {}] /\ ledger' = ledgerFile' /\ ledger' \subseteq ledger
      /\ UNCHANGED <<head, postedAt, disputedAt, sent>> /\ head \in Nat
    BY DEF AnyStop, Stop, chainVars, WorkInv, LedgerSound, TypeOK
<1>2. ASSUME NEW q \in Scans PROVE CycleInv(q)'
    BY <1>1 DEF CycleInv
<1> QED BY <1>1, <1>2 DEF WorkInv, ChainInv, LedgerSound, DisputedOnlyWhenStale

LEMMA WorkInvariant == Spec => []WorkInv
<1>1. Init => WorkInv
    BY DEF Init, WorkInv, ChainInv, LedgerSound, DisputedOnlyWhenStale, CycleInv
<1>2. TypeOK /\ WorkInv /\ [Next]_vars => WorkInv'
    <2> SUFFICES ASSUME TypeOK, WorkInv, [Next]_vars PROVE WorkInv'
        OBVIOUS
    <2>1. ASSUME NEW s \in Scans, ScanStep(s) PROVE WorkInv'
        BY <2>1, ReadsWork, LoopWork, SubmitWork, RepliesWork DEF ScanStep
    <2>2. ASSUME NEW new \in SUBSET Receipts, NEW opened \in SUBSET Receipts,
                 MineBlock(new, opened)
          PROVE  WorkInv'
        BY <2>2, MineBlockWork
    <2>3. CASE AnyStop
        BY <2>3, StopWork
    <2>4. CASE Boot \/ UNCHANGED vars
        BY <2>4 DEF Boot, vars, chainVars, stateVars, scanVars, WorkInv, ChainInv, LedgerSound,
                    DisputedOnlyWhenStale, CycleInv, FindingAt
    <2> QED BY <2>1, <2>2, <2>3, <2>4 DEF Next
<1> QED BY <1>1, <1>2, TypeCorrect, PTL DEF Spec

\* The ledger never claims an action that was not taken, and the file never
\* claims more than the memory, through overlap, failed saves and restarts.
THEOREM LedgerIsSound == Spec => []LedgerSound
<1>1. WorkInv => LedgerSound
    BY DEF WorkInv
<1> QED BY <1>1, WorkInvariant, PTL

\* No receipt is disputed before its deadline and the minimum age have
\* passed on the chain, however old the block is that a slow cycle scans.
THEOREM OnlyStaleIsDisputed == Spec => []DisputedOnlyWhenStale
<1>1. WorkInv => DisputedOnlyWhenStale
    BY DEF WorkInv
<1> QED BY <1>1, WorkInvariant, PTL

\* No cycle acts on a receipt that was disputed at the block it scans: for
\* any lookback, because a dispute comes after the receipt it is about.
THEOREM DisputedIsLeftAlone == Spec => []NoFindingForDisputed
<1>1. WorkInv => NoFindingForDisputed
    BY DEF WorkInv, CycleInv, FindingAt, NoFindingForDisputed
<1> QED BY <1>1, WorkInvariant, PTL

-----------------------------------------------------------------------------
(* The cursor: the memory is never behind the file, so the guard of update   *)
(* guards the file as well.                                                  *)

CursorAhead == cursorFile <= cursor

LEMMA CursorSteps ==
    ASSUME TypeOK, CursorAhead, [Next]_vars
    PROVE  CursorAhead' /\ (cursorFile' >= cursorFile \/ cursorFile' = 0)
<1> USE DEF TypeOK, CursorAhead
<1>1. CASE UNCHANGED <<cursor, cursorFile>>
    BY <1>1
<1>2. ASSUME NEW s \in Scans, UpdateCursor(s)
      PROVE  CursorAhead' /\ (cursorFile' >= cursorFile \/ cursorFile' = 0)
    BY <1>2 DEF UpdateCursor
<1>3. CASE AnyStop
    BY <1>3 DEF AnyStop, Stop
<1>4. ASSUME NEW s \in Scans, ScanStep(s), ~UpdateCursor(s)
      PROVE  UNCHANGED <<cursor, cursorFile>>
    BY <1>4 DEF ScanStep, StartScan, ReadHead, HeadFails, ReadReceipts, ReadDisputes, RuleFails,
           PickFinding, EndActions, HandlerFails, Submit, RecordAction, RecordActionUnsaved,
           ReplyLost, BackToLoop, CursorRefuses, stateVars
<1>5. CASE Boot \/ UNCHANGED vars
    BY <1>1, <1>5 DEF Boot, vars, stateVars
<1>6. ASSUME NEW new \in SUBSET Receipts, NEW opened \in SUBSET Receipts, MineBlock(new, opened)
      PROVE  UNCHANGED <<cursor, cursorFile>>
    BY <1>6 DEF MineBlock, stateVars
<1> QED BY <1>1, <1>2, <1>3, <1>4, <1>5, <1>6 DEF Next

\* In whatever order overlapping cycles close and whatever saves fail, the
\* saved cursor never goes back, unless a stop or a full disk in the middle of
\* a save makes the file unreadable.
THEOREM CursorFileIsMonotone == Spec => CursorFileMonotone
<1>1. Init => CursorAhead
    BY DEF Init, CursorAhead
<1>2. TypeOK /\ CursorAhead /\ [Next]_vars => CursorAhead'
    BY CursorSteps
<1>3. TypeOK /\ CursorAhead /\ [Next]_vars
          => [cursorFile' >= cursorFile \/ cursorFile' = 0]_cursorFile
    BY CursorSteps
<1> QED BY <1>1, <1>2, <1>3, TypeCorrect, PTL DEF Spec, CursorFileMonotone

-----------------------------------------------------------------------------
(* The refinement.  A cycle that is alone finds the ledger as it left it     *)
(* when it comes back from an await, so what it has in hand stays without a  *)
(* record until it makes one itself, and every transaction is awaited, on    *)
(* record or lost.                                                           *)

NoOverlap == \A s, t \in Scans : s = t

OnceInv ==
    /\ \A s \in Scans : pc[s] \in {"handler", "reply"} =>
          \E r \in Receipts \ ledger : target[s] = {r}
    /\ \A r \in Receipts : sent[r] > 0 => r \in ledger \cup lost \/ Awaited(r)

\* A step of a cycle that submits nothing and records nothing.
LEMMA OnceFrame ==
    ASSUME NoOverlap, TypeOK, OnceInv, NEW s \in Scans,
           UNCHANGED <<sent, ledger, lost>>,
           pc[s] # "reply", NEW l \in PCs \ {"reply"}, pc' = [pc EXCEPT ![s] = l],
           l = "handler" => \E r \in Receipts \ ledger : target'[s] = {r}
    PROVE  OnceInv' /\ UNCHANGED RecordStatus
<1>1. pc'[s] = l /\ \A q \in Scans : q = s
    BY DEF NoOverlap, TypeOK
<1>2. \A r : ~Awaited(r) /\ ~Awaited(r)'
    BY <1>1 DEF Awaited
<1>3. OnceInv'
    BY <1>1, <1>2 DEF OnceInv
<1>4. UNCHANGED RecordStatus
    BY <1>2 DEF RecordStatus
<1> QED BY <1>3, <1>4

LEMMA SubmitOnce ==
    ASSUME NoOverlap, TypeOK, OnceInv, NEW s \in Scans, Submit(s)
    PROVE  OnceInv' /\ Once!Next
<1>1. /\ pc[s] = "handler" /\ pc' = [pc EXCEPT ![s] = "reply"]
      /\ sent' = [r \in Receipts |-> IF r \in target[s] THEN sent[r] + 1 ELSE sent[r]]
      /\ UNCHANGED <<target, ledger, lost>>
    BY DEF Submit, Goto, stateVars
<1>2. PICK r \in Receipts \ ledger : target[s] = {r}
    BY <1>1 DEF OnceInv
<1>3. /\ \A q : ~Awaited(q)
      /\ \A q : Awaited(q)' <=> q = r
    BY <1>1, <1>2 DEF Awaited, NoOverlap, TypeOK
<1>4. OnceInv'
    BY <1>1, <1>2, <1>3 DEF OnceInv, NoOverlap, TypeOK
<1>5. Once!Submit(r)
    <2>1. RecordStatus[r] \in {"open", "unknown"} /\ \A q \in Receipts : RecordStatus[q] # "inflight"
        BY <1>2, <1>3 DEF RecordStatus
    <2>2. RecordStatus' = [RecordStatus EXCEPT ![r] = "inflight"]
        BY <1>1, <1>2, <1>3 DEF RecordStatus
    <2> QED BY <2>1, <2>2 DEF Once!Submit
<1> QED BY <1>2, <1>4, <1>5 DEF Once!Next

\* The end of a wait: with a record, or with the outcome among the lost ones.
LEMMA ReplyOnce ==
    ASSUME NoOverlap, TypeOK, OnceInv, NEW s \in Scans,
           RecordAction(s) \/ RecordActionUnsaved(s) \/ ReplyLost(s)
    PROVE  OnceInv' /\ Once!Next
<1>1. /\ pc[s] = "reply" /\ pc' = [pc EXCEPT ![s] = "act"] /\ UNCHANGED sent
      /\ \/ ledger' = ledger \cup target[s] /\ lost' = lost
         \/ ledger' = ledger /\ lost' = lost \cup (target[s] \ ledger)
    BY DEF RecordAction, RecordActionUnsaved, ReplyLost, BackToLoop, Goto
<1>2. PICK r \in Receipts \ ledger : target[s] = {r}
    BY <1>1 DEF OnceInv
<1>3. /\ \A q : Awaited(q) <=> q = r
      /\ \A q : ~Awaited(q)'
    BY <1>1, <1>2 DEF Awaited, NoOverlap, TypeOK
<1>4. OnceInv'
    BY <1>1, <1>2, <1>3 DEF OnceInv, NoOverlap, TypeOK
<1>5. RecordStatus[r] = "inflight"
    BY <1>2, <1>3 DEF RecordStatus
<1>6. CASE ledger' = ledger \cup {r} /\ lost' = lost
    <2>1. RecordStatus' = [RecordStatus EXCEPT ![r] = "recorded"]
        BY <1>2, <1>3, <1>6 DEF RecordStatus
    <2> QED BY <1>2, <1>4, <1>5, <2>1 DEF Once!Record, Once!Next
<1>7. CASE ledger' = ledger /\ lost' = lost \cup {r}
    <2>1. RecordStatus' = [q \in Receipts |-> IF q \in {r} THEN "unknown" ELSE RecordStatus[q]]
        BY <1>2, <1>3, <1>7 DEF RecordStatus
    <2>2. Once!Lose({r})
        BY <1>5, <2>1 DEF Once!Lose
    <2> QED BY <1>2, <1>4, <2>2 DEF Once!Next
<1> QED BY <1>1, <1>2, <1>6, <1>7

LEMMA ScanStepOnce ==
    ASSUME NoOverlap, TypeOK, OnceInv, NEW s \in Scans, ScanStep(s)
    PROVE  OnceInv' /\ (Once!Next \/ UNCHANGED RecordStatus)
<1> USE DEF Goto, chainVars, stateVars, scanVars, PCs
<1>1. CASE Submit(s) BY <1>1, SubmitOnce
<1>2. CASE RecordAction(s) \/ RecordActionUnsaved(s) \/ ReplyLost(s) BY <1>2, ReplyOnce
<1>3. CASE PickFinding(s)
    <2>1. \E r \in Receipts \ ledger : target'[s] = {r}
        BY <1>3 DEF PickFinding, Oldest, TypeOK
    <2> QED BY <1>3, <2>1, OnceFrame DEF PickFinding
<1>4. CASE HandlerFails(s) BY <1>4, OnceFrame DEF HandlerFails
<1>5. CASE StartScan(s) BY <1>5, OnceFrame DEF StartScan
<1>6. CASE ReadHead(s) BY <1>6, OnceFrame DEF ReadHead
<1>7. CASE HeadFails(s) BY <1>7, OnceFrame DEF HeadFails, EndScan
<1>8. CASE ReadReceipts(s) BY <1>8, OnceFrame DEF ReadReceipts
<1>9. CASE ReadDisputes(s) BY <1>9, OnceFrame DEF ReadDisputes
<1>10. CASE RuleFails(s) BY <1>10, OnceFrame DEF RuleFails
<1>11. CASE EndActions(s) BY <1>11, OnceFrame DEF EndActions
<1>12. CASE UpdateCursor(s) BY <1>12, OnceFrame DEF UpdateCursor, EndScan
<1>13. CASE CursorRefuses(s) BY <1>13, OnceFrame DEF CursorRefuses, EndScan
<1> QED BY <1>1, <1>2, <1>3, <1>4, <1>5, <1>6, <1>7, <1>8, <1>9, <1>10, <1>11, <1>12,
           <1>13 DEF ScanStep

\* A stop forgets the transaction that is awaited and the records that the
\* file does not have.
LEMMA StopOnce ==
    ASSUME TypeOK, WorkInv, OnceInv, AnyStop
    PROVE  OnceInv' /\ Once!Next
<1> DEFINE Forgotten == {r \in Receipts : Awaited(r) \/ r \in ledger \ ledger'}
<1>1. /\ pc' = [s \in Scans |-> "idle"] /\ UNCHANGED sent /\ ledger' \subseteq ledger
      /\ lost' = lost \cup {r \in Receipts : sent[r] > 0 /\ r \notin ledger'}
    BY DEF AnyStop, Stop, WorkInv, LedgerSound
<1>2. \A r : ~Awaited(r)'
    BY <1>1 DEF Awaited
<1>3. ASSUME NEW r \in Receipts, Awaited(r) PROVE sent[r] > 0 /\ r \notin ledger
    BY <1>3 DEF Awaited, WorkInv, CycleInv, OnceInv
<1>4. \A r \in ledger : sent[r] > 0
    BY DEF WorkInv, LedgerSound
<1>5. OnceInv'
    BY <1>1 DEF OnceInv
<1>6. \A r \in Forgotten : RecordStatus[r] \in {"inflight", "recorded"}
    BY DEF RecordStatus
<1>7. ASSUME NEW r \in Receipts
      PROVE  RecordStatus'[r] = IF r \in Forgotten THEN "unknown" ELSE RecordStatus[r]
    <2>1. RecordStatus'[r] = IF r \in ledger' THEN "recorded"
                             ELSE IF r \in lost' THEN "unknown" ELSE "open"
        BY <1>2 DEF RecordStatus
    <2>2. CASE r \in Forgotten
        BY <1>1, <1>3, <1>4, <2>1, <2>2
    <2>3. CASE r \notin Forgotten
        <3>1. RecordStatus[r] = IF r \in ledger THEN "recorded"
                                ELSE IF r \in lost THEN "unknown" ELSE "open"
            BY <2>3 DEF RecordStatus
        <3>2. sent[r] > 0 => r \in ledger \cup lost
            BY <2>3 DEF OnceInv
        <3> QED BY <1>1, <2>1, <2>3, <3>1, <3>2
    <2> QED BY <2>2, <2>3
<1>8. Once!Lose(Forgotten)
    <2>1. RecordStatus' = [r \in Receipts |-> IF r \in Forgotten THEN "unknown" ELSE RecordStatus[r]]
        BY <1>7 DEF RecordStatus
    <2> QED BY <1>6, <2>1 DEF Once!Lose
<1> QED BY <1>5, <1>8 DEF Once!Next

\* For any receipts and any faults, a watcher whose cycles do not overlap
\* implements the abstract ledger: it submits for a receipt only while it
\* has no record of an earlier submission, and an earlier one is without a
\* record only because its outcome was lost.
THEOREM WatcherImplementsOnce ==
    ASSUME NoOverlap
    PROVE  Spec => ImplementsOnce
<1>1. Init => OnceInv /\ Once!Init
    BY DEF Init, OnceInv, Once!Init, RecordStatus, Awaited
<1>2. TypeOK /\ WorkInv /\ OnceInv /\ [Next]_vars
          => OnceInv' /\ [Once!Next]_RecordStatus
    <2> SUFFICES ASSUME TypeOK, WorkInv, OnceInv, [Next]_vars
                 PROVE  OnceInv' /\ (Once!Next \/ UNCHANGED RecordStatus)
        OBVIOUS
    <2>1. ASSUME NEW s \in Scans, ScanStep(s)
          PROVE  OnceInv' /\ (Once!Next \/ UNCHANGED RecordStatus)
        BY <2>1, ScanStepOnce
    <2>2. CASE AnyStop
        BY <2>2, StopOnce
    <2>3. CASE UNCHANGED <<sent, ledger, lost, pc, target>>
        BY <2>3 DEF OnceInv, RecordStatus, Awaited
    <2>4. ASSUME NEW new \in SUBSET Receipts, NEW opened \in SUBSET Receipts,
                 MineBlock(new, opened)
          PROVE  UNCHANGED <<sent, ledger, lost, pc, target>>
        BY <2>4 DEF MineBlock, stateVars, scanVars
    <2>5. CASE Boot \/ UNCHANGED vars
        BY <2>3, <2>5 DEF Boot, vars, chainVars, stateVars, scanVars
    <2> QED BY <2>1, <2>2, <2>3, <2>4, <2>5 DEF Next
<1>3. Spec => [](TypeOK /\ WorkInv)
    BY TypeCorrect, WorkInvariant, PTL
<1> QED BY <1>1, <1>2, <1>3, PTL DEF Spec, ImplementsOnce, Once!Spec
=============================================================================
