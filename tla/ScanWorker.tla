----------------------------- MODULE ScanWorker -----------------------------
(***************************************************************************)
(* One chain watcher of the worker (apps/worker/src/worker.ts): its timer  *)
(* starts a scan cycle every interval whether or not the previous one has  *)
(* ended, so several cycles can be between two awaits at the same time;    *)
(* they share the ActionLedger, the BlockCursor and the chain.  An action  *)
(* is the code that runs between two awaits of one cycle.                  *)
(*                                                                         *)
(* Scans are the slots in which cycles run: with one slot a cycle always   *)
(* ends before the next tick, with more of them cycles overlap.            *)
(*                                                                         *)
(* Time is counted in blocks; a receipt posted in block b has its          *)
(* challenge deadline at b + Window.  Block 0 stands for "no block": not   *)
(* posted, not disputed, no cursor.                                        *)
(***************************************************************************)
EXTENDS Integers, FiniteSets

CONSTANTS
    Receipts,    \* receipt ids that pass the allowlists
    Scans,       \* slots for scan cycles of this watcher
    MaxActions,  \* MAX_ACTIONS_PER_SCAN
    Lookback,    \* WORKER_LOOKBACK_BLOCKS
    Window,      \* blocks from a receipt to its challenge deadline
    MinAge,      \* MIN_RECEIPT_AGE_SECONDS, in blocks
    Faults,      \* what may go wrong, a subset of FaultKinds
    MaxBlock,    \* bound: the last block of the chain
    MaxSent      \* bound: dispute transactions per receipt

FaultKinds == {"rpc", "old_head", "lost_reply", "save", "restart"}

ASSUME ParamAssumption ==
    /\ MaxActions \in Nat \ {0}
    /\ Lookback \in Nat
    /\ Window \in Nat
    /\ MinAge \in Nat
    /\ MaxBlock \in Nat
    /\ MaxSent \in Nat
    /\ Faults \subseteq FaultKinds
    /\ IsFiniteSet(Scans)

VARIABLES
    head,        \* the chain: latest block
    postedAt,    \* the chain: block of ReceiptPosted, per receipt
    disputedAt,  \* the chain: block of DisputeOpened, per receipt
    sent,        \* openDispute transactions this watcher has submitted
    ledger,      \* ActionLedger.entries, the receipts acted upon
    ledgerFile,  \* what loading action-ledger-<chain>.json would give
    cursor,      \* BlockCursor.state
    cursorFile,  \* what loading block-cursor-<chain>.json would give
    process,     \* the worker process, "up" or "down"; while it is down,
                 \* ledger and cursor are what the next one will load
    pc,          \* per scan: the await it stands at
    block,       \* per scan: currentBlock
    seen,        \* per scan: ReceiptPosted events it has read
    todo,        \* per scan: findings not yet looked at
    target,      \* per scan: finding the action handler works on
    acted,       \* per scan: actionsExecuted
    lost         \* history: receipts whose submission left no record

chainVars == <<head, postedAt, disputedAt>>
stateVars == <<ledger, ledgerFile, cursor, cursorFile>>
scanVars == <<block, seen, todo, target, acted>>
vars == <<chainVars, sent, stateVars, process, pc, scanVars, lost>>

PCs == {"idle", "head", "receipts", "disputes", "act", "handler", "reply", "close"}

Init ==
    /\ head = 1
    /\ postedAt = [r \in Receipts |-> 0]
    /\ disputedAt = [r \in Receipts |-> 0]
    /\ sent = [r \in Receipts |-> 0]
    /\ ledger = {} /\ ledgerFile = {}
    /\ cursor = 0 /\ cursorFile = 0
    /\ process = "up"
    /\ pc = [s \in Scans |-> "idle"]
    /\ block = [s \in Scans |-> 0]
    /\ seen = [s \in Scans |-> {}]
    /\ todo = [s \in Scans |-> {}]
    /\ target = [s \in Scans |-> {}]
    /\ acted = [s \in Scans |-> 0]
    /\ lost = {}

-----------------------------------------------------------------------------
(* The chain, as the watcher sees it through its RPC node. *)

\* A block with new receipts and opened disputes: the watcher's, when one
\* of its transactions is mined (a second one for the receipt reverts), or
\* another party's.
MineBlock(new, opened) ==
    /\ head < MaxBlock
    /\ \A r \in new : postedAt[r] = 0
    /\ \A r \in opened : postedAt[r] # 0 /\ disputedAt[r] = 0
    /\ head' = head + 1
    /\ postedAt' = [r \in Receipts |-> IF r \in new THEN head + 1 ELSE postedAt[r]]
    /\ disputedAt' = [r \in Receipts |-> IF r \in opened THEN head + 1 ELSE disputedAt[r]]
    /\ UNCHANGED <<sent, stateVars, process, pc, scanVars, lost>>

\* fromBlock of both event queries: lookback blocks back, at most to 0.
FromBlock(c) == IF c > Lookback THEN c - Lookback ELSE 0

InWindow(b, c) == b # 0 /\ FromBlock(c) <= b /\ b <= c

\* isPastDeadline and the minimum age of the rule, at scanned block c.
IsStale(b, c) == c > b + Window /\ c - (b + Window) >= MinAge

\* Faulty variants, each with one plausible slip: they show that the
\* properties at the end notice it.
\* The rule without its deadline test.
FindingsWithoutDeadline(s) == {r \in seen[s] : ~InWindow(disputedAt[r], block[s])}

\* The rule whose query for disputes ends before the block that is scanned.
FindingsOldDisputesOnly(s) ==
    {r \in seen[s] : /\ ~InWindow(disputedAt[r], block[s] - 1)
                     /\ IsStale(postedAt[r], block[s])}

\* What evaluate returns: stale receipts among the events read, without
\* those that have a DisputeOpened event in the same range of blocks.
Findings(s) ==
    {r \in seen[s] : /\ ~InWindow(disputedAt[r], block[s])
                     /\ IsStale(postedAt[r], block[s])}

-----------------------------------------------------------------------------
(* One scan cycle. *)

Goto(s, label) == pc' = [pc EXCEPT ![s] = label]

\* The cycle is over, whichever way it went.
EndScan(s) ==
    /\ block' = [block EXCEPT ![s] = 0]
    /\ acted' = [acted EXCEPT ![s] = 0]
    /\ Goto(s, "idle")
    /\ UNCHANGED <<chainVars, sent, ledger, ledgerFile, seen, todo, target, lost>>

\* A tick of the timer, or the first scan of main.
StartScan(s) ==
    /\ pc[s] = "idle"
    /\ Goto(s, "head")
    /\ UNCHANGED <<chainVars, sent, stateVars, scanVars, lost>>

\* What getBlockNumber can answer: the newest block, or an older one when
\* the RPC URL has a node behind it that lags.
Heads == IF "old_head" \in Faults THEN 1 .. head ELSE {head}

\* getBlockNumber and getBlockTimestamp of that block have answered.
ReadHead(s) ==
    /\ pc[s] = "head"
    /\ \E b \in Heads : block' = [block EXCEPT ![s] = b]
    /\ Goto(s, "receipts")
    /\ UNCHANGED <<chainVars, sent, stateVars, seen, todo, target, acted, lost>>

\* One of them has failed: the cycle ends in its catch and finally blocks.
HeadFails(s) ==
    /\ "rpc" \in Faults
    /\ pc[s] = "head"
    /\ EndScan(s)
    /\ UNCHANGED <<cursor, cursorFile>>

\* evaluate's first await: receipts posted in [fromBlock, currentBlock].
ReadReceipts(s) ==
    /\ pc[s] = "receipts"
    /\ seen' = [seen EXCEPT ![s] = {r \in Receipts : InWindow(postedAt[r], block[s])}]
    /\ Goto(s, "disputes")
    /\ UNCHANGED <<chainVars, sent, stateVars, block, todo, target, acted, lost>>

\* evaluate's second await; with findings the cycle goes on to the actions,
\* without any it skips to the cursor.
ReadDisputes(s) ==
    /\ pc[s] = "disputes"
    /\ todo' = [todo EXCEPT ![s] = Findings(s)]
    /\ seen' = [seen EXCEPT ![s] = {}]
    /\ Goto(s, IF Findings(s) = {} THEN "close" ELSE "act")
    /\ UNCHANGED <<chainVars, sent, stateVars, block, target, acted, lost>>

\* A query rejects or the rule times out: the engine keeps the error as the
\* rule's result, and the cycle goes on without findings.
RuleFails(s) ==
    /\ "rpc" \in Faults
    /\ pc[s] \in {"receipts", "disputes"}
    /\ seen' = [seen EXCEPT ![s] = {}]
    /\ Goto(s, "close")
    /\ UNCHANGED <<chainVars, sent, stateVars, block, todo, target, acted, lost>>

\* Findings come in the order of their event logs.
Oldest(R) == {r \in R : \A q \in R : postedAt[r] <= postedAt[q]}

\* Faulty: the ledger is not asked.
PickFindingUnchecked(s) ==
    /\ pc[s] = "act"
    /\ acted[s] < MaxActions
    /\ \E r \in Oldest(todo[s]) :
        /\ target' = [target EXCEPT ![s] = {r}]
        /\ todo' = [todo EXCEPT ![s] = @ \ {r}]
    /\ Goto(s, "handler")
    /\ UNCHANGED <<chainVars, sent, stateVars, block, seen, acted, lost>>

\* The loop of executeActions up to its next await: skip the findings the
\* ledger knows and hand the next one to the handler.
PickFinding(s) ==
    /\ pc[s] = "act"
    /\ acted[s] < MaxActions
    /\ \E r \in Oldest(todo[s] \ ledger) :
        /\ target' = [target EXCEPT ![s] = {r}]
        /\ todo' = [todo EXCEPT ![s] = (@ \ ledger) \ {r}]
    /\ Goto(s, "handler")
    /\ UNCHANGED <<chainVars, sent, stateVars, block, seen, acted, lost>>

\* The loop ends: the rate limit is reached, or nothing is left.
EndActions(s) ==
    /\ pc[s] = "act"
    /\ acted[s] >= MaxActions \/ todo[s] \subseteq ledger
    /\ todo' = [todo EXCEPT ![s] = {}]
    /\ Goto(s, "close")
    /\ UNCHANGED <<chainVars, sent, stateVars, block, seen, target, acted, lost>>

\* Faulty: a failed result is recorded like a successful one.
HandlerFailsRecorded(s) ==
    /\ pc[s] = "handler"
    /\ target' = [target EXCEPT ![s] = {}]
    /\ ledger' = ledger \cup target[s]
    /\ ledgerFile' = ledger'
    /\ Goto(s, "act")
    /\ UNCHANGED <<chainVars, sent, cursor, cursorFile, block, seen, todo, acted, lost>>

\* The handler throws before anything is submitted: no signer, no answer,
\* or simulateContract reverts.  The finding is a failed result.
HandlerFails(s) ==
    /\ pc[s] = "handler"
    /\ target' = [target EXCEPT ![s] = {}]
    /\ Goto(s, "act")
    /\ UNCHANGED <<chainVars, sent, stateVars, block, seen, todo, acted, lost>>

\* The signer is built, the bond is read, the simulation has passed:
\* writeContract hands the transaction to the RPC node.
Submit(s) ==
    /\ pc[s] = "handler"
    /\ \A r \in target[s] : sent[r] < MaxSent
    /\ sent' = [r \in Receipts |-> IF r \in target[s] THEN sent[r] + 1 ELSE sent[r]]
    /\ Goto(s, "reply")
    /\ UNCHANGED <<chainVars, stateVars, block, seen, todo, target, acted, lost>>

\* Back in the executor after the handler, with or without a result that
\* counts towards the rate limit.
BackToLoop(s, counted) ==
    /\ target' = [target EXCEPT ![s] = {}]
    /\ acted' = [acted EXCEPT ![s] = IF counted THEN @ + 1 ELSE @]
    /\ Goto(s, "act")
    /\ UNCHANGED <<chainVars, sent, cursor, cursorFile, block, seen, todo>>

\* The transaction hash arrives.  recordAction throws when the receipt has
\* an entry; otherwise it adds the entry and saves the whole ledger.
RecordAction(s) ==
    /\ pc[s] = "reply"
    /\ ledger' = ledger \cup target[s]
    /\ ledgerFile' = IF target[s] \subseteq ledger THEN ledgerFile ELSE ledger'
    /\ BackToLoop(s, ~(target[s] \subseteq ledger))
    /\ UNCHANGED lost

\* The save throws: the entry stays in memory and the result is a failure.  The
\* file stays as it was when it cannot be opened; when the disk is full,
\* writeFileSync has truncated it, and it does not parse.
RecordActionUnsaved(s) ==
    /\ "save" \in Faults
    /\ pc[s] = "reply"
    /\ ~(target[s] \subseteq ledger)
    /\ ledger' = ledger \cup target[s]
    /\ ledgerFile' \in {ledgerFile, {}}
    /\ BackToLoop(s, FALSE)
    /\ UNCHANGED lost

\* The node has the transaction but its answer does not arrive: the handler
\* throws and nothing is recorded.
ReplyLost(s) ==
    /\ "lost_reply" \in Faults
    /\ pc[s] = "reply"
    /\ lost' = lost \cup (target[s] \ ledger)
    /\ BackToLoop(s, FALSE)
    /\ UNCHANGED <<ledger, ledgerFile>>

\* Faulty: the cursor takes any block.
UpdateCursorUnguarded(s) ==
    /\ pc[s] = "close"
    /\ cursor' = block[s] /\ cursorFile' = block[s]
    /\ EndScan(s)

\* The end of the cycle: cursor.update(currentBlock) and the save, which may
\* throw and leave the file as it was or torn.
UpdateCursor(s) ==
    /\ pc[s] = "close"
    /\ block[s] >= cursor
    /\ cursor' = block[s]
    /\ \/ cursorFile' = block[s]
       \/ "save" \in Faults /\ cursorFile' \in {cursorFile, 0}
    /\ EndScan(s)

\* update throws because a later block was closed first: the cycle is
\* reported as failed although its actions are done.
CursorRefuses(s) ==
    /\ pc[s] = "close"
    /\ block[s] < cursor
    /\ EndScan(s)
    /\ UNCHANGED <<cursor, cursorFile>>

-----------------------------------------------------------------------------
\* The process stops at any moment; what it knew is gone, and the next one
\* will load both files.  A stop in the middle of writeFileSync leaves a file
\* that does not parse, which load takes for an empty one.
Stop(tornLedger, tornCursor) ==
    /\ "restart" \in Faults
    /\ process = "up"
    /\ tornLedger => \E s \in Scans : pc[s] = "reply" /\ ~(target[s] \subseteq ledger)
    /\ tornCursor => \E s \in Scans : pc[s] = "close" /\ block[s] >= cursor
    /\ process' = "down"
    /\ ledgerFile' = IF tornLedger THEN {} ELSE ledgerFile
    /\ ledger' = ledgerFile'
    /\ cursorFile' = IF tornCursor THEN 0 ELSE cursorFile
    /\ cursor' = cursorFile'
    /\ pc' = [s \in Scans |-> "idle"]
    /\ block' = [s \in Scans |-> 0]
    /\ seen' = [s \in Scans |-> {}]
    /\ todo' = [s \in Scans |-> {}]
    /\ target' = [s \in Scans |-> {}]
    /\ acted' = [s \in Scans |-> 0]
    /\ lost' = lost \cup {r \in Receipts : sent[r] > 0 /\ r \notin ledger'}
    /\ UNCHANGED <<chainVars, sent>>

AnyStop == \E tornLedger, tornCursor \in BOOLEAN : Stop(tornLedger, tornCursor)

\* main of a new process: createChainContext has loaded ledger and cursor.
Boot ==
    /\ process = "down"
    /\ process' = "up"
    /\ UNCHANGED <<chainVars, sent, stateVars, pc, scanVars, lost>>

InProcess(A) == process = "up" /\ A /\ UNCHANGED process

ScanStep(s) ==
    /\ process = "up"
    /\ UNCHANGED process
    /\ \/ StartScan(s) \/ ReadHead(s) \/ HeadFails(s)
       \/ ReadReceipts(s) \/ ReadDisputes(s) \/ RuleFails(s)
       \/ PickFinding(s) \/ EndActions(s) \/ HandlerFails(s) \/ Submit(s)
       \/ RecordAction(s) \/ RecordActionUnsaved(s) \/ ReplyLost(s)
       \/ UpdateCursor(s) \/ CursorRefuses(s)

Next ==
    \/ \E s \in Scans : ScanStep(s)
    \/ \E new, opened \in SUBSET Receipts : MineBlock(new, opened)
    \/ AnyStop \/ Boot

Spec == Init /\ [][Next]_vars

\* The timer keeps ticking and every await of a cycle is answered in the end
\* (weak fairness).  A query for the newest block, one about it, and a
\* submission succeed some time when they are tried again and again (strong
\* fairness): setInterval never gives up, and an RPC node that fails or lags
\* for good is not the watcher's to mend.  Nor is a process that is stopped
\* for ever before it gets to its second finding: from some time on it stays
\* up.
Fairness ==
    /\ \A s \in Scans :
        /\ WF_vars(ScanStep(s))
        /\ SF_vars(InProcess(ReadHead(s) /\ block'[s] = head))
        /\ SF_vars(InProcess(ReadReceipts(s) /\ block[s] = head))
        /\ SF_vars(InProcess(ReadDisputes(s) /\ block[s] = head))
        /\ SF_vars(InProcess(Submit(s)))
    /\ <>[](process = "up")

FairSpec == Spec /\ Fairness

-----------------------------------------------------------------------------
TypeOK ==
    /\ head \in 1 .. MaxBlock + 1
    /\ postedAt \in [Receipts -> Nat]
    /\ disputedAt \in [Receipts -> Nat]
    /\ sent \in [Receipts -> Nat]
    /\ ledger \subseteq Receipts /\ ledgerFile \subseteq Receipts
    /\ cursor \in Nat /\ cursorFile \in Nat
    /\ process \in {"up", "down"}
    /\ pc \in [Scans -> PCs]
    /\ block \in [Scans -> Nat]
    /\ seen \in [Scans -> SUBSET Receipts]
    /\ todo \in [Scans -> SUBSET Receipts]
    /\ target \in [Scans -> SUBSET Receipts]
    /\ acted \in [Scans -> 0 .. MaxActions]
    /\ lost \subseteq Receipts

\* Every ledger entry stands for a transaction that was submitted, and the
\* file never knows more than the memory: ActionLedger.recordAction runs
\* after the handler and saves what it has just added.
LedgerSound ==
    /\ \A r \in ledger : sent[r] > 0
    /\ ledgerFile \subseteq ledger

\* A receipt gets a dispute transaction from a watcher only when its deadline
\* and the minimum age have passed on the chain.
DisputedOnlyWhenStale ==
    \A r \in Receipts : sent[r] > 0 => postedAt[r] # 0 /\ IsStale(postedAt[r], head)

\* While no cycle overlaps another one, a receipt is submitted again only
\* when the outcome of an earlier submission was lost; with n slots it is
\* submitted at most n times before that.
SubmissionsBounded ==
    \A r \in Receipts : sent[r] > Cardinality(Scans) => r \in lost

\* No cycle acts on a receipt whose dispute was on the chain at the block it
\* scans: the query for disputes reaches as far back as the one for receipts.
NoFindingForDisputed ==
    \A s \in Scans : \A r \in todo[s] \cup target[s] :
        disputedAt[r] = 0 \/ disputedAt[r] > block[s]

\* The saved cursor moves forward or becomes unreadable, in whatever order
\* overlapping cycles close and whenever the process restarts.
CursorFileMonotone ==
    [][cursorFile' >= cursorFile \/ cursorFile' = 0]_cursorFile

\* A stale receipt gets its transaction, whatever fails on the way, unless
\* somebody disputes it or it leaves the blocks a scan looks back on; a
\* finding that fails every time does not keep the others from their turn.
StaleIsDisputed ==
    \A r \in Receipts :
        (InWindow(postedAt[r], head) /\ IsStale(postedAt[r], head))
            ~> (sent[r] > 0 \/ disputedAt[r] # 0 \/ ~InWindow(postedAt[r], head))

\* The abstract view: an answer that is awaited, a record, or neither.
Awaited(r) == \E s \in Scans : pc[s] = "reply" /\ r \in target[s]

RecordStatus ==
    [r \in Receipts |-> IF Awaited(r) THEN "inflight"
                        ELSE IF r \in ledger THEN "recorded"
                        ELSE IF r \in lost THEN "unknown"
                        ELSE "open"]

Once == INSTANCE DisputeOnce WITH status <- RecordStatus

\* A watcher whose cycles do not overlap implements DisputeOnce.
ImplementsOnce == Once!Spec

\* 000-docs/012-EPIC1-receipt-stale-autochallenge.md:58-60, Safety Gates: "Never acts
\* on the same receipt twice".
NeverActsTwice == \A r \in Receipts : sent[r] <= 1
=============================================================================
