--------------------------- MODULE IdentityPoller ---------------------------
(***************************************************************************)
(* pollIdentityEvents (watchtower-core/src/identity/identityPoller.ts):    *)
(* reads the registration events of a range of blocks into SQLite and      *)
(* moves the cursor of the registry.  Every poll is a process of its own   *)
(* (wt id:sync from a shell or a timer), so polls may overlap on one       *)
(* database and may die between any two steps.  The chain grows and its    *)
(* newest blocks may be replaced.                                          *)
(*                                                                         *)
(* An event is named by transaction and log index, as its row is; height 0 *)
(* stands for "not on the chain" or "not in the database", and cursor 0 is *)
(* what getCursor returns when there is no row.                            *)
(***************************************************************************)
EXTENDS Integers, FiniteSets

CONSTANTS
    Pollers,        \* concurrent runs of the poller
    Events,         \* registration events, by (txHash, logIndex)
    StartBlock, BatchSize, Confirmations, OverlapBlocks, \* IdentityConfig
    MaxReorg,       \* how many of the newest blocks may be replaced
    MaxHeight       \* bound: the highest block

ASSUME ConfigAssumption ==
    /\ StartBlock \in Nat
    /\ BatchSize \in Nat \ {0}
    /\ Confirmations \in Nat
    /\ OverlapBlocks \in Nat
    /\ MaxReorg \in Nat
    /\ MaxHeight \in Nat \ {0}

VARIABLES
    tip,        \* the chain: latest block number
    minedAt,    \* the chain: height of the block with the event
    storedAt,   \* identity_events.block_number
    cursor,     \* identity_cursor.last_block
    pc,         \* per poller: the await it stands at
    from, to,   \* per poller: fromBlock, toBlock
    got         \* per poller: events still to insert, with their heights

chainVars == <<tip, minedAt>>
dbVars == <<storedAt, cursor>>
vars == <<chainVars, dbVars, pc, from, to, got>>

Nowhere == [e \in Events |-> 0]
PCs == {"idle", "head", "logs", "store", "dead"}

Init ==
    /\ tip = 1
    /\ minedAt = Nowhere
    /\ storedAt = Nowhere
    /\ cursor = 0
    /\ pc = [p \in Pollers |-> "idle"]
    /\ from = [p \in Pollers |-> StartBlock]
    /\ to = [p \in Pollers |-> 0]
    /\ got = [p \in Pollers |-> Nowhere]

-----------------------------------------------------------------------------
(* The chain. *)

\* The next block, with some of the pending events.
NewBlock(S) ==
    /\ tip < MaxHeight
    /\ \A e \in S : minedAt[e] = 0
    /\ tip' = tip + 1
    /\ minedAt' = [e \in Events |-> IF e \in S THEN tip + 1 ELSE minedAt[e]]
    /\ UNCHANGED <<dbVars, pc, from, to, got>>

\* The newest depth blocks are replaced by as many others: their events move
\* among them or drop out, and pending ones may come in.
Reorg(depth, new) ==
    /\ depth <= MaxReorg /\ depth < tip
    /\ \A e \in Events :
          IF minedAt[e] = 0 \/ minedAt[e] > tip - depth
          THEN new[e] = 0 \/ (new[e] > tip - depth /\ new[e] <= tip)
          ELSE new[e] = minedAt[e]
    /\ minedAt' = new
    /\ UNCHANGED <<tip, dbVars, pc, from, to, got>>

AnyReorg == \E depth \in 1 .. MaxReorg, new \in [Events -> 0 .. MaxHeight] : Reorg(depth, new)

-----------------------------------------------------------------------------
(* One poll. *)

BiggerOf(a, b) == IF a > b THEN a ELSE b
SmallerOf(a, b) == IF a < b THEN a ELSE b

\* max(startBlock, cursor - overlap), and startBlock while there is no cursor.
FromBlock(c) ==
    IF c = 0 THEN StartBlock
    ELSE BiggerOf(IF c > OverlapBlocks THEN c - OverlapBlocks ELSE 0, StartBlock)

\* Faulty: the newest blocks are taken as they are.
ToBlockUnconfirmed(f, latest) == SmallerOf(f + BatchSize - 1, latest)

\* Faulty: the last confirmed block is left out.
ToBlockShort(f, latest) == SmallerOf(f + BatchSize - 1, latest - Confirmations - 1)

\* min(fromBlock + batchSize - 1, latestBlock - confirmations)
ToBlock(f, latest) == SmallerOf(f + BatchSize - 1, latest - Confirmations)

\* getCursor; the answer of getLatestBlockNumber is awaited.
StartPoll(p) ==
    /\ pc[p] \in {"idle", "dead"}
    /\ from' = [from EXCEPT ![p] = FromBlock(cursor)]
    /\ pc' = [pc EXCEPT ![p] = "head"]
    /\ UNCHANGED <<chainVars, dbVars, to, got>>

\* The head arrives: nothing to poll, or the events of the range are asked
\* for.
ReadHead(p) ==
    /\ pc[p] = "head"
    /\ IF from[p] > ToBlock(from[p], tip)
       THEN /\ pc' = [pc EXCEPT ![p] = "idle"]
            /\ UNCHANGED to
       ELSE /\ pc' = [pc EXCEPT ![p] = "logs"]
            /\ to' = [to EXCEPT ![p] = ToBlock(from[p], tip)]
    /\ UNCHANGED <<chainVars, dbVars, from, got>>

\* getRegistrationEvents(fromBlock, toBlock)
ReadLogs(p) ==
    /\ pc[p] = "logs"
    /\ got' = [got EXCEPT ![p] =
                 [e \in Events |-> IF minedAt[e] # 0 /\ from[p] <= minedAt[e] /\ minedAt[e] <= to[p]
                                   THEN minedAt[e] ELSE 0]]
    /\ pc' = [pc EXCEPT ![p] = "store"]
    /\ UNCHANGED <<chainVars, dbVars, from, to>>

\* insertIdentityEvent for the next event: INSERT OR IGNORE, so the row of
\* an event that is there already stays as it is.
InsertEvent(p) ==
    /\ pc[p] = "store"
    /\ \E e \in Events :
        /\ got[p][e] # 0
        /\ \A f \in Events : got[p][f] # 0 => got[p][e] <= got[p][f]
        /\ storedAt' = [storedAt EXCEPT ![e] = IF @ = 0 THEN got[p][e] ELSE @]
        /\ got' = [got EXCEPT ![p][e] = 0]
    /\ UNCHANGED <<chainVars, cursor, pc, from, to>>

\* Faulty: the cursor is moved before the last event is stored.
CommitCursorEarly(p) ==
    /\ pc[p] = "store"
    /\ cursor' = to[p]
    /\ pc' = [pc EXCEPT ![p] = "idle"]
    /\ got' = [got EXCEPT ![p] = Nowhere]
    /\ UNCHANGED <<chainVars, storedAt, from, to>>

\* setCursor(toBlock), whatever the cursor is by now.
CommitCursor(p) ==
    /\ pc[p] = "store"
    /\ got[p] = Nowhere
    /\ cursor' = to[p]
    /\ pc' = [pc EXCEPT ![p] = "idle"]
    /\ UNCHANGED <<chainVars, storedAt, from, to, got>>

\* The process dies or an RPC call rejects; what SQLite has committed stays.
Crash(p) ==
    /\ pc[p] \notin {"idle", "dead"}
    /\ pc' = [pc EXCEPT ![p] = "dead"]
    /\ got' = [got EXCEPT ![p] = Nowhere]
    /\ UNCHANGED <<chainVars, dbVars, from, to>>

PollStep(p) ==
    StartPoll(p) \/ ReadHead(p) \/ ReadLogs(p) \/ InsertEvent(p) \/ CommitCursor(p)

Next ==
    \/ \E S \in SUBSET Events : NewBlock(S)
    \/ AnyReorg
    \/ \E p \in Pollers : PollStep(p) \/ Crash(p)

Spec == Init /\ [][Next]_vars

\* Polls are started again and again and run to their end, from some time on
\* without a failure, and the chain settles.
Fairness ==
    /\ \A p \in Pollers : WF_vars(PollStep(p))
    /\ <>[][~AnyReorg]_vars
    /\ <>[](\A p \in Pollers : pc[p] # "dead")

FairSpec == Spec /\ Fairness

-----------------------------------------------------------------------------
TypeOK ==
    /\ tip \in 1 .. MaxHeight
    /\ minedAt \in [Events -> Nat]
    /\ storedAt \in [Events -> Nat]
    /\ cursor \in Nat
    /\ pc \in [Pollers -> PCs]
    /\ from \in [Pollers -> Nat] /\ \A p \in Pollers : from[p] >= StartBlock
    /\ to \in [Pollers -> Nat]
    /\ got \in [Pollers -> [Events -> Nat]]

\* Nothing is missed: an event of the chain in a block the poller will not
\* read again is in the database, whatever polls overlapped or died and
\* whatever blocks were replaced, as long as no more are replaced than
\* confirmations and overlap make up for.
NoGap ==
    \A e \in Events :
        minedAt[e] # 0 /\ StartBlock <= minedAt[e] /\ minedAt[e] + OverlapBlocks <= cursor
            => storedAt[e] # 0

\* When no more blocks are replaced than are waited for, a row is final: its
\* event stays on the chain, in the block the row names.
StoredIsFinal ==
    \A e \in Events : storedAt[e] # 0 => minedAt[e] = storedAt[e]

Confirmed(e) == minedAt[e] # 0 /\ minedAt[e] >= StartBlock /\ minedAt[e] + Confirmations <= tip

\* A confirmed event ends up in the database, however polls overlap and die,
\* provided a batch reaches past the overlap; otherwise the same blocks are
\* read for ever.
ConfirmedIsStored == \A e \in Events : []<>(storedAt[e] # 0 \/ ~Confirmed(e))
=============================================================================
