----------------------------- MODULE ContextSync -----------------------------
(***************************************************************************)
(* syncAndScoreContext (watchtower-core/src/context): reads the            *)
(* transactions of an agent in a range of blocks, stores the signals they  *)
(* give as a snapshot, and moves the agent's cursor.  Every sync is a      *)
(* process of its own (wt cx:sync), it may die between any two steps, and  *)
(* the options --from-block and --to-block override its range.             *)
(*                                                                         *)
(* The source of the transactions is the interface ContextDataSource; the  *)
(* one the command brings lists none yet.  Height -1 stands for "not on    *)
(* the chain"; a block's timestamp is its height.  What the snapshot does  *)
(* to the risk store is the subject of RiskStore.                          *)
(***************************************************************************)
EXTENDS Integers, FiniteSetsExt

CONSTANTS
    Syncs,         \* concurrent syncs of one agent
    Txs,           \* transactions of the agent: groups of a block and a counterparty
    Number,        \* how many each group is
    Peer,          \* the counterparty of each
    Inbound,       \* those that bring the agent value
    FromContract,  \* those that a contract has sent
    AllowTag, DenyTag, \* kinds that the two lists give to some counterparties
    MaxBlocks, MinTxForConcentration, BurstMinTx, BurstMultiplier,
    DormancyThreshold, \* ContextConfig
    Share, OfShare, \* concentrationThreshold, as a fraction
    MaxReorg,      \* how many of the newest blocks may be replaced
    MaxHeight,     \* bound: the highest block
    MaxReorgs,     \* bound: how often blocks are replaced
    MaxOverrides   \* bound: syncs with options

Kinds == {"EOA", "CONTRACT", "CEX", "BRIDGE", "MIXER", "UNKNOWN"}

ASSUME ContextAssumption ==
    /\ Number \in [Txs -> Nat \ {0}]
    /\ Inbound \subseteq Txs /\ FromContract \subseteq Txs
    /\ {MaxBlocks, MinTxForConcentration, BurstMinTx, BurstMultiplier,
        DormancyThreshold} \subseteq Nat \ {0}
    /\ Share \in 0 .. OfShare /\ OfShare \in Nat \ {0}
    /\ MaxHeight \in Nat \ {0} /\ {MaxReorg, MaxReorgs, MaxOverrides} \subseteq Nat

VARIABLES
    tip,        \* the chain: latest block number
    minedAt,    \* the chain: height of each transaction
    cursor,     \* context_cursor.last_block, 0 without a row
    counted,    \* transactions that some stored snapshot is about
    base,       \* history: where the series of syncs that the cursor ends began
    series,     \* history, per sync: where the series it is part of began
    everRead,   \* blocks that have been read
    late,       \* transactions that came to a block that had been read
    reorgs,     \* times that blocks were replaced
    overrides,  \* syncs with options so far
    pc,         \* per sync: the await it stands at
    asked,      \* per sync: what it was given, and the cursor it read, until it has its range
    from, to,   \* per sync: fromBlock, effectiveTo
    got,        \* per sync: transactions of the range
    signals,    \* per sync: signals derived
    steady      \* per sync: has the chain rested since its first answer?

chainVars == <<tip, minedAt, everRead, late, reorgs>>
dbVars == <<cursor, counted, base>>
syncVars == <<overrides, pc, asked, series, from, to, got, signals>>
vars == <<chainVars, dbVars, syncVars, steady>>

Nothing == -1
NotAsked == [cursor |-> 0, from |-> Nothing, to |-> Nothing]
PCs == {"idle", "tip", "txs", "prior", "cursor"}

Init ==
    /\ tip = 1
    /\ minedAt = [x \in Txs |-> Nothing]
    /\ everRead = {} /\ late = {} /\ reorgs = 0
    /\ cursor = 0 /\ counted = {} /\ base = 0
    /\ overrides = 0
    /\ pc = [p \in Syncs |-> "idle"]
    /\ asked = [p \in Syncs |-> NotAsked]
    /\ series = [p \in Syncs |-> 0]
    /\ from = [p \in Syncs |-> 0]
    /\ to = [p \in Syncs |-> 0]
    /\ got = [p \in Syncs |-> {}]
    /\ signals = [p \in Syncs |-> {}]
    /\ steady = [p \in Syncs |-> FALSE]

-----------------------------------------------------------------------------
(* The chain. *)

\* The next block, with some of the pending transactions.
NewBlock(S) ==
    /\ tip < MaxHeight
    /\ \A x \in S : minedAt[x] = Nothing
    /\ tip' = tip + 1
    /\ minedAt' = [x \in Txs |-> IF x \in S THEN tip + 1 ELSE minedAt[x]]
    /\ late' = IF tip + 1 \in everRead THEN late \cup S ELSE late
    /\ steady' = [p \in Syncs |-> steady[p] /\ S = {}]
    /\ UNCHANGED <<everRead, reorgs>> /\ UNCHANGED dbVars /\ UNCHANGED syncVars

\* The newest depth blocks are replaced: their transactions move among them
\* or drop out, and pending ones may come in.
Reorg(depth, new) ==
    /\ depth <= MaxReorg /\ depth < tip
    /\ reorgs < MaxReorgs /\ reorgs' = reorgs + 1
    /\ \A x \in Txs :
          IF minedAt[x] = Nothing \/ minedAt[x] > tip - depth
          THEN new[x] = Nothing \/ new[x] \in tip - depth + 1 .. tip
          ELSE new[x] = minedAt[x]
    /\ minedAt' = new
    /\ late' = late \cup {x \in Txs : new[x] # minedAt[x] /\ new[x] \in everRead}
    /\ steady' = [p \in Syncs |-> FALSE]
    /\ UNCHANGED <<tip, everRead>> /\ UNCHANGED dbVars /\ UNCHANGED syncVars

AnyReorg ==
    \E depth \in 1 .. MaxReorg, new \in [Txs -> Nothing .. MaxHeight] : Reorg(depth, new)

-----------------------------------------------------------------------------
(* The range of a sync. *)

\* Without a cursor the newest blocks are read, one more than maxBlocks.
FromBlock(a, latest) ==
    IF a.from # Nothing THEN a.from
    ELSE IF a.cursor # 0 THEN a.cursor + 1
    ELSE IF latest > MaxBlocks THEN latest - MaxBlocks ELSE 0

\* Not bounded by the chain when it is given.
ToBlock(a, latest) == IF a.to # Nothing THEN a.to ELSE latest

\* Faulty: the bound is forgotten.
EffectiveToAll(f, t) == t

EffectiveTo(f, t) == IF t - f > MaxBlocks THEN f + MaxBlocks - 1 ELSE t

IsEmpty(f, t) == f > t

\* The window before the range, as long as that, as far as the chain goes.
PriorFrom(f, t) == LET size == t - f + 1 IN IF f > size THEN f - size ELSE 0
PriorTo(f) == IF f > 0 THEN f - 1 ELSE 0

Count(W) == MapThenSumSet(LAMBDA x : Number[x], W)

Between(f, t) == {x \in Txs : f <= minedAt[x] /\ minedAt[x] <= t}

-----------------------------------------------------------------------------
(* Signals. *)

\* classifyFunding, of the first transfer to the agent in the window: the
\* denylist, the allowlist, then what the sender is.
KindOf(x) ==
    IF Peer[x] \in DOMAIN DenyTag THEN DenyTag[Peer[x]]
    ELSE IF Peer[x] \in DOMAIN AllowTag THEN AllowTag[Peer[x]]
    ELSE IF x \in FromContract THEN "CONTRACT" ELSE "EOA"

\* Transfers of one block come in the order of the source.
FundingKinds(W) ==
    LET inbound == W \cap Inbound
        first == {x \in inbound : \A y \in inbound : minedAt[x] <= minedAt[y]}
    IN  IF inbound = {} THEN {"UNKNOWN"} ELSE {KindOf(x) : x \in first}

FundingSignals(kind) ==
    CASE kind = "CONTRACT" -> {"CX_FUNDED_BY_CONTRACT"}
      [] kind = "UNKNOWN" -> {"CX_FUNDED_BY_UNKNOWN"}
      [] OTHER -> {}

Concentrated(W) ==
    /\ Count(W) >= MinTxForConcentration
    /\ \E x \in W : Count({y \in W : Peer[y] = Peer[x]}) * OfShare > Share * Count(W)

Burst(W, priorCount) ==
    /\ Count(W) >= BurstMinTx
    /\ priorCount > 0
    /\ Count(W) > priorCount * BurstMultiplier

DormantThenBurst(W, priorCount) ==
    /\ Count(W) >= BurstMinTx
    /\ priorCount = 0
    /\ \A x, y \in W : minedAt[x] - minedAt[y] < DormancyThreshold

\* deriveContextSignals, without the transfers of tokens.
ContextSignals(W, priorCount, kind) ==
    FundingSignals(kind)
    \cup (IF Concentrated(W) THEN {"CX_COUNTERPARTY_CONCENTRATION_HIGH"} ELSE {})
    \cup (IF Burst(W, priorCount) THEN {"CX_TX_BURST"} ELSE {})
    \cup (IF DormantThenBurst(W, priorCount) THEN {"CX_DORMANT_THEN_BURST"} ELSE {})

-----------------------------------------------------------------------------
(* One sync. *)

Free(p) == pc[p] = "idle"

\* What sync p has worked with is gone.
End(p) ==
    /\ pc' = [pc EXCEPT ![p] = "idle"]
    /\ asked' = [asked EXCEPT ![p] = NotAsked]
    /\ series' = [series EXCEPT ![p] = 0]
    /\ from' = [from EXCEPT ![p] = 0] /\ to' = [to EXCEPT ![p] = 0]
    /\ got' = [got EXCEPT ![p] = {}]
    /\ signals' = [signals EXCEPT ![p] = {}]
    /\ steady' = [steady EXCEPT ![p] = FALSE]
    /\ UNCHANGED overrides

\* An agent's first sync and one with --from-block open a series of their own;
\* every other goes on from the cursor it has read.
Opens(a) == a.cursor = 0 \/ a.from # Nothing

\* getContextCursor; the answer of getBlockNumber is awaited.
Start(p) ==
    /\ Free(p)
    /\ \E f, t \in Nothing .. MaxHeight :
        /\ IF f = Nothing /\ t = Nothing THEN UNCHANGED overrides
           ELSE overrides < MaxOverrides /\ overrides' = overrides + 1
        /\ asked' = [asked EXCEPT ![p] = [cursor |-> cursor, from |-> f, to |-> t]]
    /\ series' = [series EXCEPT ![p] = base]
    /\ pc' = [pc EXCEPT ![p] = "tip"]
    /\ UNCHANGED <<from, to, got, signals, steady>>
    /\ UNCHANGED chainVars /\ UNCHANGED dbVars

\* The range; without a block in it the sync is over.
ReadTip(p) ==
    LET f == FromBlock(asked[p], tip)
        t == ToBlock(asked[p], tip)
    IN  /\ pc[p] = "tip"
        /\ IF IsEmpty(f, t)
           THEN End(p)
           ELSE /\ series' = [series EXCEPT ![p] = IF Opens(asked[p]) THEN f ELSE @]
                /\ asked' = [asked EXCEPT ![p] = NotAsked]
                /\ from' = [from EXCEPT ![p] = f]
                /\ to' = [to EXCEPT ![p] = EffectiveTo(f, t)]
                /\ steady' = [steady EXCEPT ![p] = TRUE]
                /\ pc' = [pc EXCEPT ![p] = "txs"]
                /\ UNCHANGED <<overrides, got, signals>>
        /\ UNCHANGED chainVars /\ UNCHANGED dbVars

ReadTransactions(p) ==
    /\ pc[p] = "txs"
    /\ got' = [got EXCEPT ![p] = Between(from[p], to[p])]
    /\ everRead' = everRead \cup from[p] .. to[p]
    /\ pc' = [pc EXCEPT ![p] = "prior"]
    /\ UNCHANGED <<tip, minedAt, late, reorgs, overrides, asked, series, from, to, signals, steady>>
    /\ UNCHANGED dbVars

\* The answer about the window before; the signals of both windows and
\* insertSnapshot, with what follows from it in the risk store, await nothing.
StoreSnapshot(p) ==
    /\ pc[p] = "prior"
    /\ LET n == Count(Between(PriorFrom(from[p], to[p]), PriorTo(from[p])))
       IN  \E kind \in FundingKinds(got[p]) :
                signals' = [signals EXCEPT ![p] = ContextSignals(got[p], n, kind)]
    /\ counted' = counted \cup got[p]
    /\ pc' = [pc EXCEPT ![p] = "cursor"]
    /\ UNCHANGED <<cursor, base, overrides, asked, series, from, to, got, steady>>
    /\ UNCHANGED chainVars

\* The series that the cursor ends once sync p has moved it: that of p, unless
\* the range of p overlaps or extends the one before.
SeriesAfter(p) == IF from[p] \in base .. cursor + 1 THEN base ELSE series[p]

\* Faulty: the cursor moves to the tip of which only a part was read.
SetCursorToTip(p) ==
    /\ pc[p] = "cursor"
    /\ cursor' = tip
    /\ base' = SeriesAfter(p)
    /\ End(p)
    /\ UNCHANGED counted /\ UNCHANGED chainVars

\* setContextCursor, whatever the cursor is by now.
SetCursor(p) ==
    /\ pc[p] = "cursor"
    /\ cursor' = to[p]
    /\ base' = SeriesAfter(p)
    /\ End(p)
    /\ UNCHANGED counted /\ UNCHANGED chainVars

\* The process dies, or a call of the source rejects, and the sync is over.
Crash(p) ==
    /\ ~Free(p)
    /\ End(p)
    /\ UNCHANGED chainVars /\ UNCHANGED dbVars

Next ==
    \/ \E S \in SUBSET Txs : NewBlock(S)
    \/ AnyReorg
    \/ \E p \in Syncs :
        \/ Start(p) \/ ReadTip(p) \/ ReadTransactions(p)
        \/ StoreSnapshot(p) \/ SetCursor(p) \/ Crash(p)

Spec == Init /\ [][Next]_vars

-----------------------------------------------------------------------------
TypeOK ==
    /\ tip \in 1 .. MaxHeight
    /\ minedAt \in [Txs -> Nothing .. tip]
    /\ {cursor, base} \subseteq 0 .. MaxHeight
    /\ counted \subseteq Txs /\ late \subseteq Txs /\ everRead \subseteq 0 .. MaxHeight
    /\ reorgs \in 0 .. MaxReorgs /\ overrides \in 0 .. MaxOverrides
    /\ pc \in [Syncs -> PCs]
    /\ asked \in [Syncs -> [cursor : Nat, from : Nothing .. MaxHeight, to : Nothing .. MaxHeight]]
    /\ series \in [Syncs -> 0 .. MaxHeight]
    /\ from \in [Syncs -> Nat] /\ to \in [Syncs -> Nat] /\ \A p \in Syncs : from[p] <= to[p]
    /\ got \in [Syncs -> SUBSET Txs]

\* Nothing is skipped within a series: every transaction from the block where
\* the series that the cursor ends began up to the cursor is part of a snapshot,
\* however the syncs overlapped, were given ranges or died, unless it came to
\* its block after that had been read (by a reorg, or because --to-block lay
\* ahead of the chain).  This is all that setContextCursor keeps: first syncs
\* that overlap, and syncs with --from-block, may end in ranges that do not
\* meet, and then the cursor passes the blocks between two series unread.
NothingIsSkipped ==
    \A x \in Txs : base <= minedAt[x] /\ minedAt[x] <= cursor => x \in counted \cup late

\* On a chain that rests, a snapshot is about at most maxBlocks + 1 blocks and
\* its signals are those of its blocks, compared with as many before.
SnapshotsAreSound ==
    \A p \in Syncs :
        pc[p] = "cursor" /\ steady[p] =>
            LET blocks == from[p] .. to[p]
                size == Cardinality(blocks)
                these == {x \in Txs : minedAt[x] \in blocks}
                before == {x \in Txs : minedAt[x] \in 0 .. from[p] - 1 /\ minedAt[x] + size >= from[p]}
            IN  /\ size <= MaxBlocks + 1
                /\ \E kind \in FundingKinds(these) :
                    signals[p] = ContextSignals(these, Count(before), kind)
=============================================================================
