------------------------ MODULE IdentityPollerProofs ------------------------
(***************************************************************************)
(* Proofs about IdentityPoller for any number of overlapping polls, any    *)
(* events and any batch size, confirmations and overlap.                   *)
(***************************************************************************)
EXTENDS IdentityPoller, TLAPS

-----------------------------------------------------------------------------
(* Types. *)

LEMMA FromBlockType ==
    ASSUME NEW c \in Nat
    PROVE  FromBlock(c) \in Nat /\ FromBlock(c) >= StartBlock
BY ConfigAssumption DEF FromBlock, BiggerOf

\* The end of a range that is not empty: at most a batch, all confirmed.
LEMMA ToBlockRange ==
    ASSUME NEW f \in Nat, NEW latest \in Nat, f <= ToBlock(f, latest)
    PROVE  ToBlock(f, latest) \in Nat /\ ToBlock(f, latest) + Confirmations <= latest
BY ConfigAssumption DEF ToBlock, SmallerOf

LEMMA PollStepTypes ==
    ASSUME TypeOK, NEW p \in Pollers, PollStep(p) \/ Crash(p)
    PROVE  TypeOK'
<1> USE ConfigAssumption DEF TypeOK, PCs, chainVars, dbVars
<1>1. CASE StartPoll(p) BY <1>1, FromBlockType DEF StartPoll
<1>2. CASE ReadHead(p)
    <2>1. tip \in Nat /\ from[p] \in Nat /\ ToBlock(from[p], tip) \in Int
        BY DEF ToBlock, SmallerOf
    <2>2. from[p] <= ToBlock(from[p], tip) => ToBlock(from[p], tip) \in Nat
        BY <2>1, ToBlockRange
    <2>3. CASE from[p] > ToBlock(from[p], tip)
        BY <1>2, <2>3 DEF ReadHead
    <2>4. CASE from[p] <= ToBlock(from[p], tip)
        <3>1. pc' = [pc EXCEPT ![p] = "logs"] /\ to' = [to EXCEPT ![p] = ToBlock(from[p], tip)]
            BY <1>2, <2>1, <2>4 DEF ReadHead
        <3> QED BY <1>2, <2>2, <2>4, <3>1 DEF ReadHead
    <2> QED BY <2>1, <2>3, <2>4
<1>3. CASE ReadLogs(p) BY <1>3 DEF ReadLogs
<1>4. CASE InsertEvent(p)
    <2>1. PICK e \in Events :
              /\ got[p][e] # 0
              /\ storedAt' = [storedAt EXCEPT ![e] = IF @ = 0 THEN got[p][e] ELSE @]
              /\ got' = [got EXCEPT ![p][e] = 0]
        BY <1>4 DEF InsertEvent
    <2> QED BY <1>4, <2>1 DEF InsertEvent
<1>5. CASE CommitCursor(p) BY <1>5 DEF CommitCursor
<1>6. CASE Crash(p) BY <1>6 DEF Crash, Nowhere
<1> QED BY <1>1, <1>2, <1>3, <1>4, <1>5, <1>6 DEF PollStep

LEMMA ChainStepTypes ==
    ASSUME TypeOK, (\E S \in SUBSET Events : NewBlock(S)) \/ AnyReorg
    PROVE  TypeOK'
BY ConfigAssumption DEF TypeOK, NewBlock, AnyReorg, Reorg, dbVars

\* Cursor, rows and the locals of every poll keep their types.
THEOREM PollTypesCorrect == Spec => []TypeOK
<1>1. Init => TypeOK
    BY ConfigAssumption DEF Init, TypeOK, Nowhere, PCs
<1>2. TypeOK /\ [Next]_vars => TypeOK'
    <2> SUFFICES ASSUME TypeOK, [Next]_vars PROVE TypeOK'
        OBVIOUS
    <2>1. CASE UNCHANGED vars BY <2>1 DEF vars, chainVars, dbVars, TypeOK
    <2> QED BY <2>1, PollStepTypes, ChainStepTypes DEF Next
<1> QED BY <1>1, <1>2, PTL DEF Spec

-----------------------------------------------------------------------------
(* Nothing is missed.  What a poll or the cursor takes for done lies deeper *)
(* than any reorganisation reaches, so the chain cannot change it any more. *)

Missing(e) == minedAt[e] # 0 /\ StartBlock <= minedAt[e] /\ storedAt[e] = 0

\* Blocks below fromBlock will not be read by this poll.
FromIsSettled(p) ==
    /\ from[p] = StartBlock \/ from[p] + OverlapBlocks + Confirmations <= tip
    /\ \A e \in Events : Missing(e) => from[p] <= minedAt[e]

ToIsConfirmed(p) == to[p] + Confirmations <= tip

\* What the commit of this poll will take for done is stored or in hand.
GotWhatIsMissing(p) ==
    \A e \in Events : Missing(e) /\ minedAt[e] + OverlapBlocks <= to[p] => got[p][e] # 0

CursorIsConfirmed == cursor = 0 \/ cursor + Confirmations <= tip

PollInv(p) ==
    /\ pc[p] \in {"head", "logs", "store"} => FromIsSettled(p)
    /\ pc[p] \in {"logs", "store"} => ToIsConfirmed(p)
    /\ pc[p] = "store" => GotWhatIsMissing(p)

GapInv == NoGap /\ CursorIsConfirmed /\ \A p \in Pollers : PollInv(p)

\* The steps of the chain.
LEMMA NewBlockGap ==
    ASSUME TypeOK, GapInv, NEW S \in SUBSET Events, NewBlock(S)
    PROVE  GapInv'
<1>1. tip \in Nat /\ tip' = tip + 1
    BY DEF NewBlock, TypeOK
<1>2. \A e \in Events : minedAt'[e] = minedAt[e] \/ minedAt'[e] = tip + 1
    BY DEF NewBlock
<1>3. UNCHANGED <<storedAt, cursor, pc, from, to, got>>
    BY DEF NewBlock, dbVars
<1>4. NoGap' /\ CursorIsConfirmed'
    BY <1>1, <1>2, <1>3, ConfigAssumption DEF GapInv, NoGap, CursorIsConfirmed, TypeOK
<1>5. ASSUME NEW p \in Pollers PROVE PollInv(p)'
    <2>1. PollInv(p) /\ from[p] \in Nat /\ to[p] \in Nat
        BY DEF GapInv, TypeOK
    <2>2. FromIsSettled(p) => FromIsSettled(p)'
        BY <1>1, <1>2, <1>3, <2>1, ConfigAssumption DEF FromIsSettled, Missing, TypeOK
    <2>3. ToIsConfirmed(p) => ToIsConfirmed(p)'
        BY <1>1, <1>3, <2>1, ConfigAssumption DEF ToIsConfirmed
    <2>4. ToIsConfirmed(p) /\ GotWhatIsMissing(p) => GotWhatIsMissing(p)'
        BY <1>1, <1>2, <1>3, <2>1, ConfigAssumption
           DEF ToIsConfirmed, GotWhatIsMissing, Missing, TypeOK
    <2> QED BY <1>3, <2>1, <2>2, <2>3, <2>4 DEF PollInv
<1> QED BY <1>4, <1>5 DEF GapInv

LEMMA ReorgGap ==
    ASSUME MaxReorg <= Confirmations + OverlapBlocks, TypeOK, GapInv, AnyReorg
    PROVE  GapInv'
<1>1. PICK depth \in 1 .. MaxReorg : \E new \in [Events -> 0 .. MaxHeight] : Reorg(depth, new)
    BY DEF AnyReorg
<1>2. /\ tip \in Nat /\ depth \in Nat /\ depth <= Confirmations + OverlapBlocks
      /\ UNCHANGED <<tip, storedAt, cursor, pc, from, to, got>>
    BY <1>1, ConfigAssumption DEF Reorg, dbVars, TypeOK
<1>3. \A e \in Events : /\ minedAt[e] \in Nat /\ minedAt'[e] \in Nat
                        /\ minedAt'[e] # 0 /\ minedAt'[e] <= tip - depth
                               => minedAt'[e] = minedAt[e]
    BY <1>1, <1>2 DEF Reorg, TypeOK
<1>4. NoGap' /\ CursorIsConfirmed'
    <2>1. cursor \in Nat /\ cursor' = cursor /\ storedAt' = storedAt /\ NoGap /\ CursorIsConfirmed
        BY <1>2 DEF GapInv, TypeOK
    <2>2. ASSUME NEW e \in Events, minedAt'[e] # 0, minedAt'[e] + OverlapBlocks <= cursor
          PROVE  minedAt'[e] = minedAt[e]
        BY <1>2, <1>3, <2>1, <2>2, ConfigAssumption DEF CursorIsConfirmed
    <2>3. NoGap'
        BY <2>1, <2>2 DEF NoGap
    <2> QED BY <1>2, <2>1, <2>3 DEF CursorIsConfirmed
<1>5. ASSUME NEW p \in Pollers PROVE PollInv(p)'
    <2>1. PollInv(p) /\ from[p] \in Nat /\ to[p] \in Nat
        BY DEF GapInv, TypeOK
    <2>2. FromIsSettled(p) => FromIsSettled(p)'
        BY <1>2, <1>3, <2>1, ConfigAssumption DEF FromIsSettled, Missing
    <2>3. ToIsConfirmed(p) => ToIsConfirmed(p)'
        BY <1>2 DEF ToIsConfirmed
    <2>4. ToIsConfirmed(p) /\ GotWhatIsMissing(p) => GotWhatIsMissing(p)'
        BY <1>2, <1>3, <2>1, ConfigAssumption DEF ToIsConfirmed, GotWhatIsMissing, Missing
    <2> QED BY <1>2, <2>1, <2>2, <2>3, <2>4 DEF PollInv
<1> QED BY <1>4, <1>5 DEF GapInv

\* A step of a poll that leaves database and chain alone keeps what the
\* others rely on.
LEMMA QuietPollGap ==
    ASSUME TypeOK, GapInv, NEW p \in Pollers, UNCHANGED <<tip, minedAt, storedAt, cursor>>,
           \A q \in Pollers \ {p} :
               pc'[q] = pc[q] /\ from'[q] = from[q] /\ to'[q] = to[q] /\ got'[q] = got[q],
           PollInv(p)'
    PROVE  GapInv'
BY DEF GapInv, NoGap, CursorIsConfirmed, PollInv, FromIsSettled, ToIsConfirmed,
       GotWhatIsMissing, Missing

LEMMA StartPollGap ==
    ASSUME TypeOK, GapInv, NEW p \in Pollers, StartPoll(p)
    PROVE  GapInv'
<1>1. /\ pc'[p] = "head" /\ from'[p] = FromBlock(cursor) /\ cursor \in Nat
      /\ UNCHANGED <<tip, minedAt, storedAt, cursor>>
    BY DEF StartPoll, TypeOK, chainVars, dbVars
<1>2. \/ FromBlock(cursor) = StartBlock
      \/ cursor # 0 /\ FromBlock(cursor) + OverlapBlocks = cursor
    BY <1>1, ConfigAssumption DEF FromBlock, BiggerOf
<1>3. \A e \in Events : Missing(e) => FromBlock(cursor) <= minedAt[e]
    BY <1>1, <1>2, ConfigAssumption, FromBlockType DEF Missing, GapInv, NoGap, TypeOK
<1>4. FromIsSettled(p)'
    BY <1>1, <1>2, <1>3, ConfigAssumption, FromBlockType
       DEF FromIsSettled, Missing, GapInv, CursorIsConfirmed, TypeOK
<1>5. PollInv(p)'
    BY <1>1, <1>4 DEF PollInv
<1> QED BY <1>1, <1>5, QuietPollGap DEF StartPoll, TypeOK

LEMMA ReadHeadGap ==
    ASSUME TypeOK, GapInv, NEW p \in Pollers, ReadHead(p)
    PROVE  GapInv'
<1>1. UNCHANGED <<tip, minedAt, storedAt, cursor, from, got>> /\ tip \in Nat /\ from[p] \in Nat
    BY DEF ReadHead, TypeOK, chainVars, dbVars
<1>2. FromIsSettled(p)'
    BY <1>1 DEF ReadHead, GapInv, PollInv, FromIsSettled, Missing
<1>3. ToBlock(from[p], tip) \in Int
    BY <1>1, ConfigAssumption DEF ToBlock, SmallerOf
<1>4. \/ pc'[p] = "idle"
      \/ pc'[p] = "logs" /\ to'[p] = ToBlock(from[p], tip) /\ from[p] <= ToBlock(from[p], tip)
    BY <1>1, <1>3 DEF ReadHead, TypeOK
<1>5. PollInv(p)'
    BY <1>1, <1>2, <1>4, ToBlockRange DEF PollInv, ToIsConfirmed
<1> QED BY <1>1, <1>5, QuietPollGap DEF ReadHead, TypeOK

LEMMA ReadLogsGap ==
    ASSUME TypeOK, GapInv, NEW p \in Pollers, ReadLogs(p)
    PROVE  GapInv'
<1>1. /\ UNCHANGED <<tip, minedAt, storedAt, cursor, from, to>>
      /\ pc[p] = "logs" /\ pc'[p] = "store" /\ from[p] \in Nat /\ to[p] \in Nat
    BY DEF ReadLogs, TypeOK, chainVars, dbVars
<1>2. \A e \in Events : minedAt[e] # 0 /\ from[p] <= minedAt[e] /\ minedAt[e] <= to[p]
                           => got'[p][e] # 0
    BY DEF ReadLogs, TypeOK
<1>3. FromIsSettled(p)' /\ FromIsSettled(p) /\ ToIsConfirmed(p)'
    BY <1>1 DEF GapInv, PollInv, FromIsSettled, ToIsConfirmed, Missing
<1>4. GotWhatIsMissing(p)'
    BY <1>1, <1>2, <1>3, ConfigAssumption DEF GotWhatIsMissing, FromIsSettled, Missing, TypeOK
<1> QED BY <1>1, <1>3, <1>4, QuietPollGap DEF ReadLogs, PollInv, TypeOK

LEMMA InsertEventGap ==
    ASSUME TypeOK, GapInv, NEW p \in Pollers, InsertEvent(p)
    PROVE  GapInv'
<1>1. PICK e \in Events :
          /\ got[p][e] # 0
          /\ storedAt' = [storedAt EXCEPT ![e] = IF @ = 0 THEN got[p][e] ELSE @]
          /\ got' = [got EXCEPT ![p][e] = 0]
    BY DEF InsertEvent
<1>2. UNCHANGED <<tip, minedAt, cursor, pc, from, to>>
    BY DEF InsertEvent, chainVars
<1>3. \A f \in Events : Missing(f)' => Missing(f) /\ f # e
    BY <1>1, <1>2 DEF Missing, TypeOK
<1>4. \A q \in Pollers, f \in Events : f # e => got'[q][f] = got[q][f]
    BY <1>1 DEF TypeOK
<1>5. ASSUME NEW q \in Pollers PROVE PollInv(q)'
    <2>1. PollInv(q)
        BY DEF GapInv
    <2>2. FromIsSettled(q) => FromIsSettled(q)'
        BY <1>2, <1>3 DEF FromIsSettled
    <2>3. ToIsConfirmed(q) => ToIsConfirmed(q)'
        BY <1>2 DEF ToIsConfirmed
    <2>4. GotWhatIsMissing(q) => GotWhatIsMissing(q)'
        BY <1>2, <1>3, <1>4 DEF GotWhatIsMissing
    <2> QED BY <1>2, <2>1, <2>2, <2>3, <2>4 DEF PollInv
<1>6. NoGap' /\ CursorIsConfirmed'
    BY <1>1, <1>2 DEF GapInv, NoGap, CursorIsConfirmed, TypeOK
<1> QED BY <1>5, <1>6 DEF GapInv

LEMMA CommitCursorGap ==
    ASSUME TypeOK, GapInv, NEW p \in Pollers, CommitCursor(p)
    PROVE  GapInv'
<1>1. /\ pc[p] = "store" /\ got[p] = Nowhere /\ cursor' = to[p]
      /\ pc' = [pc EXCEPT ![p] = "idle"]
      /\ UNCHANGED <<tip, minedAt, storedAt, from, to, got>>
    BY DEF CommitCursor, chainVars
<1>2. ToIsConfirmed(p) /\ GotWhatIsMissing(p)
    BY <1>1 DEF GapInv, PollInv
<1>3. NoGap'
    BY <1>1, <1>2 DEF GotWhatIsMissing, Missing, NoGap, Nowhere
<1>4. CursorIsConfirmed'
    BY <1>1, <1>2 DEF ToIsConfirmed, CursorIsConfirmed
<1>5. \A q \in Pollers : PollInv(q)'
    BY <1>1 DEF GapInv, PollInv, FromIsSettled, ToIsConfirmed, GotWhatIsMissing, Missing, TypeOK
<1> QED BY <1>3, <1>4, <1>5 DEF GapInv

LEMMA CrashGap ==
    ASSUME TypeOK, GapInv, NEW p \in Pollers, Crash(p)
    PROVE  GapInv'
<1>1. pc'[p] = "dead" /\ UNCHANGED <<tip, minedAt, storedAt, cursor, from, to>>
    BY DEF Crash, TypeOK, chainVars, dbVars
<1> QED BY <1>1, QuietPollGap DEF Crash, PollInv, TypeOK

\* Whatever polls overlap, die or start over: as long as reorganisations do
\* not reach deeper than confirmations plus overlap, no event of the chain is
\* missing in the blocks that are not read again.
THEOREM NothingIsMissed ==
    ASSUME MaxReorg <= Confirmations + OverlapBlocks
    PROVE  Spec => []NoGap
<1>1. Init => GapInv
    BY ConfigAssumption
       DEF Init, GapInv, NoGap, CursorIsConfirmed, PollInv, Nowhere
<1>2. TypeOK /\ GapInv /\ [Next]_vars => GapInv'
    <2> SUFFICES ASSUME TypeOK, GapInv, [Next]_vars PROVE GapInv'
        OBVIOUS
    <2>1. ASSUME NEW S \in SUBSET Events, NewBlock(S) PROVE GapInv'
        BY <2>1, NewBlockGap
    <2>2. CASE AnyReorg
        BY <2>2, ReorgGap
    <2>3. ASSUME NEW p \in Pollers, PollStep(p) \/ Crash(p) PROVE GapInv'
        BY <2>3, StartPollGap, ReadHeadGap, ReadLogsGap, InsertEventGap, CommitCursorGap,
           CrashGap DEF PollStep
    <2>4. CASE UNCHANGED vars
        BY <2>4 DEF vars, chainVars, dbVars, GapInv, NoGap, CursorIsConfirmed, PollInv,
                    FromIsSettled, ToIsConfirmed, GotWhatIsMissing, Missing
    <2> QED BY <2>1, <2>2, <2>3, <2>4 DEF Next
<1>3. GapInv => NoGap
    BY DEF GapInv
<1> QED BY <1>1, <1>2, <1>3, PollTypesCorrect, PTL DEF Spec

-----------------------------------------------------------------------------
(* Rows are final.  With at most Confirmations blocks replaced, a height     *)
(* that was confirmed when it was read is out of reach for good.             *)

\* e is at height h, confirmed.
FinalAt(e, h) == minedAt[e] = h /\ h + Confirmations <= tip

FinalInv ==
    /\ \A e \in Events : storedAt[e] # 0 => FinalAt(e, storedAt[e])
    /\ \A p \in Pollers :
        /\ pc[p] \in {"logs", "store"} => ToIsConfirmed(p)
        /\ pc[p] = "store" =>
             \A e \in Events : got[p][e] # 0 => FinalAt(e, got[p][e])

\* The chain keeps what is final.
LEMMA FinalStays ==
    ASSUME MaxReorg <= Confirmations, TypeOK,
           (\E S \in SUBSET Events : NewBlock(S)) \/ AnyReorg,
           NEW e \in Events, NEW h \in Nat \ {0}, FinalAt(e, h)
    PROVE  FinalAt(e, h)'
<1>1. tip \in Nat /\ minedAt[e] = h /\ h + Confirmations <= tip
    BY DEF FinalAt, TypeOK
<1>2. CASE \E S \in SUBSET Events : NewBlock(S)
    BY <1>1, <1>2, ConfigAssumption DEF NewBlock, FinalAt
<1>3. CASE AnyReorg
    BY <1>1, <1>3, ConfigAssumption DEF AnyReorg, Reorg, FinalAt
<1> QED BY <1>2, <1>3

LEMMA ChainStepFinal ==
    ASSUME MaxReorg <= Confirmations, TypeOK, FinalInv,
           (\E S \in SUBSET Events : NewBlock(S)) \/ AnyReorg
    PROVE  FinalInv'
<1>1. UNCHANGED <<storedAt, pc, to, got>> /\ tip \in Nat /\ tip' \in Nat /\ tip <= tip'
    BY DEF NewBlock, AnyReorg, Reorg, dbVars, TypeOK
<1>2. \A e \in Events : storedAt'[e] # 0 => FinalAt(e, storedAt[e])'
    BY <1>1, FinalStays DEF FinalInv, TypeOK
<1>3. ASSUME NEW p \in Pollers, pc'[p] \in {"logs", "store"} PROVE ToIsConfirmed(p)'
    BY <1>1, <1>3, ConfigAssumption DEF FinalInv, ToIsConfirmed, TypeOK
<1>4. ASSUME NEW p \in Pollers, pc'[p] = "store", NEW e \in Events, got'[p][e] # 0
      PROVE  FinalAt(e, got[p][e])'
    BY <1>1, <1>4, FinalStays DEF FinalInv, TypeOK
<1> QED BY <1>1, <1>2, <1>3, <1>4 DEF FinalInv, FinalAt

LEMMA PollStepFinal ==
    ASSUME TypeOK, FinalInv, NEW p \in Pollers, PollStep(p) \/ Crash(p)
    PROVE  FinalInv'
<1>1. UNCHANGED <<tip, minedAt>>
    BY DEF PollStep, StartPoll, ReadHead, ReadLogs, InsertEvent, CommitCursor, Crash, chainVars
<1> USE <1>1 DEF FinalInv, FinalAt, ToIsConfirmed, TypeOK, dbVars
<1>2. CASE StartPoll(p) BY <1>2 DEF StartPoll
<1>3. CASE ReadHead(p)
    <2>1. tip \in Nat /\ from[p] \in Nat /\ ToBlock(from[p], tip) \in Int
        BY ConfigAssumption DEF ToBlock, SmallerOf
    <2>2. CASE from[p] > ToBlock(from[p], tip)
        BY <1>3, <2>2 DEF ReadHead
    <2>3. CASE from[p] <= ToBlock(from[p], tip)
        <3>1. pc' = [pc EXCEPT ![p] = "logs"] /\ to' = [to EXCEPT ![p] = ToBlock(from[p], tip)]
            BY <1>3, <2>1, <2>3 DEF ReadHead
        <3>2. ToBlock(from[p], tip) + Confirmations <= tip
            BY <2>1, <2>3, ToBlockRange
        <3> QED BY <1>3, <3>1, <3>2 DEF ReadHead
    <2> QED BY <2>1, <2>2, <2>3
<1>4. CASE ReadLogs(p)
    <2>1. ASSUME NEW e \in Events, got'[p][e] # 0
          PROVE  got'[p][e] = minedAt[e] /\ minedAt[e] + Confirmations <= tip
        BY <1>4, <2>1, ConfigAssumption DEF ReadLogs
    <2> QED BY <1>4, <2>1 DEF ReadLogs
<1>5. CASE InsertEvent(p)
    <2>1. PICK e \in Events :
              /\ got[p][e] # 0
              /\ storedAt' = [storedAt EXCEPT ![e] = IF @ = 0 THEN got[p][e] ELSE @]
              /\ got' = [got EXCEPT ![p][e] = 0]
        BY <1>5 DEF InsertEvent
    <2> QED BY <1>5, <2>1 DEF InsertEvent
<1>6. CASE CommitCursor(p) BY <1>6 DEF CommitCursor
<1>7. CASE Crash(p) BY <1>7 DEF Crash, Nowhere
<1> QED BY <1>2, <1>3, <1>4, <1>5, <1>6, <1>7 DEF PollStep

\* As long as reorganisations do not reach deeper than the confirmations, a
\* row of identity_events names the block its event is in, whatever polls
\* overlap or die.
THEOREM RowsAreFinal ==
    ASSUME MaxReorg <= Confirmations
    PROVE  Spec => []StoredIsFinal
<1>1. Init => FinalInv
    BY DEF Init, FinalInv, Nowhere
<1>2. TypeOK /\ FinalInv /\ [Next]_vars => FinalInv'
    <2> SUFFICES ASSUME TypeOK, FinalInv, [Next]_vars PROVE FinalInv'
        OBVIOUS
    <2>1. CASE UNCHANGED vars
        BY <2>1 DEF vars, chainVars, dbVars, FinalInv, FinalAt, ToIsConfirmed
    <2> QED BY <2>1, ChainStepFinal, PollStepFinal DEF Next
<1>3. FinalInv => StoredIsFinal
    BY DEF FinalInv, FinalAt, StoredIsFinal
<1> QED BY <1>1, <1>2, <1>3, PollTypesCorrect, PTL DEF Spec
=============================================================================
