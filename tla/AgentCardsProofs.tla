--------------------------- MODULE AgentCardsProofs ---------------------------
(***************************************************************************)
(* Theorems about AgentCards for every set of runs, agents, events,        *)
(* locations and finite set of cards, and every configuration.             *)
(***************************************************************************)
EXTENDS AgentCards, FiniteSetTheorems, TLAPS

USE DEF Never, PCs

\* What a card row says of the past, and that the clock of an event is the
\* one at which it was found first.
History ==
    /\ \A a \in Agents, u \in Uris, c \in Cards :
          fetchedAt[a][u][c] # Never => <<a, c, fetchedAt[a][u][c]>> \in seen
    /\ \A a \in Agents, c \in Cards, t \in 0 .. now :
          <<a, c, t>> \in seen => \E u \in Uris : fetchedAt[a][u][c] # Never
    /\ discoveredAt = knownSince

Inv == TypeOK /\ History

-----------------------------------------------------------------------------
(* Types. *)

LEMMA Defaults == AnyAgent \in Agents /\ AnyUri \in Uris /\ MaxTime \in Nat
<1>1. PICK e \in Events : TRUE
  BY CardsAssumption
<1>2. Agent[e] \in Agents /\ Uri[e] \in Uris
  BY CardsAssumption, <1>1 DEF Uris
<1> QED
  BY <1>2, CardsAssumption DEF AnyAgent, AnyUri

LEMMA InitTypes == Init => TypeOK
  BY Defaults, CardsAssumption DEF Init, TypeOK, NoResult, Results

\* The variables that only a run changes.
RunTypes ==
    /\ started \in 0 .. MaxStarts
    /\ pc \in [Runs -> PCs]
    /\ left \in [Runs -> SUBSET Agents]
    /\ agent \in [Runs -> Agents]
    /\ uri \in [Runs -> Uris]
    /\ observedAt \in [Runs -> 0 .. now]
    /\ hops \in [Runs -> 0 .. MaxRedirects]
    /\ timer \in [Runs -> {"off", "on", "fired"}]
    /\ result \in [Runs -> Results]
    /\ signals \in [Runs -> SUBSET SignalIds]

LEMMA ReturnTypes ==
    ASSUME TypeOK, NEW r \in Runs, NEW res \in Results, Return(r, res), World
    PROVE  RunTypes'
  BY CardsAssumption DEF TypeOK, RunTypes, Return, World

LEMMA FailTypes == ASSUME TypeOK, NEW r \in Runs, Fail(r), World PROVE RunTypes'
<1>1. [status |-> "UNREACHABLE"] \in Results
  BY DEF Results
<1> QED
  BY <1>1, ReturnTypes DEF Fail

LEMMA EndTypes == ASSUME TypeOK, NEW r \in Runs, End(r), World PROVE RunTypes'
  BY Defaults, CardsAssumption DEF TypeOK, RunTypes, End, World, NoResult, Results

\* The fetch.
LEMMA FetchTypes ==
    ASSUME TypeOK, NEW r \in Runs,
           Resolve(r) \/ Reply(r) \/ Lookup(r) \/ Body(r) \/ TimerFires(r)
    PROVE  RunTypes' /\ World
<1>1. World
  BY DEF Resolve, Reply, Lookup, Body, TimerFires
<1>2. CASE Resolve(r)
  BY <1>1, <1>2, FailTypes DEF Resolve, RunTypes, TypeOK, World
<1>3. CASE Reply(r)
  <2>1. CASE Fail(r)
    BY <1>1, <2>1, FailTypes
  <2>2. CASE /\ pc' = [pc EXCEPT ![r] = "body"]
             /\ UNCHANGED <<left, fetchVars, signals>>
    BY <1>1, <2>2 DEF RunTypes, TypeOK, World, fetchVars
  <2>3. CASE /\ hops[r] < MaxRedirects
             /\ hops' = [hops EXCEPT ![r] = @ + 1]
             /\ pc' = [pc EXCEPT ![r] = "lookup"]
             /\ UNCHANGED <<left, agent, uri, observedAt, timer, result, signals>>
    <3>1. hops[r] + 1 \in 0 .. MaxRedirects
      BY <2>3, CardsAssumption DEF TypeOK
    <3> QED
      BY <1>1, <2>3, <3>1 DEF RunTypes, TypeOK, World
  <2> QED
    BY <1>3, <2>1, <2>2, <2>3 DEF Reply
<1>4. CASE Lookup(r)
  BY <1>1, <1>4, FailTypes DEF Lookup, RunTypes, TypeOK, World, fetchVars
<1>5. CASE Body(r)
  <2>1. ASSUME NEW c \in Cards PROVE [status |-> "OK", cardHash |-> c] \in Results
    BY DEF Results
  <2>2. [status |-> "INVALID_SCHEMA"] \in Results
    BY DEF Results
  <2> QED
    BY <1>1, <1>5, <2>1, <2>2, FailTypes, ReturnTypes DEF Body
<1>6. CASE TimerFires(r)
  BY <1>1, <1>6, FailTypes DEF TimerFires, RunTypes, TypeOK, World
<1> QED
  BY <1>1, <1>2, <1>3, <1>4, <1>5, <1>6

\* What InsertIdentitySnapshot does to the rows and to what is known of the past.
Receives(a, u, c, t) ==
    /\ seen' = seen \cup {<<a, c, t>>}
    /\ \/ fetchedAt[a][u][c] # Never /\ fetchedAt' = fetchedAt
       \/ /\ fetchedAt[a][u][c] = Never
          /\ fetchedAt' = [fetchedAt EXCEPT ![a][u][c] = t]

LEMMA InsertCases ==
    ASSUME TypeOK, NEW r \in Runs, InsertIdentitySnapshot(r)
    PROVE  \/ UNCHANGED <<fetchedAt, seen>>
           \/ \E a \in Agents, u \in Uris, c \in Cards, t \in 0 .. now : Receives(a, u, c, t)
<1>1. agent[r] \in Agents /\ uri[r] \in Uris /\ observedAt[r] \in 0 .. now
  BY DEF TypeOK
<1>2. result[r].status = "OK" => result[r].cardHash \in Cards
  <2>1. result[r] \in Results
    BY DEF TypeOK
  <2> QED
    BY <2>1 DEF Results
<1>3. CASE result[r].status # "OK"
  BY <1>3 DEF InsertIdentitySnapshot
<1>4. CASE result[r].status = "OK"
  <2>1. Receives(agent[r], uri[r], result[r].cardHash, observedAt[r])
    BY <1>4 DEF InsertIdentitySnapshot, Receives
  <2> QED
    BY <1>1, <1>2, <1>4, <2>1
<1> QED
  BY <1>3, <1>4

LEMMA RowTypes ==
    ASSUME TypeOK, NEW a \in Agents, NEW u \in Uris, NEW c \in Cards, NEW t \in 0 .. now,
           Receives(a, u, c, t)
    PROVE  /\ fetchedAt' \in [Agents -> [Uris -> [Cards -> Never .. now]]]
           /\ seen' \subseteq Agents \X Cards \X (0 .. now)
<1>1. /\ fetchedAt \in [Agents -> [Uris -> [Cards -> Never .. now]]]
      /\ seen \subseteq Agents \X Cards \X (0 .. now)
      /\ t \in Never .. now
  BY DEF TypeOK
<1>2. [fetchedAt EXCEPT ![a][u][c] = t] \in [Agents -> [Uris -> [Cards -> Never .. now]]]
  <2> DEFINE T == Never .. now
  <2>1. t \in T /\ fetchedAt \in [Agents -> [Uris -> [Cards -> T]]]
    BY <1>1
  <2> HIDE DEF T
  <2>2. [fetchedAt EXCEPT ![a][u][c] = t] \in [Agents -> [Uris -> [Cards -> T]]]
    BY <2>1
  <2> QED
    BY <2>2 DEF T
<1>3. fetchedAt' \in [Agents -> [Uris -> [Cards -> Never .. now]]]
  <2>1. fetchedAt' = fetchedAt \/ fetchedAt' = [fetchedAt EXCEPT ![a][u][c] = t]
    BY DEF Receives
  <2> QED
    BY <1>1, <1>2, <2>1, Zenon
<1>4. <<a, c, t>> \in Agents \X Cards \X (0 .. now)
  OBVIOUS
<1>5. seen' \subseteq Agents \X Cards \X (0 .. now)
  BY <1>1, <1>4, Zenon DEF Receives
<1> QED
  BY <1>3, <1>5

\* A row that is inserted is about an agent, a card and a time.
LEMMA InsertTypes ==
    ASSUME TypeOK, NEW r \in Runs, InsertIdentitySnapshot(r)
    PROVE  TypeOK'
<1>1. RunTypes'
  BY DEF InsertIdentitySnapshot, At, RunTypes, TypeOK, fetchVars
<1>2. /\ fetchedAt' \in [Agents -> [Uris -> [Cards -> Never .. now]]]
      /\ seen' \subseteq Agents \X Cards \X (0 .. now)
  BY InsertCases, RowTypes DEF TypeOK
<1> QED
  BY <1>1, <1>2 DEF InsertIdentitySnapshot, TypeOK, RunTypes

\* Statements that only a run changes something by.
LEMMA RunStepTypes ==
    ASSUME TypeOK, NEW r \in Runs,
           SkipAgent(r) \/ NextAgent(r) \/ DeriveIdentitySignals(r) \/ Crash(r)
    PROVE  RunTypes' /\ World
<1>1. World
  BY DEF SkipAgent, NextAgent, DeriveIdentitySignals, Crash
<1>2. CASE SkipAgent(r)
  BY <1>1, <1>2, EndTypes DEF SkipAgent, RunTypes, TypeOK, World, fetchVars
<1>3. CASE NextAgent(r)
  <2>1. NoResult \in Results /\ [status |-> "UNREACHABLE"] \in Results
    BY DEF Results, NoResult
  <2>2. \A e \in Events : Uri[e] \in Uris
    BY DEF Uris
  <2>3. now \in 0 .. now
    BY Defaults DEF TypeOK
  <2> QED
    BY <1>1, <1>3, <2>1, <2>2, <2>3 DEF NextAgent, RunTypes, TypeOK, World
<1>4. CASE DeriveIdentitySignals(r)
  <2>1. NoResult \in Results
    BY DEF Results, NoResult
  <2>2. \A a, e, res, t : IdentitySignals(a, e, res, t) \subseteq SignalIds
    BY DEF IdentitySignals, SignalIds
  <2>3. 0 \in 0 .. now
    BY Defaults DEF TypeOK
  <2> QED
    BY <1>1, <1>4, <2>1, <2>2, <2>3, Defaults
    DEF DeriveIdentitySignals, At, RunTypes, TypeOK, World
<1>5. CASE Crash(r)
  BY <1>1, <1>5, EndTypes DEF Crash
<1> QED
  BY <1>1, <1>2, <1>3, <1>4, <1>5

LEMMA StepTypes == TypeOK /\ [Next]_vars => TypeOK'
<1> SUFFICES ASSUME TypeOK, [Next]_vars PROVE TypeOK'
  OBVIOUS
<1>1. CASE Tick
  <2>1. now \in Int /\ now' = now + 1 /\ now' \in 0 .. MaxTime
    BY <1>1, Defaults DEF Tick, TypeOK
  <2>2. \A x : x \in 0 .. now => x \in 0 .. now'
    BY <2>1
  <2>3. \A x : x \in Never .. now => x \in Never .. now'
    BY <2>1
  <2>4. fetchedAt \in [Agents -> [Uris -> [Cards -> Never .. now']]]
    <3> DEFINE T == Never .. now
               U == Never .. now'
    <3>1. T \subseteq U /\ fetchedAt \in [Agents -> [Uris -> [Cards -> T]]]
      BY <2>3 DEF TypeOK
    <3> HIDE DEF T, U
    <3>2. [Cards -> T] \subseteq [Cards -> U]
      BY <3>1
    <3>3. [Uris -> [Cards -> T]] \subseteq [Uris -> [Cards -> U]]
      BY <3>2
    <3>4. fetchedAt \in [Agents -> [Uris -> [Cards -> U]]]
      BY <3>1, <3>3
    <3> QED
      BY <3>4 DEF U
  <2>5. seen \subseteq Agents \X Cards \X (0 .. now')
    BY <2>2 DEF TypeOK
  <2>6. /\ discoveredAt \in [Events -> Never .. now'] /\ knownSince \in [Events -> Never .. now']
        /\ observedAt \in [Runs -> 0 .. now']
    BY <2>2, <2>3 DEF TypeOK
  <2> QED
    BY <1>1, <2>1, <2>4, <2>5, <2>6
    DEF Tick, TypeOK, dbVars, histVars, runVars, fetchVars
<1>2. ASSUME NEW e \in Events, InsertIdentityEvent(e) PROVE TypeOK'
  <2>1. now \in Never .. now
    BY Defaults DEF TypeOK
  <2> QED
    BY <1>2, <2>1 DEF InsertIdentityEvent, TypeOK, runVars, fetchVars
<1>3. ASSUME NEW r \in Runs, Start(r) PROVE TypeOK'
  <2>1. GetDistinctAgentTokenIds \subseteq Agents
    BY CardsAssumption DEF GetDistinctAgentTokenIds
  <2>2. started' \in 0 .. MaxStarts
    BY <1>3, CardsAssumption DEF Start, TypeOK
  <2> QED
    BY <1>3, <2>1, <2>2 DEF Start, At, TypeOK, dbVars, histVars, fetchVars
<1>4. ASSUME NEW r \in Runs, RunTypes', World PROVE TypeOK'
  BY <1>4 DEF RunTypes, World, TypeOK, dbVars, histVars
<1>5. ASSUME NEW r \in Runs, Step(r) \/ Reply(r) \/ Body(r) \/ TimerFires(r) \/ Crash(r)
      PROVE  TypeOK'
  BY <1>4, <1>5, FetchTypes, RunStepTypes, InsertTypes DEF Step
<1>6. CASE UNCHANGED vars
  BY <1>6 DEF vars, TypeOK, dbVars, histVars, runVars, fetchVars
<1> QED
  BY <1>1, <1>2, <1>3, <1>5, <1>6 DEF Next

\* Every variable keeps its type: redirects stay within maxRedirects, and no
\* time in the database is ahead of the clock.
THEOREM TypeCorrect == Spec => []TypeOK
  BY InitTypes, StepTypes, PTL DEF Spec

-----------------------------------------------------------------------------
(* What the rows say of the past. *)

LEMMA InitHistory == Init => History
<1> SUFFICES ASSUME Init PROVE History
  OBVIOUS
<1>1. \A a \in Agents, u \in Uris, c \in Cards : fetchedAt[a][u][c] = Never
  BY DEF Init
<1> QED
  BY <1>1 DEF Init, History

LEMMA ReceivesHistory ==
    ASSUME Inv, NEW a \in Agents, NEW u \in Uris, NEW c \in Cards, NEW t \in 0 .. now,
           Receives(a, u, c, t), UNCHANGED <<now, discoveredAt, knownSince>>
    PROVE  History'
<1>1. fetchedAt \in [Agents -> [Uris -> [Cards -> Never .. now]]]
  BY DEF Inv, TypeOK
<1>2. CASE fetchedAt[a][u][c] # Never /\ fetchedAt' = fetchedAt
  <2>1. \A b \in Agents, v \in Uris, d \in Cards :
            fetchedAt'[b][v][d] # Never => <<b, d, fetchedAt'[b][v][d]>> \in seen'
    BY <1>2 DEF Inv, History, Receives
  <2>2. \A b \in Agents, d \in Cards, x \in 0 .. now :
            <<b, d, x>> \in seen' => \E v \in Uris : fetchedAt'[b][v][d] # Never
    BY <1>2 DEF Inv, History, Receives
  <2> QED
    BY <2>1, <2>2 DEF Inv, History
<1>3. CASE /\ fetchedAt[a][u][c] = Never
           /\ fetchedAt' = [fetchedAt EXCEPT ![a][u][c] = t]
  <2>1. \A b \in Agents, v \in Uris, d \in Cards :
            fetchedAt'[b][v][d] = IF b = a /\ v = u /\ d = c THEN t ELSE fetchedAt[b][v][d]
    BY <1>1, <1>3
  <2>2. \A b \in Agents, v \in Uris, d \in Cards :
            fetchedAt'[b][v][d] # Never => <<b, d, fetchedAt'[b][v][d]>> \in seen'
    BY <2>1 DEF Inv, History, Receives
  <2>3. t # Never
    BY Defaults DEF Inv, TypeOK
  <2>4. \A b \in Agents, d \in Cards, x \in 0 .. now :
            <<b, d, x>> \in seen' => \E v \in Uris : fetchedAt'[b][v][d] # Never
    BY <2>1, <2>3 DEF Inv, History, Receives
  <2> QED
    BY <2>2, <2>4 DEF Inv, History
<1> QED
  BY <1>2, <1>3 DEF Receives

LEMMA StepHistory == Inv /\ [Next]_vars => History'
<1> SUFFICES ASSUME Inv, [Next]_vars PROVE History'
  OBVIOUS
<1>1. ASSUME UNCHANGED <<fetchedAt, seen, discoveredAt, knownSince>> PROVE History'
  <2>1. seen \subseteq Agents \X Cards \X (0 .. now)
    BY DEF Inv, TypeOK
  <2>2. \A a \in Agents, c \in Cards, t \in 0 .. now' :
            <<a, c, t>> \in seen => \E u \in Uris : fetchedAt[a][u][c] # Never
    BY <2>1 DEF Inv, History
  <2> QED
    BY <1>1, <2>2 DEF Inv, History
<1>2. CASE Tick
  BY <1>1, <1>2 DEF Tick, dbVars, histVars
<1>3. ASSUME NEW e \in Events, InsertIdentityEvent(e) PROVE History'
  BY <1>3 DEF InsertIdentityEvent, Inv, History
<1>4. ASSUME NEW r \in Runs, Start(r) PROVE History'
  BY <1>1, <1>4 DEF Start, dbVars, histVars
<1>5. ASSUME NEW r \in Runs, World PROVE History'
  BY <1>1, <1>5 DEF World, dbVars, histVars
<1>6. ASSUME NEW r \in Runs, InsertIdentitySnapshot(r) PROVE History'
  <2>1. UNCHANGED <<now, discoveredAt, knownSince>>
    BY <1>6 DEF InsertIdentitySnapshot
  <2> QED
    BY <1>1, <1>6, <2>1, InsertCases, ReceivesHistory DEF Inv
<1>7. ASSUME NEW r \in Runs, Step(r) \/ Reply(r) \/ Body(r) \/ TimerFires(r) \/ Crash(r)
      PROVE  History'
  BY <1>5, <1>6, <1>7, FetchTypes, RunStepTypes DEF Step, Inv
<1>8. CASE UNCHANGED vars
  BY <1>1, <1>8 DEF vars, dbVars, histVars
<1> QED
  BY <1>2, <1>3, <1>4, <1>7, <1>8 DEF Next

LEMMA Invariant == Spec => []Inv
<1>1. Init => Inv
  BY InitTypes, InitHistory DEF Inv
<1>2. Inv /\ [Next]_vars => Inv'
  BY StepTypes, StepHistory DEF Inv
<1> QED
  BY <1>1, <1>2, PTL DEF Spec

-----------------------------------------------------------------------------
(* The signals. *)

\* Only the derivation of the signals ends in the way Derives says.
LEMMA DerivesDerives ==
    ASSUME Inv, [Next]_vars, NEW r \in Runs, Derives(r)
    PROVE  DeriveIdentitySignals(r)
<1>1. pc[r] = "derive" /\ pc'[r] = "next" /\ pc \in [Runs -> PCs]
  BY DEF Derives, Inv, TypeOK
<1>2. ~(Tick \/ (\E e \in Events : InsertIdentityEvent(e)) \/ UNCHANGED vars)
  BY <1>1 DEF Tick, InsertIdentityEvent, vars, runVars
<1>3. ASSUME NEW q \in Runs, pc' = [pc EXCEPT ![q] = pc'[q]] PROVE q = r
  BY <1>1, <1>3
<1>4. ASSUME NEW q \in Runs, Start(q) PROVE FALSE
  BY <1>1, <1>4 DEF Start, At
<1>5. ASSUME NEW q \in Runs, SkipAgent(q) \/ NextAgent(q) \/ Crash(q) PROVE FALSE
  BY <1>1, <1>5 DEF SkipAgent, NextAgent, Crash, End
<1>6. ASSUME NEW q \in Runs, InsertIdentitySnapshot(q) PROVE FALSE
  BY <1>1, <1>6 DEF InsertIdentitySnapshot, At
<1>7. ASSUME NEW q \in Runs, Resolve(q) \/ Reply(q) \/ Lookup(q) \/ Body(q) \/ TimerFires(q)
      PROVE  FALSE
  BY <1>1, <1>7 DEF Resolve, Reply, Lookup, Body, TimerFires, Fail, Return
<1>8. ASSUME NEW q \in Runs, DeriveIdentitySignals(q) PROVE DeriveIdentitySignals(r)
  BY <1>1, <1>8 DEF DeriveIdentitySignals, At
<1> QED
  BY <1>2, <1>4, <1>5, <1>6, <1>7, <1>8 DEF Next, Step

\* The cards that count for churn lie between those that are new in the
\* window and those that were received in it.
LEMMA CountedCards ==
    ASSUME Inv, NEW a \in Agents, NEW t \in 0 .. now
    PROVE  LET recent == {c \in Cards : SeenIn(a, c, t - ChurnWindow .. now)}
               new == {c \in recent : ~SeenIn(a, c, 0 .. t - ChurnWindow - 1)}
               hashes == GetDistinctCardHashes(a, t - ChurnWindow)
           IN  /\ Cardinality(hashes) <= Cardinality(recent)
               /\ Cardinality(new) <= Cardinality(hashes)
               /\ {Cardinality(new), Cardinality(hashes), Cardinality(recent)} \subseteq Nat
<1> DEFINE since == t - ChurnWindow
           recent == {c \in Cards : SeenIn(a, c, since .. now)}
           new == {c \in recent : ~SeenIn(a, c, 0 .. since - 1)}
           hashes == GetDistinctCardHashes(a, since)
<1>1. since \in Int /\ now \in Nat
  BY CardsAssumption DEF Inv, TypeOK
<1>2. \A u \in Uris, c \in Cards : fetchedAt[a][u][c] \in Never .. now
  BY DEF Inv, TypeOK
<1> HIDE DEF since
<1>3. hashes \subseteq recent
  <2> SUFFICES ASSUME NEW c \in hashes PROVE c \in recent
    OBVIOUS
  <2>1. PICK u \in Uris : c \in Cards /\ fetchedAt[a][u][c] # Never /\ fetchedAt[a][u][c] >= since
    BY DEF GetDistinctCardHashes
  <2>2. fetchedAt[a][u][c] \in since .. now /\ <<a, c, fetchedAt[a][u][c]>> \in seen
    BY <1>1, <1>2, <2>1 DEF Inv, History
  <2> QED
    BY <2>1, <2>2 DEF SeenIn
<1>4. new \subseteq hashes
  <2> SUFFICES ASSUME NEW c \in new PROVE c \in hashes
    OBVIOUS
  <2>1. PICK s \in since .. now : <<a, c, s>> \in seen
    BY DEF SeenIn
  <2>2. s \in 0 .. now /\ c \in Cards
    BY <2>1 DEF Inv, TypeOK
  <2>3. PICK u \in Uris : fetchedAt[a][u][c] # Never
    BY <2>1, <2>2 DEF Inv, History
  <2>4. fetchedAt[a][u][c] \in 0 .. now /\ <<a, c, fetchedAt[a][u][c]>> \in seen
    BY <1>1, <1>2, <2>2, <2>3 DEF Inv, History
  <2>5. fetchedAt[a][u][c] \notin 0 .. since - 1
    BY <2>4 DEF SeenIn
  <2>6. fetchedAt[a][u][c] >= since
    BY <1>1, <2>4, <2>5
  <2> QED
    BY <2>2, <2>3, <2>6 DEF GetDistinctCardHashes
<1>5. IsFiniteSet(recent) /\ IsFiniteSet(hashes)
  <2>1. recent \subseteq Cards /\ hashes \subseteq Cards
    BY DEF GetDistinctCardHashes
  <2> QED
    BY <2>1, CardsAssumption, FS_Subset
<1> HIDE DEF recent, new, hashes
<1>6. /\ Cardinality(hashes) <= Cardinality(recent)
      /\ Cardinality(new) <= Cardinality(hashes)
      /\ {Cardinality(new), Cardinality(hashes), Cardinality(recent)} \subseteq Nat
  BY <1>3, <1>4, <1>5, FS_Subset, FS_CardinalityType
<1> QED
  BY <1>6 DEF recent, new, hashes, since

\* deriveIdentitySignals signals ID_CARD_CHURN for cards that were really
\* received within the window, and for any churnThreshold cards that are new
\* in it.
THEOREM ChurnStandsForCards == Spec => ChurnIsReal
<1>1. ASSUME Inv, [Next]_vars, NEW r \in Runs, Derives(r)
      PROVE  LET a == agent[r]
                 window == observedAt[r] - ChurnWindow .. now
                 recent == {c \in Cards : SeenIn(a, c, window)}
                 new == {c \in recent : ~SeenIn(a, c, 0 .. observedAt[r] - ChurnWindow - 1)}
             IN  /\ "ID_CARD_CHURN" \in signals'[r] => Cardinality(recent) >= ChurnThreshold
                 /\ Cardinality(new) >= ChurnThreshold => "ID_CARD_CHURN" \in signals'[r]
  <2> DEFINE a == agent[r]
             t == observedAt[r]
             recent == {c \in Cards : SeenIn(a, c, t - ChurnWindow .. now)}
             new == {c \in recent : ~SeenIn(a, c, 0 .. t - ChurnWindow - 1)}
             hashes == GetDistinctCardHashes(a, t - ChurnWindow)
  <2>1. a \in Agents /\ t \in 0 .. now /\ signals \in [Runs -> SUBSET SignalIds]
    BY <1>1 DEF Inv, TypeOK
  <2>2. DeriveIdentitySignals(r)
    BY <1>1, DerivesDerives
  <2>3. "ID_CARD_CHURN" \in signals'[r] <=> Cardinality(hashes) >= ChurnThreshold
    BY <2>1, <2>2 DEF DeriveIdentitySignals, IdentitySignals
  <2> HIDE DEF a, t
  <2>4. /\ Cardinality(hashes) <= Cardinality(recent)
        /\ Cardinality(new) <= Cardinality(hashes)
        /\ {Cardinality(new), Cardinality(hashes), Cardinality(recent)} \subseteq Nat
    BY <1>1, <2>1, CountedCards
  <2> HIDE DEF recent, new, hashes
  <2>5. /\ "ID_CARD_CHURN" \in signals'[r] => Cardinality(recent) >= ChurnThreshold
        /\ Cardinality(new) >= ChurnThreshold => "ID_CARD_CHURN" \in signals'[r]
    BY <2>3, <2>4, CardsAssumption
  <2> QED
    BY <2>5 DEF recent, new, a, t
<1>2. Inv /\ [Next]_vars =>
        [\A r \in Runs : Derives(r) =>
            LET a == agent[r]
                window == observedAt[r] - ChurnWindow .. now
                recent == {c \in Cards : SeenIn(a, c, window)}
                new == {c \in recent : ~SeenIn(a, c, 0 .. observedAt[r] - ChurnWindow - 1)}
            IN  /\ "ID_CARD_CHURN" \in signals'[r] => Cardinality(recent) >= ChurnThreshold
                /\ Cardinality(new) >= ChurnThreshold => "ID_CARD_CHURN" \in signals'[r]]_vars
  BY <1>1
<1> QED
  BY <1>2, Invariant, PTL DEF Spec, ChurnIsReal

\* insertIdentityEvent keeps the time at which an event was found first, so
\* that ID_NEWBORN ends newbornAgeSeconds after the last new event of an agent.
THEOREM NewbornEnds == Spec => NewbornGrowsUp
<1>1. ASSUME Inv, [Next]_vars, NEW r \in Runs, Derives(r), "ID_NEWBORN" \in signals'[r]
      PROVE  \E e \in Events :
                /\ Agent[e] = agent[r]
                /\ knownSince[e] # Never
                /\ observedAt[r] - knownSince[e] < NewbornAge
  <2>1. DeriveIdentitySignals(r)
    BY <1>1, DerivesDerives
  <2>2. PICK e \in LatestEvents(agent[r]) :
            signals' = [signals EXCEPT ![r] =
                          IdentitySignals(agent[r], e, result[r], observedAt[r])]
    BY <2>1 DEF DeriveIdentitySignals
  <2>3. "ID_NEWBORN" \in IdentitySignals(agent[r], e, result[r], observedAt[r])
    BY <1>1, <2>2 DEF Inv, TypeOK
  <2>4. IsNewborn(e, observedAt[r])
    BY <2>3 DEF IdentitySignals
  <2>5. e \in Events /\ Agent[e] = agent[r] /\ discoveredAt[e] # Never
    BY DEF LatestEvents, EventsOf
  <2> QED
    BY <1>1, <2>4, <2>5 DEF IsNewborn, Inv, History
<1>2. Inv /\ [Next]_vars =>
        [\A r \in Runs : Derives(r) /\ "ID_NEWBORN" \in signals'[r] =>
            \E e \in Events :
                /\ Agent[e] = agent[r]
                /\ knownSince[e] # Never
                /\ observedAt[r] - knownSince[e] < NewbornAge]_vars
  BY <1>1
<1> QED
  BY <1>2, Invariant, PTL DEF Spec, NewbornGrowsUp
=============================================================================
