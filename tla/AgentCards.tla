------------------------------ MODULE AgentCards ------------------------------
(***************************************************************************)
(* fetchAndScoreIdentities (watchtower-core/src/identity): for each agent  *)
(* of the registry, fetches the card at the location that its latest event *)
(* names, keeps the card in identity_snapshots and derives the identity    *)
(* signals.  Every run (wt id:fetch) is a process of its own and may die   *)
(* between any two steps; the poller inserts events meanwhile.             *)
(*                                                                         *)
(* Servers and resolvers may answer anything, late, or never.  The time in *)
(* which a fetch is aborted is short against the seconds of the database,  *)
(* so that its timer may fire at any await.  UNREACHABLE stands for        *)
(* TIMEOUT and SSRF_BLOCKED too, which give the same signal; rows without  *)
(* a card, which nothing but the show command reads, are left out; and     *)
(* what the signals do to the risk store is the subject of RiskStore.      *)
(***************************************************************************)
EXTENDS Integers, FiniteSets

CONSTANTS
    Runs,          \* concurrent runs of wt id:fetch
    Agents,        \* token ids
    Events,        \* registration events, by (txHash, logIndex)
    Agent, Uri, Block, \* of each event: agent_token_id, agent_uri, block_number
    Fetchable,     \* locations that are URLs of a scheme that is let through
    Cards,         \* valid cards, by hash
    MaxRedirects, ChurnWindow, ChurnThreshold, NewbornAge, \* IdentityConfig
    MaxTime,       \* bound: the last second
    MaxStarts      \* bound: runs over all

ASSUME CardsAssumption ==
    /\ Events # {}
    /\ Agent \in [Events -> Agents]
    /\ Block \in [Events -> Nat]
    /\ DOMAIN Uri = Events
    /\ IsFiniteSet(Cards)
    /\ {ChurnWindow, ChurnThreshold, NewbornAge} \subseteq Nat \ {0}
    /\ {MaxRedirects, MaxTime, MaxStarts} \subseteq Nat

VARIABLES
    now,          \* the clock
    discoveredAt, \* identity_events.discovered_at, Never without a row
    fetchedAt,    \* identity_snapshots.fetched_at, by agent, location and card
    knownSince,   \* when each event was first inserted
    seen,         \* <<agent, card, observedAt>> of every card that was received
    started,      \* runs so far
    pc,           \* per run: the await or the statement it stands at
    left,         \* per run: tokenIds still to do
    agent,        \* per run: tokenId, the one it is at
    uri,          \* per run: agentUri
    observedAt,   \* per run: observedAt
    hops,         \* per run: redirectCount
    timer,        \* per run: the timer of the fetch: "off", "on" or "fired"
    result,       \* per run: fetchResult
    signals       \* per run: signals of the current agent

dbVars == <<discoveredAt, fetchedAt>>
histVars == <<knownSince, seen>>
fetchVars == <<agent, uri, observedAt, hops, timer, result>>
runVars == <<started, pc, left, fetchVars, signals>>
vars == <<now, dbVars, histVars, runVars>>

Never == -1
Uris == {Uri[e] : e \in Events}
AnyUri == CHOOSE u \in Uris : TRUE
AnyAgent == CHOOSE a \in Agents : TRUE
NoResult == [status |-> "none"]
Results == [status : {"none", "UNREACHABLE", "INVALID_SCHEMA"}] \cup [status : {"OK"}, cardHash : Cards]
SignalIds == {"ID_NEWBORN", "ID_CARD_UNREACHABLE", "ID_CARD_SCHEMA_INVALID", "ID_CARD_CHURN"}
PCs == {"idle", "next", "resolve", "reply", "lookup", "body", "row", "derive"}

Init ==
    /\ now = 0
    /\ discoveredAt = [e \in Events |-> Never]
    /\ fetchedAt = [a \in Agents |-> [u \in Uris |-> [c \in Cards |-> Never]]]
    /\ knownSince = [e \in Events |-> Never]
    /\ seen = {}
    /\ started = 0
    /\ pc = [r \in Runs |-> "idle"]
    /\ left = [r \in Runs |-> {}]
    /\ agent = [r \in Runs |-> AnyAgent]
    /\ uri = [r \in Runs |-> AnyUri]
    /\ observedAt = [r \in Runs |-> 0]
    /\ hops = [r \in Runs |-> 0]
    /\ timer = [r \in Runs |-> "off"]
    /\ result = [r \in Runs |-> NoResult]
    /\ signals = [r \in Runs |-> {}]

-----------------------------------------------------------------------------
(* The clock and the poller. *)

Tick ==
    /\ now < MaxTime
    /\ now' = now + 1
    /\ UNCHANGED <<dbVars, histVars, runVars>>

\* Faulty: a poll that finds an event again replaces its row.
InsertIdentityEventAgain(e) ==
    /\ discoveredAt' = [discoveredAt EXCEPT ![e] = now]
    /\ knownSince' = IF knownSince[e] = Never THEN [knownSince EXCEPT ![e] = now] ELSE knownSince
    /\ UNCHANGED <<now, fetchedAt, seen, runVars>>

\* Polls overlap, so the poller inserts an event many times: only the first counts.
InsertIdentityEvent(e) ==
    /\ discoveredAt[e] = Never
    /\ discoveredAt' = [discoveredAt EXCEPT ![e] = now]
    /\ knownSince' = IF knownSince[e] = Never THEN [knownSince EXCEPT ![e] = now] ELSE knownSince
    /\ UNCHANGED <<now, fetchedAt, seen, runVars>>

-----------------------------------------------------------------------------
(* Queries. *)

EventsOf(a) == {e \in Events : Agent[e] = a /\ discoveredAt[e] # Never}

\* Of events in one block, any.
LatestEvents(a) == {e \in EventsOf(a) : \A f \in EventsOf(a) : Block[f] <= Block[e]}

GetDistinctAgentTokenIds == {Agent[e] : e \in {e \in Events : discoveredAt[e] # Never}}

GetDistinctCardHashes(a, since) ==
    {c \in Cards : \E u \in Uris : fetchedAt[a][u][c] # Never /\ fetchedAt[a][u][c] >= since}

-----------------------------------------------------------------------------
(* fetchAgentCard. *)

At(r, here, there) == pc[r] = here /\ pc' = [pc EXCEPT ![r] = there]

\* The fetch of run r is over, and its timer cleared.
Return(r, res) ==
    /\ result' = [result EXCEPT ![r] = res]
    /\ timer' = [timer EXCEPT ![r] = "off"]
    /\ hops' = [hops EXCEPT ![r] = 0]
    /\ pc' = [pc EXCEPT ![r] = "row"]
    /\ UNCHANGED <<left, agent, uri, observedAt, signals>>

Fail(r) == Return(r, [status |-> "UNREACHABLE"])

World == UNCHANGED <<now, dbVars, histVars, started>>

\* checkDns of the location; only then is the timer set.
Resolve(r) ==
    /\ pc[r] = "resolve"
    /\ \/ Fail(r)
       \/ /\ pc' = [pc EXCEPT ![r] = "reply"]
          /\ timer' = [timer EXCEPT ![r] = "on"]
          /\ UNCHANGED <<left, agent, uri, observedAt, hops, result, signals>>
    /\ World

\* doFetch has the headers: an error or a redirect that is not followed, a
\* body, or a redirect that is.
Reply(r) ==
    /\ pc[r] = "reply"
    /\ \/ Fail(r)
       \/ /\ pc' = [pc EXCEPT ![r] = "body"]
          /\ UNCHANGED <<left, fetchVars, signals>>
       \/ /\ hops[r] < MaxRedirects
          /\ hops' = [hops EXCEPT ![r] = @ + 1]
          /\ pc' = [pc EXCEPT ![r] = "lookup"]
          /\ UNCHANGED <<left, agent, uri, observedAt, timer, result, signals>>
    /\ World

\* checkDns of a redirect, which the abort does not end; the request that
\* comes after it fails then.
Lookup(r) ==
    /\ pc[r] = "lookup"
    /\ \/ Fail(r)
       \/ /\ timer[r] = "on"
          /\ pc' = [pc EXCEPT ![r] = "reply"]
          /\ UNCHANGED <<left, fetchVars, signals>>
    /\ World

\* readBodyWithLimit, JSON.parse and the schema.
Body(r) ==
    /\ pc[r] = "body"
    /\ \/ \E c \in Cards : Return(r, [status |-> "OK", cardHash |-> c])
       \/ Fail(r)
       \/ Return(r, [status |-> "INVALID_SCHEMA"])
    /\ World

\* Faulty: the timer is cleared with the headers.
TimerFiresEarlyOnly(r) ==
    /\ timer[r] = "on"
    /\ \/ pc[r] = "reply" /\ Fail(r)
       \/ /\ pc[r] = "lookup"
          /\ timer' = [timer EXCEPT ![r] = "fired"]
          /\ UNCHANGED <<pc, left, agent, uri, observedAt, hops, result, signals>>
    /\ World

\* controller.abort ends the request or the reading of the body that is awaited.
TimerFires(r) ==
    /\ timer[r] = "on"
    /\ \/ pc[r] \in {"reply", "body"} /\ Fail(r)
       \/ /\ pc[r] = "lookup"
          /\ timer' = [timer EXCEPT ![r] = "fired"]
          /\ UNCHANGED <<pc, left, agent, uri, observedAt, hops, result, signals>>
    /\ World

-----------------------------------------------------------------------------
(* One run. *)

\* The run starts with every agent known by now, or with the one it is given.
Start(r) ==
    /\ started < MaxStarts
    /\ started' = started + 1
    /\ At(r, "idle", "next")
    /\ \E todo \in {GetDistinctAgentTokenIds} \cup {{a} : a \in Agents} :
            left' = [left EXCEPT ![r] = todo]
    /\ UNCHANGED <<fetchVars, signals>>
    /\ UNCHANGED <<now, dbVars, histVars>>

\* What run r has worked with is gone.
End(r) ==
    /\ pc' = [pc EXCEPT ![r] = "idle"]
    /\ left' = [left EXCEPT ![r] = {}]
    /\ agent' = [agent EXCEPT ![r] = AnyAgent]
    /\ uri' = [uri EXCEPT ![r] = AnyUri]
    /\ observedAt' = [observedAt EXCEPT ![r] = 0]
    /\ hops' = [hops EXCEPT ![r] = 0]
    /\ timer' = [timer EXCEPT ![r] = "off"]
    /\ result' = [result EXCEPT ![r] = NoResult]
    /\ signals' = [signals EXCEPT ![r] = {}]

\* Nothing is left, or an agent without an event is passed over.
SkipAgent(r) ==
    /\ pc[r] = "next"
    /\ \/ left[r] = {} /\ End(r)
       \/ /\ \E a \in left[r] : EventsOf(a) = {} /\ left' = [left EXCEPT ![r] = @ \ {a}]
          /\ UNCHANGED <<pc, fetchVars, signals>>
    /\ World

\* The next agent, its latest event, the clock, and the scheme of its location.
NextAgent(r) ==
    /\ pc[r] = "next"
    /\ \E a \in left[r], e \in Events :
        /\ e \in LatestEvents(a)
        /\ left' = [left EXCEPT ![r] = @ \ {a}]
        /\ agent' = [agent EXCEPT ![r] = a]
        /\ uri' = [uri EXCEPT ![r] = Uri[e]]
        /\ pc' = [pc EXCEPT ![r] = IF Uri[e] \in Fetchable THEN "resolve" ELSE "row"]
        /\ result' = [result EXCEPT ![r] =
                        IF Uri[e] \in Fetchable THEN NoResult ELSE [status |-> "UNREACHABLE"]]
    /\ observedAt' = [observedAt EXCEPT ![r] = now]
    /\ signals' = [signals EXCEPT ![r] = {}]
    /\ UNCHANGED <<hops, timer>>
    /\ World

\* Faulty: the row's key leaves the card out, so that a location has one row.
InsertSnapshotPerUri(r) ==
    LET a == agent[r]
        res == result[r]
    IN  /\ At(r, "row", "derive")
        /\ IF res.status # "OK" THEN UNCHANGED <<fetchedAt, seen>>
           ELSE /\ fetchedAt' =
                    IF \E c \in Cards : fetchedAt[a][uri[r]][c] # Never THEN fetchedAt
                    ELSE [fetchedAt EXCEPT ![a][uri[r]][res.cardHash] = observedAt[r]]
                /\ seen' = seen \cup {<<a, res.cardHash, observedAt[r]>>}
        /\ UNCHANGED <<now, discoveredAt, knownSince, started, left, fetchVars, signals>>

\* The key has agent, location, status and card, not the time: a card that
\* comes back keeps the time at which it was first fetched.
InsertIdentitySnapshot(r) ==
    LET a == agent[r]
        res == result[r]
    IN  /\ At(r, "row", "derive")
        /\ IF res.status # "OK" THEN UNCHANGED <<fetchedAt, seen>>
           ELSE /\ fetchedAt' =
                    IF fetchedAt[a][uri[r]][res.cardHash] # Never THEN fetchedAt
                    ELSE [fetchedAt EXCEPT ![a][uri[r]][res.cardHash] = observedAt[r]]
                /\ seen' = seen \cup {<<a, res.cardHash, observedAt[r]>>}
        /\ UNCHANGED <<now, discoveredAt, knownSince, started, left, fetchVars, signals>>

\* discovered_at stands for the time of the registration.
IsNewborn(e, t) == t - discoveredAt[e] < NewbornAge

IdentitySignals(a, e, res, t) ==
    (IF IsNewborn(e, t) THEN {"ID_NEWBORN"} ELSE {})
    \cup (IF res.status = "UNREACHABLE" THEN {"ID_CARD_UNREACHABLE"} ELSE {})
    \cup (IF res.status = "INVALID_SCHEMA" THEN {"ID_CARD_SCHEMA_INVALID"} ELSE {})
    \cup (IF Cardinality(GetDistinctCardHashes(a, t - ChurnWindow)) >= ChurnThreshold
          THEN {"ID_CARD_CHURN"} ELSE {})

\* The latest event is read again: it may be another by now.  The signals go
\* to the risk store, and the agent is done.
DeriveIdentitySignals(r) ==
    /\ At(r, "derive", "next")
    /\ \E e \in LatestEvents(agent[r]) :
          signals' = [signals EXCEPT ![r] =
                        IdentitySignals(agent[r], e, result[r], observedAt[r])]
    /\ result' = [result EXCEPT ![r] = NoResult]
    /\ agent' = [agent EXCEPT ![r] = AnyAgent]
    /\ uri' = [uri EXCEPT ![r] = AnyUri]
    /\ observedAt' = [observedAt EXCEPT ![r] = 0]
    /\ UNCHANGED <<left, hops, timer>>
    /\ World

\* The process dies.
Crash(r) == pc[r] # "idle" /\ End(r) /\ World

\* What goes on whether a server answers or not.
Step(r) ==
    \/ SkipAgent(r) \/ NextAgent(r) \/ Resolve(r) \/ Lookup(r)
    \/ InsertIdentitySnapshot(r) \/ DeriveIdentitySignals(r)

Next ==
    \/ Tick
    \/ \E e \in Events : InsertIdentityEvent(e)
    \/ \E r \in Runs :
        \/ Start(r) \/ Step(r) \/ Reply(r) \/ Body(r) \/ TimerFires(r) \/ Crash(r)

\* A process runs, a resolver gives up in the end and a timer fires; a server
\* need not answer.
Fairness == \A r \in Runs : WF_vars(Step(r) \/ TimerFires(r))

Spec == Init /\ [][Next]_vars /\ Fairness

-----------------------------------------------------------------------------
TypeOK ==
    /\ now \in 0 .. MaxTime
    /\ discoveredAt \in [Events -> Never .. now]
    /\ fetchedAt \in [Agents -> [Uris -> [Cards -> Never .. now]]]
    /\ knownSince \in [Events -> Never .. now]
    /\ seen \subseteq Agents \X Cards \X (0 .. now)
    /\ started \in 0 .. MaxStarts
    /\ pc \in [Runs -> PCs]
    /\ left \in [Runs -> SUBSET Agents]
    /\ agent \in [Runs -> Agents]
    /\ uri \in [Runs -> Uris]
    /\ observedAt \in [Runs -> 0 .. now]
    /\ hops \in [Runs -> 0 .. MaxRedirects]
    /\ timer \in [Runs -> {"off", "on", "fired"}]
    /\ result \in [Runs -> Results]
    /\ signals \in [Runs -> SUBSET SignalIds]

Derives(r) == pc[r] = "derive" /\ pc'[r] = "next"

SeenIn(a, c, times) == \E t \in times : <<a, c, t>> \in seen

\* Churn is real and is caught: a run that signals it has at least
\* churnThreshold cards of the agent that were received within the window,
\* by whatever runs and from whatever locations, and a run before which so
\* many cards have been received within the window, none of them before,
\* does signal it.  (A card that was received before the window too may or
\* may not count.)
ChurnIsReal ==
    [][\A r \in Runs : Derives(r) =>
        LET a == agent[r]
            window == observedAt[r] - ChurnWindow .. now
            recent == {c \in Cards : SeenIn(a, c, window)}
            new == {c \in recent : ~SeenIn(a, c, 0 .. observedAt[r] - ChurnWindow - 1)}
        IN  /\ "ID_CARD_CHURN" \in signals'[r] => Cardinality(recent) >= ChurnThreshold
            /\ Cardinality(new) >= ChurnThreshold => "ID_CARD_CHURN" \in signals'[r]]_vars

\* An agent grows up: however often the poller finds its events again, it is
\* called newborn only while one of them has been known for less than
\* newbornAgeSeconds.
NewbornGrowsUp ==
    [][\A r \in Runs : Derives(r) /\ "ID_NEWBORN" \in signals'[r] =>
        \E e \in Events :
            /\ Agent[e] = agent[r]
            /\ knownSince[e] # Never
            /\ observedAt[r] - knownSince[e] < NewbornAge]_vars

\* No server stops a run: whatever the locations answer, slowly or never,
\* every run comes to its end.
RunsEnd == \A r \in Runs : []<>(pc[r] = "idle")
=============================================================================
