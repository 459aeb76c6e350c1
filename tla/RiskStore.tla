------------------------------ MODULE RiskStore ------------------------------
(***************************************************************************)
(* What is kept of one agent in the SQLite database of watchtower-core:    *)
(* its snapshots, risk reports and alerts.  Every row has a hash of its    *)
(* content for a key and is inserted with INSERT OR IGNORE, so a row that  *)
(* exists is kept as it is.                                                *)
(*                                                                         *)
(* A run is a process that ingests an observation (ingestReceipt,          *)
(* fetchAndScoreIdentities, syncAndScoreContext) or scores what is there   *)
(* (score-agent); runs share the database, each statement commits by       *)
(* itself, and a run may die between two of them.                          *)
(*                                                                         *)
(* A signal is the number that gives the place of its evidence among       *)
(* sorted evidence links; it carries one such link.                        *)
(***************************************************************************)
EXTENDS Integers, Sequences, FiniteSets, FiniteSetsExt

CONSTANTS
    Runs,          \* slots for processes
    Signals,       \* signals that can be observed, without their time
    Critical,      \* those of severity CRITICAL
    Points,        \* severity points times weight, per signal
    Observations,  \* sets of signals that one observation can yield
    Keep,          \* snapshots that are scored, the default of getLatestSnapshots
    Confident,     \* signals that confidence HIGH asks for
    HighRisk,      \* risk from which an alert is raised without a critical signal
    AlertRefs,     \* evidence references that identify an alert
    MaxTime,       \* bound: the clock, in seconds
    MaxRows        \* bound: snapshots

ASSUME StoreAssumption ==
    /\ IsFiniteSet(Runs)
    /\ Signals \subseteq Int
    /\ Critical \subseteq Signals
    /\ Points \in [Signals -> Nat]
    /\ Observations \subseteq SUBSET Signals
    /\ Keep \in Nat \ {0}
    /\ {Confident, HighRisk, AlertRefs} \subseteq Nat
    /\ {MaxTime, MaxRows} \subseteq Nat

VARIABLES
    now,         \* Date.now() in seconds
    rows,        \* table snapshots, in the order of insertion
    reports,     \* table risk_reports
    alerts,      \* ids of table alerts
    pc,          \* per run: the statement it comes to next
    observed,    \* per run: the snapshots it will insert, one or none
    assessment,  \* per run: the report it has computed, without its time
    readAt,      \* per run: time at which it has read the snapshots
    unscored     \* history: snapshots may have changed since the last
                 \* scoring that came to its end

tables == <<rows, reports, alerts>>
runVars == <<pc, observed, assessment, readAt>>
vars == <<now, tables, runVars, unscored>>

PCs == {"idle", "dead", "store", "read", "report", "alerts"}
AlertTypes == {"CRITICAL_SIGNAL_DETECTED", "HIGH_RISK_SCORE"}
Sources == {"lens", "file"}
Row == [signals : SUBSET Signals, at : Nat, by : Sources]
Assessments == [signals : [Signals -> Nat], confident : BOOLEAN]

Nothing == [signals |-> [s \in Signals |-> 0], confident |-> FALSE]

Init ==
    /\ now = 1
    /\ rows = <<>> /\ reports = {} /\ alerts = {}
    /\ pc = [p \in Runs |-> "idle"]
    /\ observed = [p \in Runs |-> {}]
    /\ assessment = [p \in Runs |-> Nothing]
    /\ readAt = [p \in Runs |-> 0]
    /\ unscored = FALSE

-----------------------------------------------------------------------------
(* Keys and queries of the tables. *)

Stored == {rows[i] : i \in DOMAIN rows}

\* snapshot_id: the pipelines hash agent and signals, which carry their
\* time of observation; add-snapshot hashes the time of the call as well.
SnapshotId(row) == IF row.by = "lens" /\ row.signals = {} THEN [row EXCEPT !.at = 0] ELSE row

IsStored(row) == \E other \in Stored : SnapshotId(other) = SnapshotId(row)

\* ORDER BY observed_at DESC, by way of the index: equal times in the order
\* of insertion.
Before(i, j) == rows[i].at > rows[j].at \/ (rows[i].at = rows[j].at /\ i < j)

LatestSnapshots == {j \in DOMAIN rows : Cardinality({i \in DOMAIN rows : Before(i, j)}) < Keep}

-----------------------------------------------------------------------------
(* scoreAgent. *)

Total(n) == MapThenSumSet(LAMBDA s : n[s], Signals)

\* What the report on a set of snapshots says: each signal as often as it
\* occurs, and the confidence where the signals do not decide it.
Assess(W) ==
    LET n == [s \in Signals |-> Cardinality({i \in W : s \in rows[i].signals})]
    IN  [signals |-> n, confident |-> Total(n) >= Confident /\ Cardinality(W) >= 2]

Current == Assess(LatestSnapshots)

AtMost(n, m) == IF n > m THEN m ELSE n

\* The first AlertRefs of the sorted references, as often as each occurs.
TopRefs(n) ==
    [s \in Signals |->
        LET left == AlertRefs - MapThenSumSet(LAMBDA q : n[q], {q \in Signals : q < s})
        IN  IF left < 0 THEN 0 ELSE AtMost(n[s], left)]

HasCritical(a) == \E s \in Critical : a.signals[s] > 0

Risk(a) ==
    IF HasCritical(a) THEN 100
    ELSE AtMost(MapThenSumSet(LAMBDA s : a.signals[s] * Points[s], Signals), 100)

\* alert_id: the type and the top references; those of a critical alert keep
\* their duplicates, those of a high-risk alert do not.
AlertsOf(a) ==
    IF HasCritical(a)
    THEN {[type |-> "CRITICAL_SIGNAL_DETECTED",
           refs |-> TopRefs([s \in Signals |-> IF s \in Critical THEN a.signals[s] ELSE 0])]}
    ELSE IF Risk(a) >= HighRisk
    THEN {[type |-> "HIGH_RISK_SCORE",
           refs |-> TopRefs([s \in Signals |-> AtMost(a.signals[s], 1)])]}
    ELSE {}

-----------------------------------------------------------------------------
(* The steps of a run, one per statement. *)

Tick ==
    /\ now < MaxTime
    /\ now' = now + 1
    /\ UNCHANGED <<tables, runVars, unscored>>

Goto(p, label) == pc' = [pc EXCEPT ![p] = label]

Free(p) == pc[p] \in {"idle", "dead"}

\* There is room for one more snapshot besides those under way.
Room == Len(rows) + Cardinality({p \in Runs : pc[p] = "store"}) < MaxRows

\* Observe, verify, derive the signals; observedAt is the time of the start.
StartIngest(p) ==
    /\ Free(p)
    /\ Room
    /\ \E S \in Observations :
        observed' = [observed EXCEPT ![p] = {[signals |-> S, at |-> now, by |-> "lens"]}]
    /\ Goto(p, "store")
    /\ UNCHANGED <<now, tables, assessment, readAt, unscored>>

\* score-agent, which returns early when there is no snapshot.
StartScore(p) ==
    /\ Free(p)
    /\ rows # <<>>
    /\ Goto(p, "read")
    /\ UNCHANGED <<now, tables, observed, assessment, readAt, unscored>>

\* rows after insertSnapshot of each of the given snapshots.
InsertSnapshots(new) ==
    \E row \in new : rows' = IF IsStored(row) THEN rows ELSE Append(rows, row)

\* Faulty: the run scores first and stores its snapshot unseen.
StoreSnapshotLast(p) ==
    /\ pc[p] = "store"
    /\ InsertSnapshots(observed[p])
    /\ observed' = [observed EXCEPT ![p] = {}]
    /\ assessment' = [assessment EXCEPT ![p] = Current]
    /\ readAt' = [readAt EXCEPT ![p] = now]
    /\ Goto(p, "report")
    /\ UNCHANGED <<now, reports, alerts, unscored>>

\* upsertAgent and insertSnapshot.
StoreSnapshot(p) ==
    /\ pc[p] = "store"
    /\ InsertSnapshots(observed[p])
    /\ observed' = [observed EXCEPT ![p] = {}]
    /\ Goto(p, "read")
    /\ UNCHANGED <<now, reports, alerts, assessment, readAt, unscored>>

\* getLatestSnapshots, and scoreAgent on what it returns.
ReadSnapshots(p) ==
    /\ pc[p] = "read"
    /\ assessment' = [assessment EXCEPT ![p] = Current]
    /\ readAt' = [readAt EXCEPT ![p] = now]
    /\ Goto(p, "report")
    /\ UNCHANGED <<now, tables, observed, unscored>>

\* The run comes to its end.
Finish(p) ==
    /\ Goto(p, "idle")
    /\ assessment' = [assessment EXCEPT ![p] = Nothing]
    /\ readAt' = [readAt EXCEPT ![p] = 0]
    /\ unscored' = (unscored /\ assessment[p] # Current)

\* generatedAt has been taken some time between the read and this insert.
InsertReport(a, earliest) ==
    \E at \in earliest .. now :
        reports' = IF \E r \in reports : r.says = a
                   THEN reports
                   ELSE reports \cup {[says |-> a, at |-> at]}

\* Faulty: a report that exists ends the run, as a plain INSERT would.
StoreReportOrFail(p) ==
    /\ pc[p] = "report"
    /\ InsertReport(assessment[p], readAt[p])
    /\ IF AlertsOf(assessment[p]) = {} /\ reports' # reports
       THEN Finish(p)
       ELSE /\ Goto(p, IF reports' = reports THEN "idle" ELSE "alerts")
            /\ unscored' = (unscored \/ reports' = reports)
            /\ UNCHANGED <<assessment, readAt>>
    /\ UNCHANGED <<now, rows, alerts, observed>>

\* insertRiskReport; without new alerts that is all.
StoreReport(p) ==
    /\ pc[p] = "report"
    /\ InsertReport(assessment[p], readAt[p])
    /\ IF AlertsOf(assessment[p]) = {}
       THEN Finish(p)
       ELSE Goto(p, "alerts") /\ UNCHANGED <<assessment, readAt, unscored>>
    /\ UNCHANGED <<now, rows, alerts, observed>>

\* Faulty: one alert of a type is enough.
StoreAlertsOncePerType(p) ==
    /\ pc[p] = "alerts"
    /\ alerts' = alerts \cup {a \in AlertsOf(assessment[p]) : \A b \in alerts : a.type # b.type}
    /\ Finish(p)
    /\ UNCHANGED <<now, rows, reports, observed>>

\* insertAlerts, in one transaction.
StoreAlerts(p) ==
    /\ pc[p] = "alerts"
    /\ alerts' = alerts \cup AlertsOf(assessment[p])
    /\ Finish(p)
    /\ UNCHANGED <<now, rows, reports, observed>>

\* add-snapshot, from a file of signals: it does not score.
AddSnapshot ==
    /\ Room
    /\ \E S \in Observations : InsertSnapshots({[signals |-> S, at |-> now, by |-> "file"]})
    /\ unscored' = TRUE
    /\ UNCHANGED <<now, reports, alerts, runVars>>

\* The process dies, or a statement fails (the database stays locked).
Crash(p) ==
    /\ ~Free(p)
    /\ Goto(p, "dead")
    /\ observed' = [observed EXCEPT ![p] = {}]
    /\ assessment' = [assessment EXCEPT ![p] = Nothing]
    /\ readAt' = [readAt EXCEPT ![p] = 0]
    /\ unscored' = (unscored \/ pc[p] # "store")
    /\ UNCHANGED <<now, tables>>

RunStep(p) ==
    \/ StartIngest(p) \/ StartScore(p)
    \/ StoreSnapshot(p) \/ ReadSnapshots(p) \/ StoreReport(p) \/ StoreAlerts(p)

Next == Tick \/ AddSnapshot \/ \E p \in Runs : RunStep(p) \/ Crash(p)

Spec == Init /\ [][Next]_vars

\* Somebody keeps ingesting or scoring, runs go on until they end, and from
\* some time on they do not die before.
Fairness ==
    /\ \A p \in Runs : WF_vars(RunStep(p))
    /\ <>[](\A p \in Runs : pc[p] # "dead")

FairSpec == Spec /\ Fairness

-----------------------------------------------------------------------------
TypeOK ==
    /\ now \in Nat
    /\ rows \in Seq(Row)
    /\ reports \subseteq [says : Assessments, at : Nat] /\ \A r \in reports : r.at <= now
    /\ \A a \in alerts : a.type \in AlertTypes
    /\ pc \in [Runs -> PCs]
    /\ observed \in [Runs -> SUBSET Row]
    /\ assessment \in [Runs -> Assessments]
    /\ readAt \in [Runs -> Nat]
    /\ unscored \in BOOLEAN

\* Nobody is at work, and nothing was left without scoring.
Quiet == rows # <<>> /\ ~unscored /\ \A p \in Runs : Free(p)

\* However runs interleave and whatever rows are ignored: once they have
\* come to their end, the report on the snapshots as they are is stored.
ReportIsStored == Quiet => \E r \in reports : r.says = Current

\* Likewise the alerts that the snapshots as they are call for.
AlertsAreRaised == Quiet => AlertsOf(Current) \subseteq alerts

\* A snapshot that was left without scoring, by add-snapshot or by a run
\* that died, is made up for by later runs.
ScoredInTheEnd == []<>~unscored
=============================================================================
