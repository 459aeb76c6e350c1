--------------------------- MODULE RiskStoreProofs ---------------------------
(***************************************************************************)
(* Proofs about RiskStore.  Covered says why nothing stays without report  *)
(* when all runs have ended: the snapshots as they are have been scored,   *)
(* or are known to be unscored, or some run will still read them, or some  *)
(* run that has read them will still store what follows from them.         *)
(***************************************************************************)
EXTENDS RiskStore, FiniteSetTheorems, TLAPS

IsReported(a) == \E r \in reports : r.says = a

Covered ==
    \/ rows = <<>>
    \/ unscored
    \/ IsReported(Current) /\ AlertsOf(Current) \subseteq alerts
    \/ \E p \in Runs : pc[p] = "read"
    \/ \E p \in Runs : pc[p] \in {"report", "alerts"} /\ assessment[p] = Current

\* A run comes to its alerts with its report stored.
ReportedBeforeAlerts == \A p \in Runs : pc[p] = "alerts" => IsReported(assessment[p])

StoreInv == TypeOK /\ ReportedBeforeAlerts /\ Covered

-----------------------------------------------------------------------------
\* What is assessed of a set of snapshots is of the type of a report.
LEMMA AssessmentType ==
    ASSUME rows \in Seq(Row), NEW W, W \subseteq DOMAIN rows
    PROVE  Assess(W) \in Assessments
<1> DEFINE Having(s) == {i \in W : s \in rows[i].signals}
<1>1. DOMAIN rows = 1 .. Len(rows) /\ Len(rows) \in Nat
    OBVIOUS
<1>2. IsFiniteSet(DOMAIN rows)
    BY <1>1, FS_Interval
<1>3. ASSUME NEW s \in Signals PROVE Cardinality(Having(s)) \in Nat
    <2>1. Having(s) \subseteq DOMAIN rows
        OBVIOUS
    <2>2. IsFiniteSet(Having(s))
        BY <1>2, <2>1, FS_Subset
    <2> QED BY <2>2, FS_CardinalityType
<1>4. [s \in Signals |-> Cardinality(Having(s))] \in [Signals -> Nat]
    BY <1>3
<1> QED BY <1>4 DEF Assess, Assessments

LEMMA CurrentType == TypeOK => Current \in Assessments
BY AssessmentType DEF Current, LatestSnapshots, TypeOK

LEMMA NothingType == Nothing \in Assessments
BY DEF Nothing, Assessments

LEMMA CurrentIsOfRows == ASSUME rows' = rows PROVE Current' = Current
BY DEF Current, Assess, LatestSnapshots, Before

LEMMA AlertsHaveTypes == ASSUME NEW a, NEW x \in AlertsOf(a) PROVE x.type \in AlertTypes
BY DEF AlertsOf, AlertTypes

LEMMA InsertedIsReported ==
    ASSUME NEW a, NEW at, InsertReport(a, at)
    PROVE  /\ \E r \in reports' : r.says = a
           /\ \A r \in reports : r \in reports'
<1>1. PICK t \in at .. now :
          reports' = IF \E r \in reports : r.says = a
                     THEN reports
                     ELSE reports \cup {[says |-> a, at |-> t]}
    BY DEF InsertReport
<1>2. CASE \E r \in reports : r.says = a
    BY <1>1, <1>2
<1>3. CASE ~\E r \in reports : r.says = a
    <2>1. [says |-> a, at |-> t] \in reports' /\ [says |-> a, at |-> t].says = a
        BY <1>1, <1>3
    <2> QED BY <1>1, <1>3, <2>1
<1> QED BY <1>2, <1>3

-----------------------------------------------------------------------------
LEMMA TypesOfInsert ==
    ASSUME TypeOK, NEW new \in SUBSET Row, InsertSnapshots(new)
    PROVE  rows' \in Seq(Row)
BY DEF InsertSnapshots, TypeOK

LEMMA TypesOfReport ==
    ASSUME TypeOK, NEW a \in Assessments, NEW at \in Nat, InsertReport(a, at)
    PROVE  /\ reports' \subseteq [says : Assessments, at : Nat]
           /\ \A r \in reports' : r.at <= now
BY DEF InsertReport, TypeOK

LEMMA FinishKeepsTypes ==
    ASSUME TypeOK, NEW p \in Runs, Finish(p)
    PROVE  /\ pc' \in [Runs -> PCs]
           /\ assessment' \in [Runs -> Assessments]
           /\ readAt' \in [Runs -> Nat]
           /\ unscored' \in BOOLEAN
BY NothingType DEF Finish, Goto, TypeOK, PCs

LEMMA StepTypes ==
    ASSUME StoreAssumption, TypeOK, [Next]_vars
    PROVE  TypeOK'
<1>1. CASE UNCHANGED vars
    BY <1>1 DEF TypeOK, vars, tables, runVars
<1>2. CASE Tick
    <2>1. now' \in Nat /\ now <= now'
        BY <1>2 DEF Tick, TypeOK
    <2>2. \A r \in reports : r.at \in Nat
        BY DEF TypeOK
    <2> QED BY <1>2, <2>1, <2>2 DEF Tick, TypeOK, tables, runVars
<1>3. CASE AddSnapshot
    <2>1. PICK S \in Observations :
              InsertSnapshots({[signals |-> S, at |-> now, by |-> "file"]})
        BY <1>3 DEF AddSnapshot
    <2>2. {[signals |-> S, at |-> now, by |-> "file"]} \in SUBSET Row
        BY DEF Row, Sources, StoreAssumption, TypeOK
    <2>3. rows' \in Seq(Row)
        BY <2>1, <2>2, TypesOfInsert
    <2> QED BY <1>3, <2>3 DEF AddSnapshot, TypeOK, runVars
<1> SUFFICES ASSUME NEW p \in Runs, RunStep(p) \/ Crash(p) PROVE TypeOK'
    BY <1>1, <1>2, <1>3 DEF Next
<1>4. CASE StartIngest(p)
    <2>1. PICK S \in Observations :
              observed' = [observed EXCEPT ![p] = {[signals |-> S, at |-> now, by |-> "lens"]}]
        BY <1>4 DEF StartIngest
    <2>2. {[signals |-> S, at |-> now, by |-> "lens"]} \in SUBSET Row
        BY DEF Row, Sources, StoreAssumption, TypeOK
    <2> QED BY <1>4, <2>1, <2>2 DEF StartIngest, Goto, TypeOK, PCs, tables
<1>5. CASE StartScore(p)
    BY <1>5 DEF StartScore, Goto, TypeOK, PCs, tables
<1>6. CASE StoreSnapshot(p)
    <2>1. rows' \in Seq(Row)
        BY <1>6, TypesOfInsert DEF StoreSnapshot, TypeOK
    <2> QED BY <1>6, <2>1 DEF StoreSnapshot, Goto, TypeOK, PCs
<1>7. CASE ReadSnapshots(p)
    BY <1>7, CurrentType DEF ReadSnapshots, Goto, TypeOK, PCs, tables
<1>8. CASE StoreReport(p)
    <2>1. assessment[p] \in Assessments /\ readAt[p] \in Nat
        BY DEF TypeOK
    <2>2. /\ reports' \subseteq [says : Assessments, at : Nat]
          /\ \A r \in reports' : r.at <= now
        BY <1>8, <2>1, TypesOfReport DEF StoreReport
    <2>3. CASE AlertsOf(assessment[p]) = {}
        BY <1>8, <2>2, <2>3, FinishKeepsTypes DEF StoreReport, TypeOK
    <2>4. CASE AlertsOf(assessment[p]) # {}
        BY <1>8, <2>2, <2>4 DEF StoreReport, Goto, TypeOK, PCs
    <2> QED BY <2>3, <2>4
<1>9. CASE StoreAlerts(p)
    <2>1. \A a \in alerts' : a.type \in AlertTypes
        BY <1>9, AlertsHaveTypes DEF StoreAlerts, TypeOK
    <2> QED BY <1>9, <2>1, FinishKeepsTypes DEF StoreAlerts, TypeOK
<1>10. CASE Crash(p)
    BY <1>10, NothingType DEF Crash, Goto, TypeOK, PCs, tables
<1> QED BY <1>4, <1>5, <1>6, <1>7, <1>8, <1>9, <1>10 DEF RunStep

\* A report that is stored stays stored, and the run that goes on to its
\* alerts has just stored its own.
LEMMA StepReported ==
    ASSUME TypeOK, ReportedBeforeAlerts, [Next]_vars
    PROVE  ReportedBeforeAlerts'
<1> USE DEF ReportedBeforeAlerts, IsReported
<1>1. CASE UNCHANGED vars \/ Tick \/ AddSnapshot
    BY <1>1 DEF vars, tables, runVars, Tick, AddSnapshot
<1> SUFFICES ASSUME NEW p \in Runs, RunStep(p) \/ Crash(p) PROVE ReportedBeforeAlerts'
    BY <1>1 DEF Next
<1>2. CASE StartIngest(p) BY <1>2 DEF StartIngest, Goto, TypeOK, tables
<1>3. CASE StartScore(p) BY <1>3 DEF StartScore, Goto, TypeOK, tables
<1>4. CASE StoreSnapshot(p) BY <1>4 DEF StoreSnapshot, Goto, TypeOK
<1>5. CASE ReadSnapshots(p) BY <1>5 DEF ReadSnapshots, Goto, TypeOK, tables
<1>6. CASE StoreReport(p)
    <2>1. /\ \E r \in reports' : r.says = assessment[p]
          /\ \A r \in reports : r \in reports'
        BY <1>6, InsertedIsReported DEF StoreReport
    <2>3. CASE AlertsOf(assessment[p]) = {}
        BY <1>6, <2>1, <2>3 DEF StoreReport, Finish, Goto, TypeOK
    <2>4. CASE AlertsOf(assessment[p]) # {}
        BY <1>6, <2>1, <2>4 DEF StoreReport, Goto, TypeOK
    <2> QED BY <2>3, <2>4
<1>7. CASE StoreAlerts(p) BY <1>7 DEF StoreAlerts, Finish, Goto, TypeOK
<1>8. CASE Crash(p) BY <1>8 DEF Crash, Goto, TypeOK, tables
<1> QED BY <1>2, <1>3, <1>4, <1>5, <1>6, <1>7, <1>8 DEF RunStep

\* A run that has read the snapshots as they are stores what follows from
\* them, whatever the others do in between; a new snapshot is followed by a
\* read of the run that has stored it, or is known to be unscored.
LEMMA StepCovered ==
    ASSUME TypeOK, ReportedBeforeAlerts, Covered, [Next]_vars
    PROVE  Covered'
<1> DEFINE Witness(q) == \/ pc[q] = "read"
                         \/ pc[q] \in {"report", "alerts"} /\ assessment[q] = Current
<1>1. CASE UNCHANGED vars \/ Tick
    <2>1. rows' = rows
        BY <1>1 DEF vars, tables, Tick
    <2>2. Current' = Current
        BY <2>1, CurrentIsOfRows
    <2> QED BY <1>1, <2>1, <2>2 DEF Covered, IsReported, vars, tables, runVars, Tick
<1>2. CASE AddSnapshot
    BY <1>2 DEF AddSnapshot, Covered
<1> SUFFICES ASSUME NEW p \in Runs, RunStep(p) \/ Crash(p) PROVE Covered'
    BY <1>1, <1>2 DEF Next
<1>3. CASE StoreSnapshot(p)
    <2>1. pc'[p] = "read"
        BY <1>3 DEF StoreSnapshot, Goto, TypeOK
    <2> QED BY <2>1 DEF Covered
<1>4. CASE ~StoreSnapshot(p)
    <2>1. rows' = rows
        BY <1>4 DEF RunStep, StartIngest, StartScore, ReadSnapshots, StoreReport, StoreAlerts, Crash, tables
    <2>2. Current' = Current
        BY <2>1, CurrentIsOfRows
    <2>3. \A q \in Runs \ {p} : pc'[q] = pc[q] /\ assessment'[q] = assessment[q]
        BY <1>4 DEF RunStep, StartIngest, StartScore, ReadSnapshots, StoreReport, StoreAlerts,
                    Crash, Finish, Goto, TypeOK
    <2>4. (\A r \in reports : r \in reports') /\ alerts \subseteq alerts'
        BY <1>4 DEF RunStep, StartIngest, StartScore, ReadSnapshots, StoreReport, StoreAlerts,
                    Crash, tables, InsertReport
    <2>5. IsReported(Current) /\ AlertsOf(Current) \subseteq alerts => Covered'
        BY <2>2, <2>4 DEF Covered, IsReported
    <2>6. rows = <<>> => Covered'
        BY <2>1 DEF Covered
    <2>7. (\E q \in Runs \ {p} : Witness(q)) => Covered'
        BY <2>2, <2>3 DEF Covered
    <2>8. CASE StartIngest(p)
        BY <2>5, <2>6, <2>7, <2>8 DEF StartIngest, Free, Covered
    <2>9. CASE StartScore(p)
        BY <2>9 DEF StartScore, Goto, TypeOK, Covered
    <2>10. CASE ReadSnapshots(p)
        <3>1. pc'[p] = "report" /\ assessment'[p] = Current'
            BY <2>2, <2>10 DEF ReadSnapshots, Goto, TypeOK
        <3> QED BY <3>1 DEF Covered
    <2>11. CASE StoreReport(p)
        <3>1. \E r \in reports' : r.says = assessment[p]
            BY <2>11, InsertedIsReported DEF StoreReport
        <3>2. CASE AlertsOf(assessment[p]) = {} /\ assessment[p] = Current
            BY <2>2, <3>1, <3>2 DEF Covered, IsReported
        <3>3. CASE AlertsOf(assessment[p]) = {} /\ assessment[p] # Current
            <4>1. unscored' = unscored
                BY <2>11, <3>3 DEF StoreReport, Finish, TypeOK
            <4>2. ~Witness(p)
                BY <2>11, <3>3 DEF StoreReport
            <4> QED BY <2>5, <2>6, <2>7, <4>1, <4>2 DEF Covered
        <3>4. CASE AlertsOf(assessment[p]) # {}
            <4>1. pc'[p] = "alerts" /\ assessment' = assessment /\ unscored' = unscored
                BY <2>11, <3>4 DEF StoreReport, Goto, TypeOK
            <4>2. Witness(p) => Covered'
                BY <2>2, <2>11, <4>1 DEF Covered, StoreReport
            <4> QED BY <2>5, <2>6, <2>7, <4>1, <4>2 DEF Covered
        <3> QED BY <3>2, <3>3, <3>4
    <2>12. CASE StoreAlerts(p)
        <3>1. IsReported(assessment[p])
            BY <2>12 DEF StoreAlerts, ReportedBeforeAlerts
        <3>2. CASE assessment[p] = Current
            BY <2>2, <2>12, <3>1, <3>2 DEF Covered, IsReported, StoreAlerts
        <3>3. CASE assessment[p] # Current
            <4>1. unscored' = unscored
                BY <2>12, <3>3 DEF StoreAlerts, Finish, TypeOK
            <4>2. ~Witness(p)
                BY <2>12, <3>3 DEF StoreAlerts
            <4> QED BY <2>5, <2>6, <2>7, <4>1, <4>2 DEF Covered
        <3> QED BY <3>2, <3>3
    <2>13. CASE Crash(p)
        <3>1. CASE pc[p] = "store"
            <4>1. ~Witness(p) /\ (unscored => unscored')
                BY <2>13, <3>1 DEF Crash
            <4> QED BY <2>5, <2>6, <2>7, <4>1 DEF Covered
        <3>2. CASE pc[p] # "store"
            BY <2>13, <3>2 DEF Crash, Covered
        <3> QED BY <3>1, <3>2
    <2> QED BY <1>4, <2>8, <2>9, <2>10, <2>11, <2>12, <2>13 DEF RunStep
<1> QED BY <1>3, <1>4

-----------------------------------------------------------------------------
LEMMA StoreInvariant == Spec => []StoreInv
<1>1. Init => StoreInv
    <2> SUFFICES ASSUME Init PROVE StoreInv
        OBVIOUS
    <2>1. rows = <<>> /\ <<>> \in Seq(Row)
        BY DEF Init
    <2>2. TypeOK
        BY <2>1, NothingType DEF Init, TypeOK, PCs
    <2>3. ReportedBeforeAlerts /\ Covered
        BY <2>1 DEF Init, ReportedBeforeAlerts, Covered
    <2> QED BY <2>2, <2>3 DEF StoreInv
<1>2. StoreInv /\ [Next]_vars => StoreInv'
    BY StoreAssumption, StepTypes, StepReported, StepCovered DEF StoreInv
<1> QED BY <1>1, <1>2, PTL DEF Spec

\* Rows, assessments and runs have their types, and no report is of the
\* future.
THEOREM StoreTypesCorrect == Spec => []TypeOK
<1>1. StoreInv => TypeOK
    BY DEF StoreInv
<1> QED BY <1>1, StoreInvariant, PTL

\* With any number of runs, snapshots and signals, whatever is kept and
\* whatever raises an alert: when no run is at work and nothing was left
\* unscored, the report on the latest snapshots is stored.
THEOREM NothingStaysUnreported == Spec => []ReportIsStored
<1>1. StoreInv => ReportIsStored
    BY DEF StoreInv, Covered, IsReported, ReportIsStored, Quiet, Free
<1> QED BY <1>1, StoreInvariant, PTL

\* Likewise the alerts that the latest snapshots call for are raised.
THEOREM NoAlertIsMissing == Spec => []AlertsAreRaised
<1>1. StoreInv => AlertsAreRaised
    BY DEF StoreInv, Covered, AlertsAreRaised, Quiet, Free
<1> QED BY <1>1, StoreInvariant, PTL
=============================================================================
