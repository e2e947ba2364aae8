---------------------------- MODULE AlertsProofs ----------------------------
(***************************************************************************)
(* Theorems about Alerts, for any number of alerts, incidents, evaluations *)
(* and people.                                                             *)
(*                                                                         *)
(* The partial unique index makes OneFiring inductive, since no other      *)
(* write brings an alert to FIRING.  The action property needs to know     *)
(* what a process may still rely on when it writes: as long as nobody has  *)
(* written its alert since, the state it has checked (Knows).              *)
(***************************************************************************)
EXTENDS Alerts, TLAPS

\* What an evaluation has, and what it knows of its alert.
EvaluationKnows(e) ==
    LET v == eval[e] IN
    /\ v.pc = "resolve" => v.found \in Alerts
    /\ v.pc \in {"update", "fired", "open", "link", "relink", "remediate"} =>
         v.alert \in Alerts
    /\ v.pc \in {"link", "relink"} => v.incident \in Incidents
    /\ v.pc \in {"refind", "insert", "update"} => v.severity \in Severity
    /\ e \notin stale =>
         /\ v.pc = "resolve" => alerts[v.found].state = "FIRING"
         /\ v.pc = "update" => alerts[v.alert].state = "FIRING"

\* What a request of a person knows of its alert.
PersonKnows(p) ==
    LET r == person[p] IN
    /\ r.pc \in {"acknowledge", "resolve"} => r.alert \in Alerts
    /\ p \notin stale =>
         /\ r.pc = "acknowledge" => alerts[r.alert].state = "FIRING"
         /\ r.pc = "resolve" => alerts[r.alert].state \in {"FIRING", "ACKNOWLEDGED"}

Knows ==
    /\ \A e \in Evaluations : EvaluationKnows(e)
    /\ \A p \in People : PersonKnows(p)

IInv == TypeOK /\ OneFiring /\ Knows

-----------------------------------------------------------------------------

\* The rows and processes that steps write are of their types.
LEMMA Values ==
    /\ NoAlert \in Alert
    /\ NoEvaluation \in Evaluation
    /\ Over \in Evaluation
    /\ Nobody \in Person /\ Gone \in Person
    /\ AutoIncidentSeverities \subseteq Severity
  BY DEF NoAlert, Alert, AlertState, NoEvaluation, Over, Evaluation, Nobody, Gone, Person,
         AutoIncidentSeverities, Severity

\* Initially nothing fires and nobody asks.
LEMMA InitInv == Init => IInv
<1> SUFFICES ASSUME Init PROVE IInv
  OBVIOUS
<1>1. TypeOK
  BY Values DEF Init, TypeOK
<1>2. OneFiring
  BY DEF Init, OneFiring, Firing, NoAlert
<1>3. Knows
  BY DEF Init, Knows, EvaluationKnows, PersonKnows, NoEvaluation, Nobody
<1>4. QED
  BY <1>1, <1>2, <1>3 DEF IInv

\* A write of one alert keeps what every other process knows: those that hold
\* the alert become stale, and those that do not know nothing of it.
LEMMA OthersKnow ==
    ASSUME IInv, NEW p \in Evaluations \cup People, NEW a \in Alerts, NEW row \in Alert,
           WriteAlert(p, a, row)
    PROVE  /\ \A e \in Evaluations : e # p /\ eval'[e] = eval[e] => EvaluationKnows(e)'
           /\ \A q \in People : q # p /\ person'[q] = person[q] => PersonKnows(q)'
<1>1. /\ TypeOK /\ Knows
      /\ alerts' = [alerts EXCEPT ![a] = row]
      /\ stale' = (stale \cup Holding(a)) \ {p}
  BY DEF IInv, WriteAlert
<1>2. ASSUME NEW e \in Evaluations, e # p, eval'[e] = eval[e] PROVE EvaluationKnows(e)'
  <2>1. EvaluationKnows(e)
    BY <1>1 DEF Knows
  <2>2. CASE e \in stale'
    BY <1>2, <2>1, <2>2 DEF EvaluationKnows
  <2>3. CASE e \notin stale'
    <3>1. e \notin stale /\ e \notin Holding(a)
      BY <1>1, <1>2, <2>3
    <3>2. /\ eval[e].pc = "resolve" => eval[e].found # a
          /\ eval[e].pc = "update" => eval[e].alert # a
      BY <3>1 DEF Holding
    <3>3. QED
      BY <1>1, <1>2, <2>1, <3>1, <3>2 DEF EvaluationKnows, TypeOK
  <2>4. QED
    BY <2>2, <2>3
<1>3. ASSUME NEW q \in People, q # p, person'[q] = person[q] PROVE PersonKnows(q)'
  <2>1. PersonKnows(q)
    BY <1>1 DEF Knows
  <2>2. CASE q \in stale'
    BY <1>3, <2>1, <2>2 DEF PersonKnows
  <2>3. CASE q \notin stale'
    <3>1. q \notin stale /\ q \notin Holding(a)
      BY <1>1, <1>3, <2>3
    <3>2. person[q].pc \in {"acknowledge", "resolve"} => person[q].alert # a
      BY <3>1 DEF Holding
    <3>3. QED
      BY <1>1, <1>3, <2>1, <3>1, <3>2 DEF PersonKnows, TypeOK
  <2>4. QED
    BY <2>2, <2>3
<1>4. QED
  BY <1>2, <1>3

\* A step that leaves the state of every alert, and makes nobody less stale,
\* keeps what the processes it leaves alone know.
LEMMA StatesKept ==
    ASSUME IInv, alerts' \in [Alerts -> Alert], stale' = stale,
           \A a \in Alerts : alerts'[a].state = alerts[a].state
    PROVE  /\ OneFiring'
           /\ \A e \in Evaluations : eval'[e] = eval[e] => EvaluationKnows(e)'
           /\ \A p \in People : person'[p] = person[p] => PersonKnows(p)'
<1>1. TypeOK /\ OneFiring /\ Knows
  BY DEF IInv
<1>2. OneFiring'
  BY <1>1 DEF OneFiring, Firing
<1>3. ASSUME NEW e \in Evaluations, eval'[e] = eval[e] PROVE EvaluationKnows(e)'
  BY <1>1, <1>3 DEF Knows, EvaluationKnows
<1>4. ASSUME NEW p \in People, person'[p] = person[p] PROVE PersonKnows(p)'
  BY <1>1, <1>4 DEF Knows, PersonKnows
<1>5. QED
  BY <1>2, <1>3, <1>4

-----------------------------------------------------------------------------
(* The steps of an evaluation.                                             *)

\* The steps that only read, or write nothing but the evaluation itself.
LEMMA ReadingInv ==
    ASSUME IInv, NEW e \in Evaluations, NEW v \in Evaluation,
           eval' = [eval EXCEPT ![e] = v],
           UNCHANGED <<alerts, person, stale>>,
           opened' \in [Incidents -> Alerts \cup {"byHand", Null}],
           remediated' \in [Alerts -> 0 .. 2],
           severe' \in SUBSET Alerts, raced' \in SUBSET Alerts,
           missed' \in SUBSET Alerts, cut' \in SUBSET Alerts,
           v.pc = "resolve" => v.found \in Firing,
           v.pc = "update" => v.alert \in Firing,
           v.pc \in {"update", "fired", "open", "link", "relink", "remediate"} => v.alert \in Alerts,
           v.pc \in {"link", "relink"} => v.incident \in Incidents,
           v.pc \in {"refind", "insert", "update"} => v.severity \in Severity
    PROVE  IInv'
<1>1. TypeOK'
  BY DEF IInv, TypeOK
<1>2. /\ OneFiring'
      /\ \A x \in Evaluations : eval'[x] = eval[x] => EvaluationKnows(x)'
      /\ \A p \in People : PersonKnows(p)'
  BY StatesKept DEF IInv, TypeOK
<1>3. EvaluationKnows(e)'
  BY DEF IInv, TypeOK, EvaluationKnows, Firing
<1>4. QED
  BY <1>1, <1>2, <1>3 DEF IInv, TypeOK, Knows

\* What an evaluation still knows after its alert.
LEMMA RestIsEvaluation ==
    ASSUME NEW v, v.alert \in Alerts, NEW pc \in {"open", "remediate"}
    PROVE  /\ Rest(v, pc) \in Evaluation
           /\ Rest(v, pc).pc = pc
           /\ Rest(v, pc).alert = v.alert
<1> DEFINE b == Remediates(v)
<1>1. b \in BOOLEAN
  BY DEF Remediates
<1>2. Rest(v, pc) = [NoEvaluation EXCEPT !.pc = pc, !.alert = v.alert, !.remediates = b]
  BY Zenon DEF Rest
<1> HIDE DEF b
<1>3. QED
  BY <1>1, <1>2 DEF NoEvaluation, Evaluation

\* The steps of an evaluation that only read, or write no alert.
LEMMA QuietStepInv ==
    ASSUME IInv, NEW e \in Evaluations,
           \/ \E severity \in Severities \cup {Quiet}, remediates \in BOOLEAN :
                StartEvaluation(e, severity, remediates)
           \/ FindFiring(e) \/ AuditFired(e) \/ OpenIncident(e) \/ TriggerRemediation(e)
    PROVE  IInv'
<1>1. TypeOK /\ EvaluationKnows(e) /\ eval[e] \in Evaluation
  BY DEF IInv, TypeOK, Knows
<1>2. ASSUME NEW severity \in Severities \cup {Quiet}, NEW remediates \in BOOLEAN,
             StartEvaluation(e, severity, remediates)
      PROVE  IInv'
  <2> DEFINE v == [NoEvaluation EXCEPT !.pc = "find", !.severity = severity,
                                       !.remediates = remediates]
  <2>1. v \in Evaluation
    BY AlertsAssumption DEF NoEvaluation, Evaluation
  <2>2. v.pc = "find"
    BY DEF NoEvaluation
  <2> HIDE DEF v
  <2>3. QED
    BY <1>1, <1>2, <2>1, <2>2, ReadingInv DEF StartEvaluation, v, histories, TypeOK
<1>3. ASSUME FindFiring(e) PROVE IInv'
  <2>1. PICK found \in Alerts \cup {Null} :
          /\ FindFirst(found)
          /\ eval' = [eval EXCEPT ![e] =
               IF eval[e].severity # Quiet THEN [eval[e] EXCEPT !.found = found, !.pc = "refind"]
               ELSE IF found # Null THEN [eval[e] EXCEPT !.found = found, !.pc = "resolve"]
               ELSE Over]
    BY <1>3 DEF FindFiring
  <2> DEFINE v == IF eval[e].severity # Quiet
                  THEN [eval[e] EXCEPT !.found = found, !.pc = "refind"]
                  ELSE IF found # Null THEN [eval[e] EXCEPT !.found = found, !.pc = "resolve"]
                  ELSE Over
  <2>2. v \in Evaluation
    <3>1. [eval[e] EXCEPT !.found = found, !.pc = "refind"] \in Evaluation
      BY <1>1 DEF Evaluation
    <3>2. [eval[e] EXCEPT !.found = found, !.pc = "resolve"] \in Evaluation
      BY <1>1 DEF Evaluation
    <3>3. QED
      BY <3>1, <3>2, Values
  <2>3. v.pc = "resolve" => v.found \in Firing
    BY <1>1, <2>1 DEF Evaluation, Over, NoEvaluation, FindFirst
  <2>4. v.pc \in {"refind", "resolve", "done"} /\ (v.pc = "refind" => v.severity \in Severity)
    BY <1>1 DEF Evaluation, Over, NoEvaluation
  <2> HIDE DEF v
  <2>5. eval' = [eval EXCEPT ![e] = v]
    BY <2>1 DEF v
  <2>6. QED
    BY <1>1, <1>3, <2>2, <2>3, <2>4, <2>5, ReadingInv DEF FindFiring, histories, TypeOK
<1>4. ASSUME AuditFired(e) PROVE IInv'
  <2> DEFINE v == Decided(eval[e])
  <2>1. eval[e].alert \in Alerts
    BY <1>1, <1>4 DEF AuditFired, EvaluationKnows
  <2>2. Over \in Evaluation /\ Over.pc = "done"
    BY Values DEF Over, NoEvaluation
  <2>3. /\ v \in Evaluation /\ v.pc \in {"open", "remediate", "done"}
        /\ v.pc \in {"open", "remediate"} => v.alert \in Alerts
    BY <2>1, <2>2, RestIsEvaluation DEF Decided
  <2> HIDE DEF v
  <2>4. QED
    BY <1>1, <1>4, <2>3, ReadingInv DEF AuditFired, v, histories, TypeOK
<1>5. ASSUME OpenIncident(e) PROVE IInv'
  <2>1. PICK i \in Incidents :
          /\ opened' = [opened EXCEPT ![i] = eval[e].alert]
          /\ eval' = [eval EXCEPT ![e] = [eval[e] EXCEPT !.pc = "link", !.incident = i]]
    BY <1>5 DEF OpenIncident
  <2> DEFINE v == [eval[e] EXCEPT !.pc = "link", !.incident = i]
  <2>2. v \in Evaluation /\ v.pc = "link" /\ v.incident = i /\ v.alert = eval[e].alert
    BY <1>1 DEF Evaluation
  <2>3. eval[e].alert \in Alerts
    BY <1>1, <1>5 DEF OpenIncident, EvaluationKnows
  <2> HIDE DEF v
  <2>4. eval' = [eval EXCEPT ![e] = v] /\ opened' \in [Incidents -> Alerts \cup {"byHand", Null}]
    BY <1>1, <2>1, <2>3 DEF v, TypeOK
  <2>5. QED
    BY <1>1, <1>5, <2>2, <2>3, <2>4, ReadingInv DEF OpenIncident, histories, TypeOK
<1>6. ASSUME TriggerRemediation(e) PROVE IInv'
  <2>1. Over \in Evaluation /\ Over.pc = "done"
    BY Values DEF Over, NoEvaluation
  <2>2. eval[e].alert \in Alerts
    BY <1>1, <1>6 DEF TriggerRemediation, EvaluationKnows
  <2>3. remediated' \in [Alerts -> 0 .. 2]
    BY <1>1, <1>6, <2>2 DEF TriggerRemediation, TypeOK
  <2>4. QED
    BY <1>1, <1>6, <2>1, <2>3, ReadingInv DEF TriggerRemediation, histories, TypeOK
<1>7. QED
  BY <1>2, <1>3, <1>4, <1>5, <1>6

\* fireOrUpdate takes a firing alert as it is, or is about to update or insert.
LEMMA FindAgainInv ==
    ASSUME IInv, NEW e \in Evaluations, FindAgain(e)
    PROVE  IInv'
<1>1. TypeOK /\ eval[e] \in Evaluation /\ eval[e].severity \in Severity
  BY DEF IInv, TypeOK, Knows, EvaluationKnows, FindAgain
<1>2. UNCHANGED <<alerts, opened, person, remediated, severe, missed, cut, stale>>
  BY DEF FindAgain
<1>3. CASE eval' = [eval EXCEPT ![e].pc = "insert"] /\ UNCHANGED raced
  <2> DEFINE v == [eval[e] EXCEPT !.pc = "insert"]
  <2>1. v \in Evaluation /\ v.pc = "insert" /\ v.severity \in Severity
        /\ eval' = [eval EXCEPT ![e] = v]
    BY <1>1, <1>3 DEF Evaluation
  <2> HIDE DEF v
  <2>2. QED
    BY <1>1, <1>2, <1>3, <2>1, ReadingInv DEF TypeOK
<1>4. ASSUME NEW a \in Firing, Races(e, a),
             \/ Fires(e, a, alerts[a].incident # Null)
             \/ eval' = [eval EXCEPT ![e].pc = "update", ![e].alert = a]
      PROVE  IInv'
  <2>1. a \in Alerts /\ raced' \in SUBSET Alerts
    BY <1>1, <1>4 DEF Firing, Races, TypeOK
  <2>2. PICK v \in Evaluation : /\ v.pc \in {"fired", "update"} /\ v.alert = a
                                /\ v.severity \in Severity
                                /\ eval' = [eval EXCEPT ![e] = v]
    <3>1. CASE Fires(e, a, alerts[a].incident # Null)
      <4> DEFINE linked == alerts[a].incident # Null
      <4>1. linked \in BOOLEAN
        OBVIOUS
      <4> HIDE DEF linked
      <4> DEFINE v == [eval[e] EXCEPT !.pc = "fired", !.alert = a, !.linked = linked]
      <4>2. v \in Evaluation /\ v.pc = "fired" /\ v.alert = a /\ v.severity \in Severity
        BY <1>1, <2>1, <4>1 DEF Evaluation
      <4>3. eval' = [eval EXCEPT ![e] = v]
        BY <3>1 DEF Fires, linked
      <4>4. QED
        BY <4>2, <4>3
    <3>2. CASE eval' = [eval EXCEPT ![e].pc = "update", ![e].alert = a]
      <4> DEFINE v == [eval[e] EXCEPT !.pc = "update", !.alert = a]
      <4>1. v \in Evaluation /\ v.pc = "update" /\ v.alert = a /\ v.severity \in Severity
        BY <1>1, <2>1 DEF Evaluation
      <4>2. eval' = [eval EXCEPT ![e] = v]
        BY <3>2
      <4>3. QED
        BY <4>1, <4>2
    <3>3. QED
      BY <1>4, <3>1, <3>2
  <2>3. QED
    BY <1>1, <1>2, <1>4, <2>1, <2>2, ReadingInv DEF TypeOK
<1>5. QED
  BY <1>3, <1>4 DEF FindAgain

\* An UPDATE or a resolution of the alert the evaluation has found.
LEMMA EvaluationWriteInv ==
    ASSUME IInv, NEW e \in Evaluations, AutoResolve(e) \/ UpdateSeverity(e)
    PROVE  IInv'
<1>1. TypeOK /\ OneFiring /\ Knows /\ eval[e] \in Evaluation /\ EvaluationKnows(e)
  BY DEF IInv, TypeOK, Knows
<1>2. PICK a \in Alerts, row \in Alert, v \in Evaluation :
        /\ WriteAlert(e, a, row)
        /\ row.state \in {alerts[a].state, "RESOLVED"}
        /\ eval' = [eval EXCEPT ![e] = v]
        /\ v.pc \in {"fired", "done"}
        /\ v.pc = "fired" => v.alert = a
        /\ UNCHANGED <<opened, person, remediated, histories>>
  <2>1. CASE AutoResolve(e)
    <3> DEFINE a == eval[e].found
               row == [alerts[a] EXCEPT !.state = "RESOLVED"]
    <3>1. a \in Alerts
      BY <1>1, <2>1 DEF AutoResolve, EvaluationKnows
    <3>2. row \in Alert /\ row.state = "RESOLVED"
      BY <1>1, <3>1 DEF TypeOK, Alert, AlertState
    <3>3. Over \in Evaluation /\ Over.pc = "done"
      BY Values DEF Over, NoEvaluation
    <3>4. WriteAlert(e, a, row) /\ eval' = [eval EXCEPT ![e] = Over]
      BY <2>1 DEF AutoResolve
    <3>5. UNCHANGED <<opened, person, remediated, histories>>
      BY <2>1 DEF AutoResolve
    <3> HIDE DEF a, row
    <3>6. QED
      BY <3>1, <3>2, <3>3, <3>4, <3>5
  <2>2. CASE UpdateSeverity(e)
    <3> DEFINE a == eval[e].alert
               row == [alerts[a] EXCEPT !.severity = eval[e].severity]
               linked == alerts[a].incident # Null
               v == [eval[e] EXCEPT !.pc = "fired", !.alert = a, !.linked = linked]
    <3>1. a \in Alerts
      BY <1>1, <2>2 DEF UpdateSeverity, EvaluationKnows
    <3>2. eval[e].severity \in Severity
      BY <1>1, <2>2 DEF UpdateSeverity, EvaluationKnows
    <3>3. row \in Alert /\ row.state = alerts[a].state
      BY <1>1, <3>1, <3>2 DEF TypeOK, Alert
    <3>4. WriteAlert(e, a, row) /\ eval' = [eval EXCEPT ![e] = v]
      BY <2>2 DEF UpdateSeverity, Fires
    <3>5. linked \in BOOLEAN
      OBVIOUS
    <3>6. v \in Evaluation /\ v.pc = "fired" /\ v.alert = a
      <4> HIDE DEF linked, a
      <4>1. QED
        BY <1>1, <3>1, <3>5 DEF Evaluation
    <3>7. UNCHANGED <<opened, person, remediated, histories>>
      BY <2>2 DEF UpdateSeverity
    <3> HIDE DEF a, row, linked, v
    <3>8. QED
      BY <3>1, <3>3, <3>4, <3>6, <3>7
  <2>3. QED
    BY <2>1, <2>2
<1>3. TypeOK'
  BY <1>1, <1>2 DEF TypeOK, WriteAlert, Holding, histories
<1>4. OneFiring'
  <2>1. \A b \in Alerts : alerts'[b].state = "FIRING" => alerts[b].state = "FIRING"
    BY <1>1, <1>2 DEF WriteAlert, TypeOK
  <2>2. QED
    BY <1>1, <2>1 DEF OneFiring, Firing
<1>5. Knows'
  <2>1. e \notin People /\ person' = person
    BY <1>2, AlertsAssumption
  <2>2. /\ \A x \in Evaluations \ {e} : EvaluationKnows(x)'
        /\ \A p \in People : PersonKnows(p)'
    BY <1>1, <1>2, <2>1, OthersKnow DEF TypeOK
  <2>3. EvaluationKnows(e)'
    BY <1>1, <1>2 DEF EvaluationKnows, TypeOK
  <2>4. QED
    BY <2>2, <2>3 DEF Knows
<1>6. QED
  BY <1>3, <1>4, <1>5 DEF IInv

\* The partial unique index lets a row in only when nothing fires.
LEMMA InsertAlertInv ==
    ASSUME IInv, NEW e \in Evaluations, InsertAlert(e)
    PROVE  IInv'
<1>1. /\ TypeOK /\ OneFiring /\ Knows /\ eval[e] \in Evaluation
      /\ eval[e].severity \in Severity
  BY DEF IInv, TypeOK, Knows, EvaluationKnows, InsertAlert
<1>2. UNCHANGED <<opened, person, remediated, raced, cut>>
  BY DEF InsertAlert
<1>3. ASSUME Firing = {}, NEW a \in Alerts, InsertRow(e, a) PROVE IInv'
  <2> DEFINE row == [NoAlert EXCEPT !.state = "FIRING", !.severity = eval[e].severity]
             v == [eval[e] EXCEPT !.pc = "fired", !.alert = a, !.linked = FALSE]
  <2>1. row \in Alert
    BY <1>1 DEF NoAlert, Alert, AlertState
  <2>2. v \in Evaluation /\ v.pc = "fired" /\ v.alert = a
    BY <1>1 DEF Evaluation
  <2>3. WriteAlert(e, a, row) /\ eval' = [eval EXCEPT ![e] = v]
    BY <1>3 DEF InsertRow, Fires
  <2>4. severe' \in SUBSET Alerts /\ missed' \in SUBSET Alerts
    BY <1>1, <1>3 DEF InsertRow, TypeOK
  <2> HIDE DEF row, v
  <2>5. TypeOK'
    BY <1>1, <1>2, <2>1, <2>2, <2>3, <2>4 DEF TypeOK, WriteAlert, Holding
  <2>6. OneFiring'
    BY <1>1, <1>3, <2>3 DEF OneFiring, Firing, WriteAlert, TypeOK
  <2>7. /\ \A x \in Evaluations \ {e} : EvaluationKnows(x)'
        /\ \A p \in People : PersonKnows(p)'
    BY <1>1, <1>2, <2>1, <2>2, <2>3, OthersKnow, AlertsAssumption DEF TypeOK
  <2>8. EvaluationKnows(e)'
    BY <1>1, <2>2, <2>3 DEF EvaluationKnows, TypeOK
  <2>9. QED
    BY <2>5, <2>6, <2>7, <2>8 DEF IInv, Knows
<1>4. ASSUME eval' = [eval EXCEPT ![e] = Over], UNCHANGED <<alerts, severe, missed, stale>>
      PROVE  IInv'
  <2>1. Over \in Evaluation /\ Over.pc = "done"
    BY Values DEF Over, NoEvaluation
  <2>2. QED
    BY <1>1, <1>2, <1>4, <2>1, ReadingInv DEF TypeOK
<1>5. QED
  BY <1>3, <1>4 DEF InsertAlert

\* The two links of a new incident change no alert's state.
LEMMA LinkInv ==
    ASSUME IInv, NEW e \in Evaluations, LinkAlerts(e) \/ LinkToIncident(e)
    PROVE  IInv'
<1>1. /\ TypeOK /\ Knows /\ eval[e] \in Evaluation
      /\ eval[e].alert \in Alerts /\ eval[e].incident \in Incidents
  BY DEF IInv, TypeOK, Knows, EvaluationKnows, LinkAlerts, LinkToIncident
<1>2. PICK i \in Incidents \cup {Null} : alerts' = [alerts EXCEPT ![eval[e].alert].incident = i]
  <2>1. CASE LinkAlerts(e)
    <3>1. alerts' = [alerts EXCEPT ![eval[e].alert].incident =
                       IF alerts[eval[e].alert].incident = Null
                       THEN eval[e].incident ELSE alerts[eval[e].alert].incident]
      BY <2>1 DEF LinkAlerts, Claimed
    <3>2. alerts[eval[e].alert].incident \in Incidents \cup {Null}
      BY <1>1 DEF TypeOK, Alert
    <3>3. QED
      BY <1>1, <3>1, <3>2
  <2>2. CASE LinkToIncident(e)
    BY <1>1, <2>2 DEF LinkToIncident
  <2>3. QED
    BY <2>1, <2>2
<1>3. /\ alerts' \in [Alerts -> Alert]
      /\ \A a \in Alerts : alerts'[a].state = alerts[a].state
  BY <1>1, <1>2 DEF TypeOK, Alert
<1>4. UNCHANGED <<opened, person, remediated, histories, stale>>
  BY DEF LinkAlerts, LinkToIncident
<1>5. PICK v \in Evaluation : /\ eval' = [eval EXCEPT ![e] = v]
                              /\ v.pc \in {"relink", "remediate", "done"}
                              /\ v.pc # "done" => v.alert = eval[e].alert
                              /\ v.pc = "relink" => v.incident = eval[e].incident
  <2>1. /\ [eval[e] EXCEPT !.pc = "relink"] \in Evaluation
        /\ [eval[e] EXCEPT !.pc = "remediate"] \in Evaluation
        /\ Over \in Evaluation /\ Over.pc = "done"
    BY <1>1, Values DEF Evaluation, Over, NoEvaluation
  <2>2. CASE LinkAlerts(e)
    <3>1. eval' = [eval EXCEPT ![e] = [eval[e] EXCEPT !.pc = "relink"]]
      BY <2>2 DEF LinkAlerts
    <3>2. QED
      BY <1>1, <2>1, <3>1 DEF Evaluation
  <2>3. CASE LinkToIncident(e)
    <3>1. \/ eval' = [eval EXCEPT ![e] = [eval[e] EXCEPT !.pc = "remediate"]]
          \/ eval' = [eval EXCEPT ![e] = Over]
      BY <2>3 DEF LinkToIncident
    <3>2. QED
      BY <1>1, <2>1, <3>1 DEF Evaluation
  <2>4. QED
    BY <2>2, <2>3
<1>6. TypeOK'
  BY <1>1, <1>3, <1>4, <1>5 DEF TypeOK, histories
<1>7. /\ OneFiring'
      /\ \A x \in Evaluations \ {e} : EvaluationKnows(x)'
      /\ \A p \in People : PersonKnows(p)'
  BY <1>1, <1>3, <1>4, <1>5, StatesKept DEF TypeOK
<1>8. EvaluationKnows(e)'
  BY <1>1, <1>5 DEF EvaluationKnows, TypeOK
<1>9. QED
  BY <1>6, <1>7, <1>8 DEF IInv, Knows

\* An evaluation that is cut off knows nothing any more.
LEMMA AbortEvaluationInv ==
    ASSUME IInv, NEW e \in Evaluations, AbortEvaluation(e)
    PROVE  IInv'
<1>1. TypeOK /\ OneFiring /\ Knows /\ eval[e] \in Evaluation
  BY DEF IInv, TypeOK
<1>2. /\ eval' = [eval EXCEPT ![e] = Over] /\ stale' = stale \ {e}
      /\ UNCHANGED <<alerts, opened, person, remediated, severe, raced, missed>>
      /\ cut' = cut \cup ({eval[e].alert} \ {Null})
  BY DEF AbortEvaluation
<1>3. Over \in Evaluation /\ Over.pc = "done"
  BY Values DEF Over, NoEvaluation
<1>4. TypeOK'
  BY <1>1, <1>2, <1>3 DEF TypeOK, Evaluation
<1>5. OneFiring'
  BY <1>1, <1>2 DEF OneFiring, Firing
<1>6. ASSUME NEW x \in Evaluations PROVE EvaluationKnows(x)'
  BY <1>1, <1>2, <1>3 DEF Knows, EvaluationKnows, TypeOK
<1>7. ASSUME NEW p \in People PROVE PersonKnows(p)'
  BY <1>1, <1>2, AlertsAssumption DEF Knows, PersonKnows
<1>8. QED
  BY <1>4, <1>5, <1>6, <1>7 DEF IInv, Knows

-----------------------------------------------------------------------------
(* The steps of people.                                                    *)

\* The row is read and checked.
LEMMA AskInv ==
    ASSUME IInv, NEW p \in People, NEW a \in Alerts, Acknowledge(p, a) \/ Resolve(p, a)
    PROVE  IInv'
<1>1. TypeOK /\ OneFiring /\ Knows
  BY DEF IInv
<1>2. PICK pc \in {"acknowledge", "resolve"} :
        /\ person' = [person EXCEPT ![p] = [pc |-> pc, alert |-> a]]
        /\ pc = "acknowledge" => alerts[a].state = "FIRING"
        /\ pc = "resolve" => alerts[a].state \in {"FIRING", "ACKNOWLEDGED"}
        /\ UNCHANGED <<alerts, opened, eval, remediated, histories, stale>>
  BY DEF Acknowledge, Resolve, Asks
<1>3. [pc |-> pc, alert |-> a] \in Person
  BY DEF Person
<1>4. TypeOK'
  BY <1>1, <1>2, <1>3 DEF TypeOK, histories
<1>5. /\ OneFiring'
      /\ \A e \in Evaluations : EvaluationKnows(e)'
      /\ \A q \in People \ {p} : PersonKnows(q)'
  BY <1>1, <1>2, StatesKept DEF TypeOK
<1>6. PersonKnows(p)'
  BY <1>1, <1>2 DEF PersonKnows, TypeOK
<1>7. QED
  BY <1>4, <1>5, <1>6 DEF IInv, Knows

\* The row is written, by its id alone.
LEMMA WriteStateInv ==
    ASSUME IInv, NEW p \in People, WriteState(p)
    PROVE  IInv'
<1>1. TypeOK /\ OneFiring /\ Knows /\ person[p] \in Person /\ PersonKnows(p)
  BY DEF IInv, TypeOK, Knows
<1> DEFINE a == person[p].alert
           to == IF person[p].pc = "acknowledge" THEN "ACKNOWLEDGED" ELSE "RESOLVED"
           row == [alerts[a] EXCEPT !.state = to]
<1>2. a \in Alerts
  BY <1>1 DEF WriteState, Person, PersonKnows
<1>3. row \in Alert /\ row.state # "FIRING"
  BY <1>1, <1>2 DEF TypeOK, Alert, AlertState
<1>4. /\ WriteAlert(p, a, row) /\ person' = [person EXCEPT ![p] = Gone]
      /\ UNCHANGED <<opened, eval, remediated, histories>>
  BY DEF WriteState
<1> HIDE DEF a, to, row
<1>5. TypeOK'
  BY <1>1, <1>2, <1>3, <1>4, Values DEF TypeOK, WriteAlert, Holding, histories
<1>6. OneFiring'
  BY <1>1, <1>2, <1>3, <1>4 DEF OneFiring, Firing, WriteAlert, TypeOK
<1>7. /\ \A e \in Evaluations : EvaluationKnows(e)'
      /\ \A q \in People \ {p} : PersonKnows(q)'
  BY <1>1, <1>2, <1>3, <1>4, OthersKnow, AlertsAssumption DEF TypeOK
<1>8. PersonKnows(p)'
  BY <1>1, <1>4 DEF PersonKnows, TypeOK, Gone
<1>9. QED
  BY <1>5, <1>6, <1>7, <1>8 DEF IInv, Knows

\* A request that is cut off knows nothing any more.
LEMMA AbortPersonInv ==
    ASSUME IInv, NEW p \in People, AbortPerson(p)
    PROVE  IInv'
<1>1. TypeOK /\ OneFiring /\ Knows
  BY DEF IInv
<1>2. /\ person' = [person EXCEPT ![p] = Gone] /\ stale' = stale \ {p}
      /\ UNCHANGED <<alerts, opened, eval, remediated, histories>>
  BY DEF AbortPerson
<1>3. TypeOK'
  BY <1>1, <1>2, Values DEF TypeOK, histories
<1>4. OneFiring'
  BY <1>1, <1>2 DEF OneFiring, Firing
<1>5. ASSUME NEW e \in Evaluations PROVE EvaluationKnows(e)'
  BY <1>1, <1>2, AlertsAssumption DEF Knows, EvaluationKnows
<1>6. ASSUME NEW q \in People PROVE PersonKnows(q)'
  BY <1>1, <1>2 DEF Knows, PersonKnows, TypeOK, Gone
<1>7. QED
  BY <1>3, <1>4, <1>5, <1>6 DEF IInv, Knows

\* Opening an incident by hand changes no alert's state.
LEMMA LinkByHandInv ==
    ASSUME IInv, NEW i \in Incidents, NEW a \in Alerts, LinkByHand(i, a)
    PROVE  IInv'
<1>1. TypeOK
  BY DEF IInv
<1>2. PICK j \in Incidents \cup {Null} : alerts' = [alerts EXCEPT ![a].incident = j]
  <2>1. alerts' = [alerts EXCEPT ![a].incident =
                     IF alerts[a].incident = Null THEN i ELSE alerts[a].incident]
    BY DEF LinkByHand, Claimed
  <2>2. alerts[a].incident \in Incidents \cup {Null}
    BY <1>1 DEF TypeOK, Alert
  <2>3. QED
    BY <2>1, <2>2
<1>3. /\ alerts' \in [Alerts -> Alert]
      /\ \A b \in Alerts : alerts'[b].state = alerts[b].state
  BY <1>1, <1>2 DEF TypeOK, Alert
<1>4. UNCHANGED <<eval, person, remediated, histories, stale>>
  BY DEF LinkByHand
<1>5. TypeOK'
  BY <1>1, <1>3, <1>4 DEF TypeOK, histories, LinkByHand
<1>6. QED
  BY <1>3, <1>4, <1>5, StatesKept DEF IInv, Knows

-----------------------------------------------------------------------------

\* Every step keeps the invariant.
LEMMA NextInv == IInv /\ [Next]_vars => IInv'
<1> SUFFICES ASSUME IInv, [Next]_vars PROVE IInv'
  OBVIOUS
<1>1. ASSUME NEW e \in Evaluations,
             \/ \E severity \in Severities \cup {Quiet}, remediates \in BOOLEAN :
                  StartEvaluation(e, severity, remediates)
             \/ EvaluationStep(e)
      PROVE  IInv'
  BY <1>1, QuietStepInv, EvaluationWriteInv, FindAgainInv, InsertAlertInv, LinkInv,
     AbortEvaluationInv DEF EvaluationStep
<1>2. ASSUME NEW p \in People, PersonStep(p) PROVE IInv'
  BY <1>2, AskInv, WriteStateInv, AbortPersonInv DEF PersonStep
<1>3. ASSUME NEW i \in Incidents, NEW a \in Alerts, LinkByHand(i, a) PROVE IInv'
  BY <1>3, LinkByHandInv
<1>4. CASE UNCHANGED vars
  BY <1>4 DEF vars, histories, IInv, TypeOK, OneFiring, Firing, Knows, EvaluationKnows, PersonKnows
<1>5. QED
  BY <1>1, <1>2, <1>3, <1>4 DEF Next

LEMMA Invariance == Spec => []IInv
  BY InitInv, NextInv, PTL DEF Spec

\* The alerts, the processes and the histories keep their types: no
\* interleaving makes an evaluation write a row it does not have.
THEOREM TypeCorrect == Spec => []TypeOK
<1>1. IInv => TypeOK
  BY DEF IInv
<1>2. QED
  BY <1>1, Invariance, PTL

\* However many evaluations overlap, the rule has one alert firing at most
\* (alerts.repository.ts, fireOrUpdate).
THEOREM OneFiringHolds == Spec => []OneFiring
<1>1. IInv => OneFiring
  BY DEF IInv
<1>2. QED
  BY <1>1, Invariance, PTL

-----------------------------------------------------------------------------

\* What one step may do to an alert.
Legal(a) ==
    \/ alerts'[a].state = alerts[a].state /\
         (alerts'[a].severity # alerts[a].severity => alerts[a].state = "FIRING")
    \/ <<alerts[a].state, alerts'[a].state>> \in AlertTransitions
    \/ \E p \in stale : p \in Holding(a)

\* A step that leaves the row but for its incident is legal.
LEMMA UntouchedIsLegal ==
    ASSUME NEW a \in Alerts, alerts'[a].state = alerts[a].state,
           alerts'[a].severity = alerts[a].severity
    PROVE  Legal(a)
  BY DEF Legal

\* A write by a process that holds the row and is not stale makes a legal move.
LEMMA WritesAreLegal ==
    ASSUME IInv, NEW a \in Alerts,
           \/ \E e \in Evaluations : AutoResolve(e) \/ UpdateSeverity(e) \/ InsertAlert(e)
           \/ \E p \in People : WriteState(p)
    PROVE  Legal(a)
<1>1. TypeOK /\ Knows
  BY DEF IInv
<1>2. ASSUME NEW e \in Evaluations, AutoResolve(e) PROVE Legal(a)
  <2>1. /\ EvaluationKnows(e) /\ eval[e].pc = "resolve"
        /\ alerts' = [alerts EXCEPT ![eval[e].found] =
                        [alerts[eval[e].found] EXCEPT !.state = "RESOLVED"]]
    BY <1>1, <1>2 DEF Knows, AutoResolve, WriteAlert
  <2>2. CASE a # eval[e].found
    BY <1>1, <2>1, <2>2, UntouchedIsLegal DEF TypeOK
  <2>3. CASE a = eval[e].found /\ e \in stale
    BY <2>1, <2>3 DEF Legal, Holding
  <2>4. CASE a = eval[e].found /\ e \notin stale
    BY <1>1, <2>1, <2>4 DEF Legal, EvaluationKnows, AlertTransitions, TypeOK, Alert
  <2>5. QED
    BY <2>2, <2>3, <2>4
<1>3. ASSUME NEW e \in Evaluations, UpdateSeverity(e) PROVE Legal(a)
  <2>1. /\ EvaluationKnows(e) /\ eval[e].pc = "update"
        /\ alerts' = [alerts EXCEPT ![eval[e].alert] =
                        [alerts[eval[e].alert] EXCEPT !.severity = eval[e].severity]]
    BY <1>1, <1>3 DEF Knows, UpdateSeverity, WriteAlert
  <2>2. CASE a # eval[e].alert
    BY <1>1, <2>1, <2>2, UntouchedIsLegal DEF TypeOK
  <2>3. CASE a = eval[e].alert /\ e \in stale
    BY <2>1, <2>3 DEF Legal, Holding
  <2>4. CASE a = eval[e].alert /\ e \notin stale
    BY <1>1, <2>1, <2>4 DEF Legal, EvaluationKnows, TypeOK, Alert
  <2>5. QED
    BY <2>2, <2>3, <2>4
<1>4. ASSUME NEW e \in Evaluations, InsertAlert(e) PROVE Legal(a)
  <2>1. CASE UNCHANGED alerts
    BY <2>1, UntouchedIsLegal
  <2>2. ASSUME NEW b \in Alerts, NewAlert(b), InsertRow(e, b) PROVE Legal(a)
    <3>1. alerts' = [alerts EXCEPT ![b] =
                       [NoAlert EXCEPT !.state = "FIRING", !.severity = eval[e].severity]]
      BY <2>2 DEF InsertRow, WriteAlert
    <3>2. CASE a # b
      BY <1>1, <3>1, <3>2, UntouchedIsLegal DEF TypeOK
    <3>3. CASE a = b
      BY <1>1, <2>2, <3>1, <3>3 DEF Legal, NewAlert, AlertTransitions, NoAlert, TypeOK
    <3>4. QED
      BY <3>2, <3>3
  <2>3. QED
    BY <1>4, <2>1, <2>2 DEF InsertAlert
<1>5. ASSUME NEW p \in People, WriteState(p) PROVE Legal(a)
  <2> DEFINE to == IF person[p].pc = "acknowledge" THEN "ACKNOWLEDGED" ELSE "RESOLVED"
  <2>1. /\ PersonKnows(p) /\ person[p].pc \in {"acknowledge", "resolve"}
        /\ alerts' = [alerts EXCEPT ![person[p].alert] =
                        [alerts[person[p].alert] EXCEPT !.state = to]]
    BY <1>1, <1>5 DEF Knows, WriteState, WriteAlert, TypeOK, Person
  <2>2. CASE a # person[p].alert
    BY <1>1, <2>1, <2>2, UntouchedIsLegal DEF TypeOK
  <2>3. CASE a = person[p].alert /\ p \in stale
    BY <2>1, <2>3 DEF Legal, Holding
  <2>4. CASE a = person[p].alert /\ p \notin stale
    BY <1>1, <2>1, <2>4 DEF Legal, PersonKnows, AlertTransitions, TypeOK, Alert
  <2>5. QED
    BY <2>2, <2>3, <2>4
<1>6. QED
  BY <1>2, <1>3, <1>4, <1>5

\* Only a write over a row that was written meanwhile revives an alert.
THEOREM RevivedOnlyByStale == Spec => OnlyStaleWritesReviveAlerts
<1>1. ASSUME IInv, [Next]_vars, NEW a \in Alerts PROVE Legal(a)
  <2>1. TypeOK
    BY <1>1 DEF IInv
  <2>2. CASE UNCHANGED alerts
    BY <2>2, UntouchedIsLegal
  <2>3. ASSUME NEW e \in Evaluations, EvaluationStep(e) PROVE Legal(a)
    <3>1. CASE AutoResolve(e) \/ UpdateSeverity(e) \/ InsertAlert(e)
      BY <1>1, <3>1, WritesAreLegal
    <3>2. CASE LinkAlerts(e) \/ LinkToIncident(e)
      BY SMTT(30), <2>1, <3>2, UntouchedIsLegal DEF LinkAlerts, LinkToIncident, Claimed, TypeOK, Alert
    <3>3. QED
      BY <2>2, <2>3, <3>1, <3>2 DEF EvaluationStep, FindFiring, FindAgain, AuditFired,
         OpenIncident, TriggerRemediation, AbortEvaluation
  <2>4. ASSUME NEW p \in People, PersonStep(p) PROVE Legal(a)
    BY <1>1, <2>2, <2>4, WritesAreLegal DEF PersonStep, Acknowledge, Resolve, Asks, AbortPerson
  <2>5. ASSUME NEW i \in Incidents, NEW b \in Alerts, LinkByHand(i, b) PROVE Legal(a)
    BY <2>1, <2>5, UntouchedIsLegal DEF LinkByHand, Claimed, TypeOK, Alert
  <2>6. QED
    BY <1>1, <2>2, <2>3, <2>4, <2>5 DEF Next, StartEvaluation, vars
<1>2. IInv /\ [Next]_vars => [\A a \in Alerts : Legal(a)]_vars
  BY <1>1
<1>3. QED
  BY <1>2, Invariance, PTL DEF Spec, OnlyStaleWritesReviveAlerts, Legal

-----------------------------------------------------------------------------
(* The incident of a severe alert: somebody is always about to open it.    *)

\* Evaluation e is on its way to giving alert a its incident.
Responds(e, a) ==
    LET v == eval[e] IN
    /\ v.alert = a
    /\ \/ v.pc \in {"open", "link", "relink"}
       \/ v.pc = "fired" /\ OpensIncident(v)

Attended ==
    \A a \in severe :
      /\ alerts[a].state # "NONE"
      /\ a \notin cut \cup missed =>
           alerts[a].incident # Null \/ \E e \in Evaluations : Responds(e, a)

\* A row that exists stays, and keeps an incident if it has one.
LEMMA RowsStay ==
    ASSUME IInv, [Next]_vars, NEW a \in Alerts, alerts[a].state # "NONE"
    PROVE  /\ alerts'[a].state # "NONE"
           /\ alerts[a].incident # Null => alerts'[a].incident # Null
<1>1. TypeOK /\ Knows
  BY DEF IInv
<1>2. CASE UNCHANGED alerts
  BY <1>2
<1>3. ASSUME NEW e \in Evaluations, EvaluationStep(e)
      PROVE  /\ alerts'[a].state # "NONE"
             /\ alerts[a].incident # Null => alerts'[a].incident # Null
  <2>1. CASE AutoResolve(e)
    BY <1>1, <2>1 DEF AutoResolve, WriteAlert, TypeOK, Alert
  <2>2. CASE UpdateSeverity(e)
    BY <1>1, <2>2 DEF UpdateSeverity, WriteAlert, TypeOK, Alert
  <2>3. CASE InsertAlert(e)
    BY <1>1, <1>2, <2>3 DEF InsertAlert, InsertRow, NewAlert, WriteAlert, TypeOK
  <2>4. CASE LinkAlerts(e) \/ LinkToIncident(e)
    <3>1. eval[e].incident \in Incidents
      BY <1>1, <2>4 DEF Knows, EvaluationKnows, LinkAlerts, LinkToIncident
    <3>2. QED
      BY <1>1, <2>4, <3>1, AlertsAssumption
         DEF LinkAlerts, LinkToIncident, Claimed, TypeOK, Alert
  <2>5. QED
    BY <1>2, <1>3, <2>1, <2>2, <2>3, <2>4 DEF EvaluationStep, FindFiring, FindAgain,
       AuditFired, OpenIncident, TriggerRemediation, AbortEvaluation
<1>4. ASSUME NEW p \in People, PersonStep(p)
      PROVE  /\ alerts'[a].state # "NONE"
             /\ alerts[a].incident # Null => alerts'[a].incident # Null
  <2>1. CASE WriteState(p)
    BY <1>1, <2>1 DEF WriteState, WriteAlert, TypeOK, Alert
  <2>2. QED
    BY <1>2, <1>4, <2>1 DEF PersonStep, Acknowledge, Resolve, Asks, AbortPerson
<1>5. ASSUME NEW i \in Incidents, NEW b \in Alerts, LinkByHand(i, b)
      PROVE  /\ alerts'[a].state # "NONE"
             /\ alerts[a].incident # Null => alerts'[a].incident # Null
  BY <1>1, <1>5, AlertsAssumption DEF LinkByHand, Claimed, TypeOK, Alert
<1>6. QED
  BY <1>2, <1>3, <1>4, <1>5 DEF Next, StartEvaluation, vars

\* An evaluation on its way goes on, gets there, or is cut off.
LEMMA ResponseGoesOn ==
    ASSUME IInv, [Next]_vars, NEW e \in Evaluations, NEW a \in Alerts, Responds(e, a),
           a \notin cut'
    PROVE  Responds(e, a)' \/ alerts'[a].incident # Null
<1>1. /\ TypeOK /\ EvaluationKnows(e) /\ eval[e].alert = a
      /\ eval[e].pc \in {"open", "link", "relink", "fired"}
  BY DEF IInv, Knows, Responds
<1>2. CASE eval'[e] = eval[e]
  BY <1>2 DEF Responds, OpensIncident
<1>3. CASE EvaluationStep(e)
  <2>1. CASE AuditFired(e)
    <3>1. eval' = [eval EXCEPT ![e] = Rest(eval[e], "open")]
      BY <2>1 DEF AuditFired, Decided, Responds
    <3>2. Rest(eval[e], "open").pc = "open" /\ Rest(eval[e], "open").alert = a
      BY <1>1, RestIsEvaluation
    <3>3. QED
      BY <1>1, <3>1, <3>2 DEF Responds, TypeOK
  <2>2. CASE OpenIncident(e)
    BY <1>1, <2>2 DEF OpenIncident, Responds, TypeOK, Evaluation
  <2>3. CASE LinkAlerts(e)
    <3>1. eval[e].incident \in Incidents
      BY <1>1, <2>3 DEF EvaluationKnows, LinkAlerts
    <3>2. QED
      BY <1>1, <2>3, <3>1, AlertsAssumption DEF LinkAlerts, Claimed, TypeOK, Alert
  <2>4. CASE LinkToIncident(e)
    <3>1. eval[e].incident \in Incidents
      BY <1>1, <2>4 DEF EvaluationKnows, LinkToIncident
    <3>2. QED
      BY <1>1, <2>4, <3>1, AlertsAssumption DEF LinkToIncident, TypeOK, Alert
  <2>5. CASE AbortEvaluation(e)
    BY <1>1, <2>5, AlertsAssumption DEF AbortEvaluation
  <2>6. QED
    BY <1>1, <1>3, <2>1, <2>2, <2>3, <2>4, <2>5 DEF EvaluationStep, FindFiring, AutoResolve,
       FindAgain, UpdateSeverity, InsertAlert, TriggerRemediation
<1>4. ASSUME NEW x \in Evaluations, x # e, EvaluationStep(x) PROVE eval'[e] = eval[e]
  BY <1>1, <1>4 DEF EvaluationStep, FindFiring, AutoResolve, FindAgain, Fires, UpdateSeverity,
     InsertAlert, InsertRow, AuditFired, OpenIncident, LinkAlerts, LinkToIncident,
     TriggerRemediation, AbortEvaluation, TypeOK
<1>5. ASSUME NEW x \in Evaluations, NEW severity \in Severities \cup {Quiet},
             NEW remediates \in BOOLEAN, StartEvaluation(x, severity, remediates)
      PROVE  eval'[e] = eval[e]
  BY <1>1, <1>5 DEF StartEvaluation, TypeOK
<1>6. CASE UNCHANGED eval
  BY <1>2, <1>6
<1>7. QED
  BY <1>2, <1>3, <1>4, <1>5, <1>6 DEF Next, PersonStep, Acknowledge, Resolve, Asks, WriteState,
     AbortPerson, LinkByHand, vars

\* A new severe alert is attended by the evaluation that fired it.
LEMMA NewAlertIsAttended ==
    ASSUME IInv, NEW e \in Evaluations, InsertAlert(e), NEW a \in severe' \ severe,
           a \notin missed'
    PROVE  alerts'[a].state # "NONE" /\ Responds(e, a)'
<1>1. TypeOK /\ eval[e] \in Evaluation
  BY DEF IInv, TypeOK
<1>2. PICK b \in Alerts : InsertRow(e, b)
  BY DEF InsertAlert
<1>3. a = b /\ eval[e].severity \in AutoIncidentSeverities /\ eval[e].found = Null
  BY <1>2 DEF InsertRow
<1>4. /\ alerts' = [alerts EXCEPT ![a] =
                      [NoAlert EXCEPT !.state = "FIRING", !.severity = eval[e].severity]]
      /\ eval' = [eval EXCEPT ![e] = [eval[e] EXCEPT !.pc = "fired", !.alert = a,
                                                     !.linked = FALSE]]
  BY <1>2, <1>3 DEF InsertRow, WriteAlert, Fires
<1>5. alerts'[a].state = "FIRING"
  BY <1>1, <1>2, <1>3, <1>4 DEF TypeOK, NoAlert
<1>6. QED
  BY <1>1, <1>3, <1>4, <1>5 DEF Responds, OpensIncident, TypeOK, Evaluation

LEMMA AttendedStep == IInv /\ Attended /\ [Next]_vars => Attended'
<1> SUFFICES ASSUME IInv, Attended, [Next]_vars, NEW a \in severe'
             PROVE  /\ alerts'[a].state # "NONE"
                    /\ a \notin (cut \cup missed)' =>
                         alerts'[a].incident # Null \/ \E e \in Evaluations : Responds(e, a)'
  BY DEF Attended
<1>1. TypeOK
  BY DEF IInv
<1>2. cut \subseteq cut' /\ missed \subseteq missed'
  BY DEF Next, EvaluationStep, PersonStep, StartEvaluation, FindFiring, AutoResolve, FindAgain,
     UpdateSeverity, InsertAlert, InsertRow, AuditFired, OpenIncident, LinkAlerts,
     LinkToIncident, TriggerRemediation, AbortEvaluation, Acknowledge, Resolve, Asks,
     WriteState, AbortPerson, LinkByHand, histories, vars
<1>3. CASE a \in severe
  <2>1. a \in Alerts /\ alerts[a].state # "NONE"
    BY <1>1, <1>3 DEF Attended, TypeOK
  <2>2. QED
    BY <1>2, <1>3, <2>1, RowsStay, ResponseGoesOn DEF Attended
<1>4. CASE a \notin severe
  <2>1. PICK e \in Evaluations : InsertAlert(e)
    BY <1>4 DEF Next, EvaluationStep, PersonStep, StartEvaluation, FindFiring, AutoResolve,
       FindAgain, UpdateSeverity, AuditFired, OpenIncident, LinkAlerts, LinkToIncident,
       TriggerRemediation, AbortEvaluation, Acknowledge, Resolve, Asks, WriteState,
       AbortPerson, LinkByHand, histories, vars
  <2>2. a \in Alerts /\ alerts'[a].state # "NONE"
    <3>1. PICK b \in Alerts : InsertRow(e, b)
      BY <1>4, <2>1 DEF InsertAlert
    <3>2. a = b
      BY <1>4, <3>1 DEF InsertRow
    <3>3. QED
      BY <1>1, <3>1, <3>2 DEF InsertRow, WriteAlert, NoAlert, TypeOK
  <2>3. QED
    BY <1>4, <2>1, <2>2, NewAlertIsAttended
<1>5. QED
  BY <1>3, <1>4

\* Two overlapping evaluations never each leave the incident of a P1 or P2 to
\* the other: an alert first fired as one has its incident in the end, unless
\* its evaluation was cut off or had still seen its predecessor.
THEOREM SevereAlertHasIncidentHolds == Spec => []SevereAlertHasIncident
<1>1. Init => Attended
  BY DEF Init, Attended
<1>2. Attended => SevereAlertHasIncident
  BY DEF Attended, SevereAlertHasIncident, Responds
<1>3. QED
  BY <1>1, <1>2, AttendedStep, Invariance, PTL DEF Spec

-----------------------------------------------------------------------------
(* One response per alert: at most one evaluation is working on it, and    *)
(* what that one has still to do has not been done.                        *)

Working(e, a) ==
    LET v == eval[e] IN
    /\ v.alert = a
    /\ \/ v.pc = "fired" /\ v.found = Null
       \/ v.pc \in {"open", "link", "relink", "remediate"}

Single(a) ==
    /\ alerts[a].state = "NONE" =>
         /\ \A e \in Evaluations : eval[e].alert # a
         /\ \A i \in Incidents : opened[i] # a
         /\ remediated[a] = 0
    /\ \A e \in Evaluations :
         eval[e].pc = "update" /\ eval[e].alert = a /\ eval[e].found = Null => a \in raced
    /\ a \notin raced =>
         /\ \A e, x \in Evaluations : Working(e, a) /\ Working(x, a) => e = x
         /\ \A e \in Evaluations : Working(e, a) =>
              /\ remediated[a] = 0
              /\ eval[e].pc \in {"fired", "open"} => \A i \in Incidents : opened[i] # a
         /\ \A i, j \in Incidents : opened[i] = a /\ opened[j] = a => i = j
         /\ remediated[a] <= 1

\* A step of one evaluation that opens no incident for alert a, triggers no
\* remediation of it and brings the evaluation no nearer to either.
LEMMA MoveKeepsSingle ==
    ASSUME NEW a \in Alerts, Single(a), NEW e \in Evaluations, NEW v,
           DOMAIN eval = Evaluations, eval' = [eval EXCEPT ![e] = v],
           \A i \in Incidents : opened'[i] = a => opened[i] = a,
           remediated'[a] = remediated[a],
           raced \subseteq raced',
           alerts[a].state # "NONE" => alerts'[a].state # "NONE",
           v.alert = a => alerts'[a].state # "NONE",
           v.pc = "update" /\ v.alert = a /\ v.found = Null => a \in raced',
           a \notin raced' /\ Working(e, a)' =>
             Working(e, a) /\ (v.pc \in {"fired", "open"} => eval[e].pc \in {"fired", "open"})
    PROVE  Single(a)'
<1>1. eval'[e] = v /\ \A x \in Evaluations \ {e} : eval'[x] = eval[x]
  OBVIOUS
<1>2. \A x \in Evaluations \ {e} : Working(x, a)' <=> Working(x, a)
  BY <1>1 DEF Working
<1>3. alerts'[a].state = "NONE" => /\ \A x \in Evaluations : eval'[x].alert # a
                                   /\ \A i \in Incidents : opened'[i] # a
                                   /\ remediated'[a] = 0
  BY <1>1 DEF Single
<1>4. ASSUME NEW x \in Evaluations, eval'[x].pc = "update", eval'[x].alert = a,
             eval'[x].found = Null
      PROVE  a \in raced'
  BY <1>1, <1>4 DEF Single
<1>5. ASSUME a \notin raced' PROVE
         /\ \A x, y \in Evaluations : Working(x, a)' /\ Working(y, a)' => x = y
         /\ \A x \in Evaluations : Working(x, a)' =>
              /\ remediated'[a] = 0
              /\ eval'[x].pc \in {"fired", "open"} => \A i \in Incidents : opened'[i] # a
         /\ \A i, j \in Incidents : opened'[i] = a /\ opened'[j] = a => i = j
         /\ remediated'[a] <= 1
  <2>1. a \notin raced
    BY <1>5
  <2>2. \A x \in Evaluations : Working(x, a)' =>
           Working(x, a) /\ (eval'[x].pc \in {"fired", "open"} => eval[x].pc \in {"fired", "open"})
    BY <1>1, <1>2, <1>5
  <2>3. QED
    BY <2>1, <2>2 DEF Single
<1>6. QED
  BY <1>3, <1>4, <1>5 DEF Single

\* A step that leaves all evaluations alone.
LEMMA StillIsSingle ==
    ASSUME NEW a \in Alerts, Single(a), UNCHANGED <<eval, remediated, raced>>,
           \A i \in Incidents : opened'[i] = a => opened[i] = a,
           alerts[a].state # "NONE" => alerts'[a].state # "NONE"
    PROVE  Single(a)'
  BY DEF Single, Working

\* The steps of an evaluation but the three that respond.
LEMMA OtherStepsKeepSingle ==
    ASSUME IInv, [Next]_vars, NEW a \in Alerts, Single(a), NEW e \in Evaluations,
           \/ \E severity \in Severities \cup {Quiet}, remediates \in BOOLEAN :
                StartEvaluation(e, severity, remediates)
           \/ FindFiring(e) \/ AutoResolve(e) \/ FindAgain(e) \/ UpdateSeverity(e)
           \/ AuditFired(e) \/ LinkAlerts(e) \/ LinkToIncident(e) \/ AbortEvaluation(e)
    PROVE  Single(a)'
<1>1. /\ TypeOK /\ EvaluationKnows(e) /\ eval[e] \in Evaluation /\ DOMAIN eval = Evaluations
      /\ eval[e].alert = a => alerts[a].state # "NONE"
      /\ alerts[a].state # "NONE" => alerts'[a].state # "NONE"
  BY RowsStay DEF IInv, TypeOK, Knows, Single
<1>2. Null # a /\ Over.pc = "done" /\ Over.alert = Null
  BY AlertsAssumption DEF Over, NoEvaluation
<1>3. ASSUME NEW severity \in Severities \cup {Quiet}, NEW remediates \in BOOLEAN,
             StartEvaluation(e, severity, remediates)
      PROVE  Single(a)'
  <2> DEFINE v == [NoEvaluation EXCEPT !.pc = "find", !.severity = severity,
                                       !.remediates = remediates]
  <2>1. v.pc = "find" /\ v.alert = Null
    BY DEF NoEvaluation
  <2>2. eval' = [eval EXCEPT ![e] = v] /\ UNCHANGED <<opened, remediated, raced>>
    BY <1>3 DEF StartEvaluation, histories
  <2> HIDE DEF v
  <2>3. QED
    BY <1>1, <1>2, <2>1, <2>2, MoveKeepsSingle DEF Working
<1>4. ASSUME NEW v, eval' = [eval EXCEPT ![e] = v], v.alert = Null \/ v.alert = eval[e].alert,
             v.pc \in {"find", "refind", "resolve", "insert", "done"},
             UNCHANGED <<opened, remediated, raced>>
      PROVE  Single(a)'
  BY <1>1, <1>2, <1>4, MoveKeepsSingle DEF Working
<1>5. CASE FindFiring(e)
  <2>1. PICK found \in Alerts \cup {Null} :
          eval' = [eval EXCEPT ![e] =
            IF eval[e].severity # Quiet THEN [eval[e] EXCEPT !.found = found, !.pc = "refind"]
            ELSE IF found # Null THEN [eval[e] EXCEPT !.found = found, !.pc = "resolve"]
            ELSE Over]
    BY <1>5 DEF FindFiring
  <2>2. \E v : /\ eval' = [eval EXCEPT ![e] = v]
               /\ v.alert = Null \/ v.alert = eval[e].alert
               /\ v.pc \in {"refind", "resolve", "done"}
    <3>1. /\ [eval[e] EXCEPT !.found = found, !.pc = "refind"].pc = "refind"
          /\ [eval[e] EXCEPT !.found = found, !.pc = "refind"].alert = eval[e].alert
          /\ [eval[e] EXCEPT !.found = found, !.pc = "resolve"].pc = "resolve"
          /\ [eval[e] EXCEPT !.found = found, !.pc = "resolve"].alert = eval[e].alert
      BY <1>1 DEF Evaluation
    <3>2. QED
      BY <1>2, <2>1, <3>1
  <2>3. QED
    BY <1>4, <1>5, <2>2 DEF FindFiring, histories
<1>6. CASE AutoResolve(e)
  BY <1>2, <1>4, <1>6 DEF AutoResolve, histories
<1>7. CASE AbortEvaluation(e)
  BY <1>2, <1>4, <1>7 DEF AbortEvaluation
<1>8. CASE FindAgain(e)
  <2>1. CASE eval' = [eval EXCEPT ![e] = [eval[e] EXCEPT !.pc = "insert"]] /\ UNCHANGED raced
    <3>1. [eval[e] EXCEPT !.pc = "insert"].pc = "insert"
          /\ [eval[e] EXCEPT !.pc = "insert"].alert = eval[e].alert
      BY <1>1 DEF Evaluation
    <3>2. QED
      BY <1>4, <1>8, <2>1, <3>1 DEF FindAgain
  <2>2. ASSUME NEW b \in Firing, Races(e, b),
               \/ Fires(e, b, alerts[b].incident # Null)
               \/ eval' = [eval EXCEPT ![e].pc = "update", ![e].alert = b]
        PROVE  Single(a)'
    <3>1. PICK v : /\ eval' = [eval EXCEPT ![e] = v]
                   /\ v.pc \in {"fired", "update"} /\ v.alert = b /\ v.found = eval[e].found
      <4> DEFINE linked == alerts[b].incident # Null
                 v1 == [eval[e] EXCEPT !.pc = "fired", !.alert = b, !.linked = linked]
                 v2 == [eval[e] EXCEPT !.pc = "update", !.alert = b]
      <4>1. eval' = [eval EXCEPT ![e] = v1] \/ eval' = [eval EXCEPT ![e] = v2]
        BY <2>2 DEF Fires
      <4> HIDE DEF linked
      <4>2. /\ v1.pc = "fired" /\ v1.alert = b /\ v1.found = eval[e].found
            /\ v2.pc = "update" /\ v2.alert = b /\ v2.found = eval[e].found
        BY <1>1 DEF Evaluation
      <4> HIDE DEF v1, v2
      <4>3. QED
        BY <4>1, <4>2
    <3>2. UNCHANGED <<alerts, opened, remediated>> /\ alerts[b].state = "FIRING"
      BY <1>8, <2>2 DEF FindAgain, Firing
    <3>3. raced \subseteq raced' /\ (v.found = Null => b \in raced')
      BY <2>2, <3>1 DEF Races
    <3>4. a \notin raced' => ~Working(e, a)'
      BY <1>1, <3>1, <3>3 DEF Working
    <3>5. QED
      BY <1>1, <3>1, <3>2, <3>3, <3>4, MoveKeepsSingle
  <2>3. QED
    BY <1>8, <2>1, <2>2 DEF FindAgain
<1>9. CASE UpdateSeverity(e)
  <2> DEFINE linked == alerts[eval[e].alert].incident # Null
             v == [eval[e] EXCEPT !.pc = "fired", !.alert = eval[e].alert, !.linked = linked]
  <2>1. eval' = [eval EXCEPT ![e] = v] /\ UNCHANGED <<opened, remediated, raced>>
    BY <1>9 DEF UpdateSeverity, Fires, histories
  <2> HIDE DEF linked
  <2>2. v.pc = "fired" /\ v.alert = eval[e].alert /\ v.found = eval[e].found
    BY <1>1 DEF Evaluation
  <2> HIDE DEF v
  <2>3. v.alert = a /\ v.found = Null => a \in raced
    BY <1>9, <2>2 DEF UpdateSeverity, Single
  <2>4. a \notin raced' => ~Working(e, a)'
    BY <1>1, <2>1, <2>2, <2>3 DEF Working
  <2>5. QED
    BY <1>1, <2>1, <2>2, <2>4, MoveKeepsSingle
<1>10. CASE AuditFired(e)
  <2>1. eval' = [eval EXCEPT ![e] = Decided(eval[e])] /\ UNCHANGED <<opened, remediated, raced>>
        /\ eval[e].pc = "fired"
    BY <1>10 DEF AuditFired, histories
  <2>2. CASE Decided(eval[e]) = Over
    BY <1>2, <1>4, <2>1, <2>2
  <2>3. CASE Decided(eval[e]) # Over
    <3>1. PICK pc \in {"open", "remediate"} : Decided(eval[e]) = Rest(eval[e], pc)
      BY <2>3 DEF Decided
    <3>2. eval[e].found = Null /\ eval[e].alert \in Alerts
      BY <1>1, <2>1, <2>3 DEF Decided, OpensIncident, Remediates, EvaluationKnows
    <3>3. Rest(eval[e], pc).pc = pc /\ Rest(eval[e], pc).alert = eval[e].alert
      BY <3>2, RestIsEvaluation
    <3>4. Working(e, a)' => Working(e, a)
      BY <1>1, <2>1, <3>1, <3>2, <3>3 DEF Working
    <3>5. QED
      BY <1>1, <2>1, <3>1, <3>3, <3>4, MoveKeepsSingle
  <2>4. QED
    BY <2>2, <2>3
<1>11. CASE LinkAlerts(e) \/ LinkToIncident(e)
  <2>1. UNCHANGED <<opened, remediated, raced>> /\ eval[e].pc \in {"link", "relink"}
    BY <1>11 DEF LinkAlerts, LinkToIncident, histories
  <2>2. PICK v : /\ eval' = [eval EXCEPT ![e] = v]
                 /\ v.pc \in {"relink", "remediate", "done"}
                 /\ v.alert = Null \/ v.alert = eval[e].alert
                 /\ v.pc # "done" => v.alert = eval[e].alert
    <3>1. /\ [eval[e] EXCEPT !.pc = "relink"].pc = "relink"
          /\ [eval[e] EXCEPT !.pc = "relink"].alert = eval[e].alert
          /\ [eval[e] EXCEPT !.pc = "remediate"].pc = "remediate"
          /\ [eval[e] EXCEPT !.pc = "remediate"].alert = eval[e].alert
      BY <1>1 DEF Evaluation
    <3>2. \/ eval' = [eval EXCEPT ![e] = [eval[e] EXCEPT !.pc = "relink"]]
          \/ eval' = [eval EXCEPT ![e] = [eval[e] EXCEPT !.pc = "remediate"]]
          \/ eval' = [eval EXCEPT ![e] = Over]
      BY <1>11 DEF LinkAlerts, LinkToIncident
    <3>3. QED
      BY <1>2, <3>1, <3>2
  <2>3. Working(e, a)' => Working(e, a)
    BY <1>1, <2>1, <2>2 DEF Working
  <2>4. QED
    BY <1>1, <1>2, <2>1, <2>2, <2>3, MoveKeepsSingle
<1>12. QED
  BY <1>3, <1>5, <1>6, <1>7, <1>8, <1>9, <1>10, <1>11

\* A new alert: nobody has worked on its row before.
LEMMA InsertKeepsSingle ==
    ASSUME IInv, [Next]_vars, NEW a \in Alerts, Single(a), NEW e \in Evaluations,
           InsertAlert(e)
    PROVE  Single(a)'
<1>1. /\ TypeOK /\ eval[e] \in Evaluation /\ DOMAIN eval = Evaluations
      /\ eval[e].alert = a => alerts[a].state # "NONE"
      /\ alerts[a].state # "NONE" => alerts'[a].state # "NONE"
      /\ UNCHANGED <<opened, remediated, raced>>
  BY RowsStay DEF IInv, TypeOK, Single, InsertAlert
<1>2. Null # a /\ Over.pc = "done" /\ Over.alert = Null
  BY AlertsAssumption DEF Over, NoEvaluation
<1>3. CASE eval' = [eval EXCEPT ![e] = Over]
  BY <1>1, <1>2, <1>3, MoveKeepsSingle DEF Working
<1>4. ASSUME NEW b \in Alerts, NewAlert(b), InsertRow(e, b) PROVE Single(a)'
  <2> DEFINE v == [eval[e] EXCEPT !.pc = "fired", !.alert = b, !.linked = FALSE]
  <2>1. v.pc = "fired" /\ v.alert = b /\ eval' = [eval EXCEPT ![e] = v]
    BY <1>1, <1>4 DEF InsertRow, Fires, Evaluation
  <2> HIDE DEF v
  <2>2. CASE a # b
    BY <1>1, <2>1, <2>2, MoveKeepsSingle DEF Working
  <2>3. CASE a = b
    <3>1. /\ \A x \in Evaluations : eval[x].alert # a
          /\ \A i \in Incidents : opened'[i] # a
          /\ remediated'[a] = 0
      BY <1>1, <1>4, <2>3 DEF Single, NewAlert
    <3>2. alerts'[a].state # "NONE"
      BY <1>1, <1>4, <2>3 DEF InsertRow, WriteAlert, NoAlert, TypeOK
    <3>3. eval'[e] = v /\ \A x \in Evaluations : x # e => eval'[x].alert # a
      BY <1>1, <2>1, <3>1
    <3>4. QED
      BY <2>1, <3>1, <3>2, <3>3 DEF Single, Working
  <2>4. QED
    BY <2>2, <2>3
<1>5. QED
  BY <1>3, <1>4 DEF InsertAlert

\* The incident is opened by the one evaluation that works on the alert, while
\* it has none; the remediation is run at the very end.
LEMMA ResponseKeepsSingle ==
    ASSUME IInv, [Next]_vars, NEW a \in Alerts, Single(a), NEW e \in Evaluations,
           OpenIncident(e) \/ TriggerRemediation(e)
    PROVE  Single(a)'
<1>1. /\ TypeOK /\ eval[e] \in Evaluation /\ DOMAIN eval = Evaluations
      /\ eval[e].alert = a => alerts[a].state # "NONE"
      /\ UNCHANGED <<alerts, raced>>
  BY DEF IInv, TypeOK, Single, OpenIncident, TriggerRemediation, histories
<1>2. Null # a /\ Over.pc = "done" /\ Over.alert = Null
  BY AlertsAssumption DEF Over, NoEvaluation
<1>3. ASSUME OpenIncident(e) PROVE Single(a)'
  <2>1. PICK i \in Incidents : /\ opened' = [opened EXCEPT ![i] = eval[e].alert]
                               /\ eval' = [eval EXCEPT ![e] =
                                             [eval[e] EXCEPT !.pc = "link", !.incident = i]]
    BY <1>3 DEF OpenIncident
  <2> DEFINE v == [eval[e] EXCEPT !.pc = "link", !.incident = i]
  <2>2. v.pc = "link" /\ v.alert = eval[e].alert /\ eval' = [eval EXCEPT ![e] = v]
    BY <1>1, <2>1 DEF Evaluation
  <2>3. eval[e].pc = "open" /\ remediated' = remediated
    BY <1>3 DEF OpenIncident
  <2> HIDE DEF v
  <2>4. Working(e, a)' => Working(e, a)
    BY <1>1, <2>2, <2>3 DEF Working
  <2>5. CASE eval[e].alert # a
    <3>1. \A j \in Incidents : opened'[j] = a => opened[j] = a
      BY <1>1, <2>1, <2>5 DEF TypeOK
    <3>2. QED
      BY <1>1, <2>2, <2>3, <2>4, <3>1, MoveKeepsSingle
  <2>6. CASE eval[e].alert = a
    <3>1. Working(e, a)
      BY <2>3, <2>6 DEF Working
    <3>2. a \notin raced => \A j \in Incidents : opened'[j] = a => j = i
      BY <1>1, <2>1, <2>3, <3>1 DEF Single, TypeOK
    <3>3. eval'[e] = v /\ \A x \in Evaluations : x # e => eval'[x] = eval[x]
      BY <1>1, <2>2
    <3>4. \A x \in Evaluations : Working(x, a)' => Working(x, a)
      BY <2>4, <3>3 DEF Working
    <3>5. a \notin raced => \A x \in Evaluations : Working(x, a)' => x = e /\ eval'[x].pc = "link"
      BY <2>2, <3>1, <3>3, <3>4 DEF Single
    <3>6. \A x \in Evaluations : eval'[x].pc = "update" /\ eval'[x].alert = a /\ eval'[x].found = Null
             => a \in raced
      BY <2>2, <3>3 DEF Single
    <3>7. alerts'[a].state # "NONE" /\ remediated[a] \in 0 .. 2
      BY <1>1, <2>6 DEF TypeOK
    <3>8. a \notin raced => remediated'[a] = 0
      BY <2>3, <3>1 DEF Single
    <3>9. QED
      BY <1>1, <3>2, <3>5, <3>6, <3>7, <3>8 DEF Single
  <2>7. QED
    BY <2>5, <2>6
<1>4. ASSUME TriggerRemediation(e) PROVE Single(a)'
  <2>1. /\ eval[e].pc = "remediate" /\ UNCHANGED opened
        /\ eval' = [eval EXCEPT ![e] = Over]
        /\ remediated' = [remediated EXCEPT ![eval[e].alert] = IF @ = 2 THEN 2 ELSE @ + 1]
    BY <1>4 DEF TriggerRemediation
  <2>2. CASE eval[e].alert # a
    <3>1. remediated'[a] = remediated[a]
      BY <1>1, <2>1, <2>2 DEF TypeOK
    <3>2. QED
      BY <1>1, <1>2, <2>1, <3>1, MoveKeepsSingle DEF Working
  <2>3. CASE eval[e].alert = a
    <3>1. Working(e, a)
      BY <2>1, <2>3 DEF Working
    <3>2. a \notin raced => remediated'[a] = 1
      BY <1>1, <2>1, <2>3, <3>1 DEF Single, TypeOK
    <3>3. eval'[e] = Over /\ \A x \in Evaluations : x # e => eval'[x] = eval[x]
      BY <1>1, <2>1
    <3>4. a \notin raced => \A x \in Evaluations : ~Working(x, a)'
      BY <1>2, <3>1, <3>3 DEF Single, Working
    <3>5. \A x \in Evaluations : eval'[x].pc = "update" /\ eval'[x].alert = a /\ eval'[x].found = Null
             => a \in raced
      BY <1>2, <3>3 DEF Single
    <3>6. alerts'[a].state # "NONE"
      BY <1>1, <2>3
    <3>7. QED
      BY <1>1, <2>1, <3>2, <3>4, <3>5, <3>6 DEF Single
  <2>4. QED
    BY <2>2, <2>3
<1>5. QED
  BY <1>3, <1>4

LEMMA SingleStep ==
    ASSUME IInv, [Next]_vars, NEW a \in Alerts, Single(a)
    PROVE  Single(a)'
<1>1. alerts[a].state # "NONE" => alerts'[a].state # "NONE"
  BY RowsStay DEF IInv
<1>2. ASSUME NEW i \in Incidents, NEW b \in Alerts, LinkByHand(i, b) PROVE Single(a)'
  <2>1. \A j \in Incidents : opened'[j] = a => opened[j] = a
    BY <1>2, AlertsAssumption DEF LinkByHand, IInv, TypeOK
  <2>2. QED
    BY <1>1, <1>2, <2>1, StillIsSingle DEF LinkByHand, histories
<1>3. ASSUME NEW p \in People, PersonStep(p) PROVE Single(a)'
  BY <1>1, <1>3, StillIsSingle DEF PersonStep, Acknowledge, Resolve, Asks, WriteState,
     AbortPerson, histories
<1>4. CASE UNCHANGED vars
  BY <1>1, <1>4, StillIsSingle DEF vars, histories
<1>5. QED
  BY <1>2, <1>3, <1>4, OtherStepsKeepSingle, InsertKeepsSingle, ResponseKeepsSingle
     DEF Next, EvaluationStep

\* An alert opens one incident and runs its remediation once at most, however
\* the evaluations of its rule interleave, unless one that had found none
\* firing took a row that was there for its own.
THEOREM OneResponsePerAlertHolds == Spec => []OneResponsePerAlert
<1> DEFINE AllSingle == \A a \in Alerts : Single(a)
<1>1. Init => AllSingle
  <2> SUFFICES ASSUME Init, NEW a \in Alerts PROVE Single(a)
    OBVIOUS
  <2>1. Null # a
    BY AlertsAssumption
  <2>2. QED
    BY <2>1 DEF Init, Single, Working, NoEvaluation, NoAlert
<1>2. AllSingle => OneResponsePerAlert
  BY DEF Single, OneResponsePerAlert
<1>3. IInv /\ AllSingle /\ [Next]_vars => AllSingle'
  BY SingleStep
<1>4. QED
  BY <1>1, <1>2, <1>3, Invariance, PTL DEF Spec

=============================================================================
