------------------------------- MODULE Alerts -------------------------------
(***************************************************************************)
(* The alerts of one rule (one service and one metric): AlertsService      *)
(* evaluates every recorded sample, fires, updates or resolves the alert   *)
(* of the rule, opens an incident for a new P1/P2 alert and runs the       *)
(* remediation of the rule for a new P1; people acknowledge and resolve.   *)
(*                                                                         *)
(* Rules do not touch each other, so one is modelled.  An evaluation is    *)
(* one async handler without a transaction that reads whether an alert is  *)
(* firing twice, once to decide whether the breach is new and once inside  *)
(* fireOrUpdate; other evaluations and people run at every await.  What    *)
(* the evaluator makes of a sample (a severity, or Quiet) is the input.    *)
(* The incident and the remediation are those of modules Incidents and     *)
(* Remediation: here only that they were opened and triggered.             *)
(***************************************************************************)
EXTENDS Severity

CONSTANTS
    Severities,   \* severities the rule has a threshold for (a bound)
    Alerts,       \* alert ids of the rule (a bound: no more are inserted)
    Incidents,    \* incident ids
    Evaluations,  \* samples to be evaluated, each once
    People,       \* requests to acknowledge or resolve, each made once
    Quiet,        \* the evaluator's null: no threshold is breached
    Null

ASSUME AlertsAssumption ==
    /\ Severities \subseteq Severity
    /\ Quiet \notin Severity /\ Null \notin Alerts /\ Null \notin Incidents
    /\ "byHand" \notin Alerts /\ Evaluations \cap People = {}

VARIABLES
    alerts,      \* the alerts table
    opened,      \* incidents: the alert each was opened for by an evaluation
    eval,        \* where each evaluation is
    person,      \* where each acknowledge or resolve request is
    remediated,  \* how often the remediation was triggered by each alert
    severe,      \* history: alerts first fired at a severity that opens incidents
    raced,       \* history: alerts fired again by an evaluation that had found none
    missed,      \* history: alerts first fired by an evaluation that had found one
    cut,         \* history: alerts whose evaluation was cut off
    stale        \* history: processes about to write an alert written since

histories == <<severe, raced, missed, cut>>
vars == <<alerts, opened, eval, person, remediated, histories, stale>>

-----------------------------------------------------------------------------

AutoIncidentSeverities == {"SEV1", "SEV2"}

AlertState == {"NONE", "FIRING", "ACKNOWLEDGED", "RESOLVED"}

Alert == [ state    : AlertState,
           severity : Severity \cup {Null},
           incident : Incidents \cup {Null} ]

\* found: what the first read saw firing.  alert: the row fireOrUpdate works
\* on; linked: whether that row had an incident when it was returned.
Evaluation == [ pc         : {"idle", "done", "find", "resolve", "refind", "update", "insert",
                              "fired", "open", "link", "relink", "remediate"},
                severity   : Severity \cup {Quiet},
                remediates : BOOLEAN,
                found      : Alerts \cup {Null},
                alert      : Alerts \cup {Null},
                linked     : BOOLEAN,
                incident   : Incidents \cup {Null} ]

Person == [pc : {"idle", "done", "acknowledge", "resolve"}, alert : Alerts \cup {Null}]

NoAlert == [state |-> "NONE", severity |-> Null, incident |-> Null]

NoEvaluation == [pc |-> "idle", severity |-> Quiet, remediates |-> FALSE, found |-> Null,
                 alert |-> Null, linked |-> FALSE, incident |-> Null]

Over == [NoEvaluation EXCEPT !.pc = "done"]

Nobody == [pc |-> "idle", alert |-> Null]
Gone == [pc |-> "done", alert |-> Null]

\* "byHand": an incident opened by a person.
TypeOK ==
    /\ alerts \in [Alerts -> Alert]
    /\ opened \in [Incidents -> Alerts \cup {"byHand", Null}]
    /\ eval \in [Evaluations -> Evaluation]
    /\ person \in [People -> Person]
    /\ remediated \in [Alerts -> 0 .. 2]
    /\ severe \in SUBSET Alerts /\ raced \in SUBSET Alerts
    /\ missed \in SUBSET Alerts /\ cut \in SUBSET Alerts
    /\ stale \in SUBSET (Evaluations \cup People)

Init ==
    /\ alerts = [a \in Alerts |-> NoAlert]
    /\ opened = [i \in Incidents |-> Null]
    /\ eval = [e \in Evaluations |-> NoEvaluation]
    /\ person = [p \in People |-> Nobody]
    /\ remediated = [a \in Alerts |-> 0]
    /\ severe = {} /\ raced = {} /\ missed = {} /\ cut = {}
    /\ stale = {}

-----------------------------------------------------------------------------
(* The evaluation of one sample, up to the alert.                          *)

Firing == {a \in Alerts : alerts[a].state = "FIRING"}

\* findFirst: the firing alert, if there is one.
FindFirst(found) == found \in IF Firing = {} THEN {Null} ELSE Firing

\* Processes about to write row a without reading it again.
Holding(a) ==
    {e \in Evaluations : \/ eval[e].pc = "resolve" /\ eval[e].found = a
                         \/ eval[e].pc = "update" /\ eval[e].alert = a}
    \cup {p \in People : person[p].pc \notin {"idle", "done"} /\ person[p].alert = a}

\* Process p writes row a.
WriteAlert(p, a, row) ==
    /\ alerts' = [alerts EXCEPT ![a] = row]
    /\ stale' = (stale \cup Holding(a)) \ {p}

\* The rule is read, and the sample held against it.  Anybody may rewrite the
\* rule between two samples, so it is as if each sample brought its own; one
\* that finds the rule inactive ends here.
StartEvaluation(e, severity, remediates) ==
    /\ eval[e].pc = "idle"
    /\ eval' = [eval EXCEPT ![e] =
                  [NoEvaluation EXCEPT !.pc = "find", !.severity = severity,
                                       !.remediates = remediates]]
    /\ UNCHANGED <<alerts, opened, person, remediated, histories, stale>>

\* A quiet sample resolves the firing alert, or has nothing to do.
FindFiring(e) ==
    /\ eval[e].pc = "find"
    /\ \E found \in Alerts \cup {Null} :
         /\ FindFirst(found)
         /\ eval' = [eval EXCEPT ![e] =
              IF eval[e].severity # Quiet THEN [@ EXCEPT !.found = found, !.pc = "refind"]
              ELSE IF found # Null THEN [@ EXCEPT !.found = found, !.pc = "resolve"]
              ELSE Over]
    /\ UNCHANGED <<alerts, opened, person, remediated, histories, stale>>

AutoResolve(e) ==
    LET a == eval[e].found IN
    /\ eval[e].pc = "resolve"
    /\ WriteAlert(e, a, [alerts[a] EXCEPT !.state = "RESOLVED"])
    /\ eval' = [eval EXCEPT ![e] = Over]
    /\ UNCHANGED <<opened, person, remediated, histories>>

\* Evaluation e has its alert, row a, as it was returned.
Fires(e, a, linked) ==
    eval' = [eval EXCEPT ![e].pc = "fired", ![e].alert = a, ![e].linked = linked]

\* An evaluation that had found nothing fires a row that is there.
Races(e, a) == raced' = IF eval[e].found = Null THEN raced \cup {a} ELSE raced

\* The first await of fireOrUpdate.
FindAgain(e) ==
    /\ eval[e].pc = "refind"
    /\ \/ /\ Firing = {}
          /\ eval' = [eval EXCEPT ![e].pc = "insert"]
          /\ UNCHANGED raced
       \/ \E a \in Firing :
            /\ Races(e, a)
            /\ \/ /\ alerts[a].severity = eval[e].severity
                  /\ Fires(e, a, alerts[a].incident # Null)
               \/ /\ alerts[a].severity # eval[e].severity
                  /\ eval' = [eval EXCEPT ![e].pc = "update", ![e].alert = a]
    /\ UNCHANGED <<alerts, opened, person, remediated, severe, missed, cut, stale>>

UpdateSeverity(e) ==
    LET a == eval[e].alert IN
    /\ eval[e].pc = "update"
    /\ WriteAlert(e, a, [alerts[a] EXCEPT !.severity = eval[e].severity])
    /\ Fires(e, a, alerts[a].incident # Null)
    /\ UNCHANGED <<opened, person, remediated, histories>>

NewAlert(a) == alerts[a].state = "NONE"

\* The row of a new alert.
InsertRow(e, a) ==
    /\ WriteAlert(e, a, [NoAlert EXCEPT !.state = "FIRING", !.severity = eval[e].severity])
    /\ severe' = IF eval[e].severity \in AutoIncidentSeverities THEN severe \cup {a}
                                                                ELSE severe
    /\ missed' = IF eval[e].found = Null THEN missed ELSE missed \cup {a}
    /\ Fires(e, a, FALSE)

\* The mutated form: no partial unique index.
InsertAlertUnindexed(e) ==
    /\ eval[e].pc = "insert"
    /\ \E a \in Alerts : NewAlert(a) /\ InsertRow(e, a)
    /\ UNCHANGED <<opened, person, remediated, raced, cut>>

\* The partial unique index rejects a second firing row: the handler throws.
InsertAlert(e) ==
    /\ eval[e].pc = "insert"
    /\ \/ /\ Firing = {}
          /\ \E a \in Alerts : NewAlert(a) /\ InsertRow(e, a)
       \/ /\ Firing # {}
          /\ eval' = [eval EXCEPT ![e] = Over]
          /\ UNCHANGED <<alerts, severe, missed, stale>>
    /\ UNCHANGED <<opened, person, remediated, raced, cut>>

-----------------------------------------------------------------------------
(* The rest of the evaluation: the incident and the remediation.           *)

OpensIncident(v) ==
    v.found = Null /\ v.severity \in AutoIncidentSeverities /\ ~v.linked

Remediates(v) == v.found = Null /\ v.severity = "SEV1" /\ v.remediates

\* What the rest of evaluation v still needs to know, from pc on.
Rest(v, pc) == [NoEvaluation EXCEPT !.pc = pc, !.alert = v.alert,
                                    !.remediates = Remediates(v)]

\* Evaluation v goes on to its incident, to its remediation, or is over.
Decided(v) == IF OpensIncident(v) THEN Rest(v, "open")
              ELSE IF Remediates(v) THEN Rest(v, "remediate")
              ELSE Over

\* The mutated form: whether the alert is new is asked after it was fired.
AuditFiredTooLate(e) ==
    /\ eval[e].pc = "fired"
    /\ eval' = [eval EXCEPT ![e] = Decided([@ EXCEPT !.found = eval[e].alert])]
    /\ UNCHANGED <<alerts, opened, person, remediated, histories, stale>>

\* The mutated form: an alert that was firing opens an incident too.
AuditFiredAlways(e) ==
    /\ eval[e].pc = "fired"
    /\ eval' = [eval EXCEPT ![e] = Decided([@ EXCEPT !.found = Null])]
    /\ UNCHANGED <<alerts, opened, person, remediated, histories, stale>>

\* The alert.fire entry is written, and the rest decided on what was read.
AuditFired(e) ==
    /\ eval[e].pc = "fired"
    /\ eval' = [eval EXCEPT ![e] = Decided(@)]
    /\ UNCHANGED <<alerts, opened, person, remediated, histories, stale>>

\* IncidentsService.create: the row, then the alerts.
OpenIncident(e) ==
    /\ eval[e].pc = "open"
    /\ \E i \in Incidents :
         /\ opened[i] = Null
         /\ opened' = [opened EXCEPT ![i] = eval[e].alert]
         /\ eval' = [eval EXCEPT ![e].pc = "link", ![e].incident = i]
    /\ UNCHANGED <<alerts, person, remediated, histories, stale>>

\* The conditional UPDATE of linkAlerts: only an alert of no incident.
Claimed(a, i) == [alerts EXCEPT ![a].incident = IF @ = Null THEN i ELSE @]

\* Next are the timeline and the audit entry of the new incident.
LinkAlerts(e) ==
    /\ eval[e].pc = "link"
    /\ alerts' = Claimed(eval[e].alert, eval[e].incident)
    /\ eval' = [eval EXCEPT ![e].pc = "relink"]
    /\ UNCHANGED <<opened, person, remediated, histories, stale>>

\* The alert service links once more, unconditionally.
LinkToIncident(e) ==
    /\ eval[e].pc = "relink"
    /\ alerts' = [alerts EXCEPT ![eval[e].alert].incident = eval[e].incident]
    /\ eval' = [eval EXCEPT ![e] = IF eval[e].remediates THEN [@ EXCEPT !.pc = "remediate"]
                                                         ELSE Over]
    /\ UNCHANGED <<opened, person, remediated, histories, stale>>

\* Counted up to two; what it does is module Remediation.
TriggerRemediation(e) ==
    /\ eval[e].pc = "remediate"
    /\ remediated' = [remediated EXCEPT ![eval[e].alert] = IF @ = 2 THEN 2 ELSE @ + 1]
    /\ eval' = [eval EXCEPT ![e] = Over]
    /\ UNCHANGED <<alerts, opened, person, histories, stale>>

\* An await rejects or the process dies.
AbortEvaluation(e) ==
    /\ eval[e].pc \notin {"idle", "done"}
    /\ eval' = [eval EXCEPT ![e] = Over]
    /\ cut' = cut \cup ({eval[e].alert} \ {Null})
    /\ stale' = stale \ {e}
    /\ UNCHANGED <<alerts, opened, person, remediated, severe, raced, missed>>

-----------------------------------------------------------------------------
(* People.                                                                 *)

Asks(p, pc, a) ==
    /\ person[p].pc = "idle"
    /\ person' = [person EXCEPT ![p] = [pc |-> pc, alert |-> a]]
    /\ UNCHANGED <<alerts, opened, eval, remediated, histories, stale>>

\* The mutated form: any alert may be acknowledged.
AcknowledgeUnchecked(p, a) == ~NewAlert(a) /\ Asks(p, "acknowledge", a)

Acknowledge(p, a) == alerts[a].state = "FIRING" /\ Asks(p, "acknowledge", a)

Resolve(p, a) == alerts[a].state \in {"FIRING", "ACKNOWLEDGED"} /\ Asks(p, "resolve", a)

\* The UPDATE names only the alert's id.
WriteState(p) ==
    LET a == person[p].alert IN
    /\ person[p].pc \notin {"idle", "done"}
    /\ WriteAlert(p, a, [alerts[a] EXCEPT
                           !.state = IF person[p].pc = "acknowledge" THEN "ACKNOWLEDGED"
                                                                     ELSE "RESOLVED"])
    /\ person' = [person EXCEPT ![p] = Gone]
    /\ UNCHANGED <<opened, eval, remediated, histories>>

AbortPerson(p) ==
    /\ person[p].pc \notin {"idle", "done"}
    /\ person' = [person EXCEPT ![p] = Gone]
    /\ stale' = stale \ {p}
    /\ UNCHANGED <<alerts, opened, eval, remediated, histories>>

\* Somebody opens an incident and names the alert (module Incidents, Create
\* up to LinkAlerts).
LinkByHand(i, a) ==
    /\ opened[i] = Null /\ ~NewAlert(a)
    /\ opened' = [opened EXCEPT ![i] = "byHand"]
    /\ alerts' = Claimed(a, i)
    /\ UNCHANGED <<eval, person, remediated, histories, stale>>

EvaluationStep(e) ==
    \/ FindFiring(e)
    \/ AutoResolve(e)
    \/ FindAgain(e)
    \/ UpdateSeverity(e)
    \/ InsertAlert(e)
    \/ AuditFired(e)
    \/ OpenIncident(e)
    \/ LinkAlerts(e)
    \/ LinkToIncident(e)
    \/ TriggerRemediation(e)
    \/ AbortEvaluation(e)

PersonStep(p) ==
    \/ \E a \in Alerts : Acknowledge(p, a) \/ Resolve(p, a)
    \/ WriteState(p)
    \/ AbortPerson(p)

Next ==
    \/ \E e \in Evaluations :
         \/ \E severity \in Severities \cup {Quiet}, remediates \in BOOLEAN :
              StartEvaluation(e, severity, remediates)
         \/ EvaluationStep(e)
    \/ \E p \in People : PersonStep(p)
    \/ \E i \in Incidents, a \in Alerts : LinkByHand(i, a)

Spec == Init /\ [][Next]_vars

-----------------------------------------------------------------------------
(* What must hold, whatever the interleaving.                              *)

\* The rule never has two alerts firing for its service, although the check
\* and the INSERT are two awaits (alerts.repository.ts, fireOrUpdate;
\* migration 20260831155708, alerts_service_rule_firing_uq).
OneFiring == \A a, b \in Firing : a = b

\* Only the transition into a new firing alert opens an incident or runs the
\* remediation (alerts.service.ts:154-185): one each at most per alert, unless
\* two evaluations overlapped so that both took the alert for new.
OneResponsePerAlert ==
    \A a \in Alerts \ raced :
      /\ \A i, j \in Incidents : opened[i] = a /\ opened[j] = a => i = j
      /\ remediated[a] <= 1

\* An alert that first fired as a P1 or P2 has its incident once no evaluation
\* of it is under way (alerts.service.ts:18, "open an incident automatically the
\* first time they fire"), unless one was cut off, or the alert was fired by an
\* evaluation that had still seen its predecessor firing: two evaluations that
\* overlap never each leave the incident to the other.
SevereAlertHasIncident ==
    \A a \in severe \ (cut \cup missed) :
      (\A e \in Evaluations : eval[e].alert # a) => alerts[a].incident # Null

\* The legal ways of an alert (alerts.service.ts:114-134 and 220-248).
AlertTransitions ==
    {<<"NONE", "FIRING">>, <<"FIRING", "ACKNOWLEDGED">>, <<"FIRING", "RESOLVED">>,
     <<"ACKNOWLEDGED", "RESOLVED">>}

\* An alert that was resolved stays resolved and an alert that nobody fires
\* keeps its severity, except where a handler writes a row that was written
\* since it read it (alerts.service.ts:222 and 237, alerts.repository.ts:35).
OnlyStaleWritesReviveAlerts ==
    [][\A a \in Alerts :
         \/ alerts'[a].state = alerts[a].state /\
              (alerts'[a].severity # alerts[a].severity => alerts[a].state = "FIRING")
         \/ <<alerts[a].state, alerts'[a].state>> \in AlertTransitions
         \/ \E p \in stale : p \in Holding(a)]_vars

\* "This must never let one incident hijack another's alert"
\* (incidents.repository.ts:97): an alert that belongs to an incident is not
\* taken over by another.  The second, unconditional link breaks it.
NeverHijacked ==
    [][\A a \in Alerts :
         alerts[a].incident # Null => alerts'[a].incident = alerts[a].incident]_vars

=============================================================================
