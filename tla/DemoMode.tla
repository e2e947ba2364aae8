------------------------------- MODULE DemoMode -------------------------------
(***************************************************************************)
(* Demo mode: one singleton row with a phase machine that a scheduler tick *)
(* advances, driving the real alert, incident and RCA services.            *)
(*                                                                         *)
(* A tick reads the row, samples the metric of its scenario (module        *)
(* Alerts: here firing and the opening of the incident are the two steps   *)
(* an await may cut apart), patches the row by an UPDATE that names only   *)
(* the columns it changes, and drives the incident or its RCA.  Nothing    *)
(* compares the row with what was read: enable, disable and a second tick  *)
(* (which may enter the advisory lock of its own session, see module       *)
(* Scheduler) run in between.                                              *)
(*                                                                         *)
(* An incident is kept with the alert that opened it, and its report with  *)
(* the incident.  Correlated and synthetic metrics decide nothing here     *)
(* (module DemoScenarios is about them).                                   *)
(***************************************************************************)
EXTENDS Naturals, FiniteSets

CONSTANTS
    Scenarios,    \* the archetypes, each with one rule of one service
    Ticks,        \* callbacks of the timer that can be under way at once
    Requests,     \* enable and disable requests in flight at once
    Alerts,       \* alert ids; a settled one that nothing names is used again
    MaxTarget,    \* the longest phase, in ticks (a bound)
    Reviewer,     \* is there a second commander or admin
    Null

ASSUME DemoAssumption ==
    /\ MaxTarget \in Nat \ {0}
    /\ Reviewer \in BOOLEAN
    /\ Null \notin Scenarios \cup Alerts
    /\ Ticks \cap Requests = {}

VARIABLES
    row,          \* the singleton of demo_mode_state
    alerts,       \* alerts of the scenarios' rules, with incident and report
    job,          \* where each tick is
    request,      \* where each request is
    stale,        \* history: handlers whose row was written since they read it
    overwritten,  \* history: a stale tick has written over this run's row
    disturbed     \* history: anything but its own ticks has met this run

vars == <<row, alerts, job, request, stale, overwritten, disturbed>>

-----------------------------------------------------------------------------

Phase == {"IDLE", "BASELINE", "DEGRADING", "INCIDENT",
          "REMEDIATING", "RESOLVED", "RCA_REVIEW", "COOLDOWN"}

\* How many ticks a phase may last: randRange of the intensity's profile.
Targets == 1 .. MaxTarget

\* alert stands for alertId and incidentId, which are set and cleared together.
Row == [ enabled : BOOLEAN, autoLoop : BOOLEAN, phase : Phase,
         scenario : Scenarios \cup {Null}, alert : Alerts \cup {Null},
         ticks : 0 .. MaxTarget, target : 0 .. MaxTarget ]

Alert == [ state    : {"NONE", "FIRING", "ACKNOWLEDGED", "RESOLVED"},
           scenario : Scenarios \cup {Null},
           severe   : BOOLEAN,
           incident : {"NONE", "OPEN", "ACKNOWLEDGED", "MITIGATED", "RESOLVED"},
           rca      : {"NONE", "DRAFT", "IN_REVIEW", "APPROVED"} ]

\* What evaluateMetric has returned: the alert, whether it is one that makes an
\* incident of the run (SEV1, with an incident), and whether it was just resolved.
Found == [alert : Alerts \cup {Null}, hit : BOOLEAN, resolved : BOOLEAN]

NewRow == [enabled |-> FALSE, autoLoop |-> TRUE, phase |-> "IDLE",
           scenario |-> Null, alert |-> Null, ticks |-> 0, target |-> 0]
NoAlert == [state |-> "NONE", scenario |-> Null, severe |-> FALSE,
            incident |-> "NONE", rca |-> "NONE"]
Nothing == [alert |-> Null, hit |-> FALSE, resolved |-> FALSE]

Job == [ pc : {"off", "evaluate", "open", "write", "acknowledge", "mitigate",
               "resolve", "create", "submit", "approve", "begin"},
         seen : Row, found : Found ]
Off == [pc |-> "off", seen |-> NewRow, found |-> Nothing]

NoRequest == [pc |-> "idle", scenario |-> Null]
Request == [pc : {"idle", "begin"}, scenario : Scenarios \cup {Null}]

TypeOK ==
    /\ row \in Row
    /\ alerts \in [Alerts -> Alert]
    /\ job \in [Ticks -> Job]
    /\ request \in [Requests -> Request]
    /\ stale \in SUBSET (Ticks \cup Requests)
    /\ overwritten \in BOOLEAN
    /\ disturbed \in BOOLEAN

Init ==
    /\ row = NewRow
    /\ alerts = [a \in Alerts |-> NoAlert]
    /\ job = [t \in Ticks |-> Off]
    /\ request = [h \in Requests |-> NoRequest]
    /\ stale = {}
    /\ overwritten = FALSE
    /\ disturbed = FALSE

Busy == {t \in Ticks : job[t].pc # "off"} \cup {h \in Requests : request[h].pc = "begin"}

\* who writes the row: everybody else under way has read it before.
WriteRow(who, new) ==
    /\ row' = new
    /\ stale' = (stale \cup Busy) \ {who}

\* beginScenario's UPDATE: every column of the run is reset.
BeginRun(scenario, autoLoop, target) ==
    [ enabled |-> TRUE, autoLoop |-> autoLoop, phase |-> "BASELINE",
      scenario |-> scenario, alert |-> Null, ticks |-> 0, target |-> target ]

\* pickScenario: never the one that just ran, if there is another.
Candidates(seen) ==
    IF Scenarios \ {seen.scenario} = {} THEN Scenarios ELSE Scenarios \ {seen.scenario}

-----------------------------------------------------------------------------
(* Requests.                                                               *)

\* A named scenario or one picked.
Enable(h) ==
    /\ request[h].pc = "idle"
    /\ \E s \in Scenarios :
         request' = [request EXCEPT ![h] = [pc |-> "begin", scenario |-> s]]
    /\ stale' = stale \ {h}
    /\ UNCHANGED <<row, alerts, job, overwritten, disturbed>>

BeginByRequest(h) ==
    /\ request[h].pc = "begin"
    /\ \E target \in Targets, autoLoop \in BOOLEAN :
         WriteRow(h, BeginRun(request[h].scenario, autoLoop, target))
    /\ request' = [request EXCEPT ![h] = NoRequest]
    /\ overwritten' = FALSE
    /\ disturbed' = (\E t \in Ticks : job[t].pc # "off")
    /\ UNCHANGED <<alerts, job>>

\* The mutated form: disable leaves the phase as it is.
DisableKeepsPhase(h) ==
    /\ request[h].pc = "idle"
    /\ WriteRow(h, [row EXCEPT !.enabled = FALSE])
    /\ UNCHANGED <<alerts, job, request, overwritten, disturbed>>

Disable(h) ==
    /\ request[h].pc = "idle"
    /\ WriteRow(h, [row EXCEPT !.enabled = FALSE, !.phase = "IDLE"])
    /\ UNCHANGED <<alerts, job, request, overwritten, disturbed>>

-----------------------------------------------------------------------------
(* Ticks.                                                                  *)

\* The phase's budget is spent with this tick.
Final(seen) == seen.ticks + 1 >= seen.target

FirstStep(seen) ==
    CASE seen.phase \in {"BASELINE", "DEGRADING", "INCIDENT", "REMEDIATING"} -> "evaluate"
      [] seen.phase = "RESOLVED" /\ seen.alert # Null -> "resolve"
      [] seen.phase = "RCA_REVIEW" /\ Final(seen) /\ seen.alert # Null -> "create"
      [] seen.phase = "COOLDOWN" /\ Final(seen) /\ seen.autoLoop -> "begin"
      [] seen.phase = "IDLE" -> "begin"
      [] OTHER -> "write"

\* Overlapping callbacks disturb each other's run.
ReadRow(t) ==
    /\ job[t].pc = "off"
    /\ row.enabled
    /\ row.phase = "IDLE" => row.autoLoop
    /\ job' = [job EXCEPT ![t] = [pc |-> FirstStep(row), seen |-> row, found |-> Nothing]]
    /\ stale' = stale \ {t}
    /\ disturbed' = (disturbed \/ \E u \in Ticks \ {t} : job[u].pc # "off")
    /\ UNCHANGED <<row, alerts, request, overwritten>>

\* A breach of a rule: SEV1, SEV2 and below.
Breach == {"critical", "major", "minor"}

\* AUTO_INCIDENT_SEVERITIES of AlertsService; demo mode has a narrower one of its own.
OpensIncident == {"critical", "major"}

\* What the primary metric is at: recordAt's curve ends at the baseline and at
\* the target exactly, and DEGRADING holds it at the baseline until its last tick.
Level(seen) ==
    CASE seen.phase = "BASELINE" -> {"healthy"}
      [] seen.phase = "DEGRADING" -> IF Final(seen) THEN {"critical"} ELSE {"healthy"}
      [] seen.phase = "INCIDENT" -> {"critical"}
      [] OTHER -> IF Final(seen) THEN {"healthy"} ELSE {"healthy"} \cup Breach

FiringOf(scenario) == {a \in Alerts : alerts[a].state = "FIRING" /\ alerts[a].scenario = scenario}

\* What the row or a tick under way still names.
Named == {row.alert} \cup {job[t].seen.alert : t \in Ticks} \cup {job[t].found.alert : t \in Ticks}

Unused == {a \in Alerts \ Named : alerts[a].state # "FIRING"}

Fired(scenario, level) ==
    [NoAlert EXCEPT !.state = "FIRING", !.scenario = scenario, !.severe = (level = "critical")]

Fresh == CHOOSE a \in Unused : TRUE

\* evaluateMetric of one sample, up to the incident.
Evaluate(t) ==
    LET scenario == job[t].seen.scenario
        firing == FiringOf(scenario)
        Return(a, hit, resolved, pc) ==
            job' = [job EXCEPT ![t].pc = pc,
                               ![t].found = [alert |-> a, hit |-> hit, resolved |-> resolved]]
    IN
    /\ job[t].pc = "evaluate"
    /\ \E level \in Level(job[t].seen) :
         \/ /\ firing = {} /\ level = "healthy"
            /\ Return(Null, FALSE, FALSE, "write")
            /\ UNCHANGED alerts
         \/ \E a \in firing :
              /\ level = "healthy"
              /\ alerts' = [alerts EXCEPT ![a].state = "RESOLVED"]
              /\ Return(a, alerts[a].severe /\ alerts[a].incident # "NONE", TRUE, "write")
         \/ \E a \in firing :
              /\ level # "healthy"
              /\ alerts' = [alerts EXCEPT ![a].severe = (level = "critical")]
              /\ Return(a, level = "critical" /\ alerts[a].incident # "NONE", FALSE, "write")
         \/ /\ firing = {} /\ level # "healthy" /\ Unused # {}
            /\ alerts' = [alerts EXCEPT ![Fresh] = Fired(scenario, level)]
            /\ Return(Fresh, FALSE, FALSE, IF level \in OpensIncident THEN "open" ELSE "write")
    /\ UNCHANGED <<row, request, stale, overwritten, disturbed>>

\* The incident of a new alert is created and linked.
OpenIncident(t) ==
    /\ job[t].pc = "open"
    /\ alerts' = [alerts EXCEPT ![job[t].found.alert].incident = "OPEN"]
    /\ job' = [job EXCEPT ![t].pc = "write", ![t].found.hit = alerts[job[t].found.alert].severe]
    /\ UNCHANGED <<row, request, stale, overwritten, disturbed>>

Done(t) == job' = [job EXCEPT ![t] = Off]

\* A phase transition patches phase, ticksInPhase and phaseTargetTicks.
Enters(phase, target) == [row EXCEPT !.phase = phase, !.ticks = 0, !.target = target]

\* The mutated form: the whole row as it was read is written back.
CountsOnWholeRow(seen) == [seen EXCEPT !.ticks = seen.ticks + 1]

\* The mutated form: the tick is not counted.
CountsNothing(seen) == row

\* What stays in its phase patches ticksInPhase alone.
Counts(seen) == [row EXCEPT !.ticks = seen.ticks + 1]

\* The patch of each phase, from the row the tick has read.
Patched(t, target) ==
    LET seen == job[t].seen
        found == job[t].found
        own == found.resolved /\ found.alert = seen.alert
    IN
    CASE seen.phase = "BASELINE" ->
           IF Final(seen) THEN Enters("DEGRADING", target) ELSE Counts(seen)
      [] seen.phase = "DEGRADING" ->
           IF found.hit THEN [Enters("INCIDENT", target) EXCEPT !.alert = found.alert]
           ELSE IF Final(seen) THEN [row EXCEPT !.ticks = seen.ticks] ELSE Counts(seen)
      [] seen.phase = "INCIDENT" ->
           IF Final(seen) THEN Enters("REMEDIATING", target) ELSE Counts(seen)
      [] seen.phase = "REMEDIATING" ->
           IF own \/ Final(seen) THEN Enters("RESOLVED", 1) ELSE Counts(seen)
      [] seen.phase = "RESOLVED" -> Enters("RCA_REVIEW", target)
      [] seen.phase = "RCA_REVIEW" ->
           IF Final(seen) THEN Enters("COOLDOWN", target) ELSE Counts(seen)
      [] OTHER -> IF Final(seen) THEN Enters("IDLE", 0) ELSE Counts(seen)

\* The mutated form: nobody acknowledges the demo's incident.
NextStepUnowned(t) ==
    LET seen == job[t].seen IN
    IF seen.phase = "INCIDENT" /\ Final(seen) /\ seen.alert # Null THEN "mitigate" ELSE "off"

\* What the tick still does to the incident after its UPDATE.
NextStep(t) ==
    LET seen == job[t].seen IN
    CASE seen.phase = "DEGRADING" /\ job[t].found.hit -> "acknowledge"
      [] seen.phase = "INCIDENT" /\ Final(seen) /\ seen.alert # Null -> "mitigate"
      [] OTHER -> "off"

WritePhase(t) ==
    /\ job[t].pc = "write"
    /\ \E target \in Targets : WriteRow(t, Patched(t, target))
    /\ IF NextStep(t) = "off" THEN Done(t)
       ELSE job' = [job EXCEPT ![t].pc = NextStep(t)]
    /\ overwritten' = (overwritten \/ t \in stale)
    /\ disturbed' = (disturbed \/ t \in stale)
    /\ UNCHANGED <<alerts, request>>

\* The scenario of an auto-loop, looked up and begun.
BeginByTick(t) ==
    /\ job[t].pc = "begin"
    /\ \E s \in Candidates(job[t].seen), target \in Targets :
         WriteRow(t, BeginRun(s, job[t].seen.autoLoop, target))
    /\ overwritten' = FALSE
    /\ disturbed' = (\E u \in Ticks \ {t} : job[u].pc # "off")
    /\ Done(t)
    /\ UNCHANGED <<alerts, request>>

-----------------------------------------------------------------------------
(* Side steps on the incident and its report, each within tryStep: what    *)
(* the service refuses or rejects is logged and skipped.                   *)

\* INCIDENT_TRANSITIONS, as far as demo mode and people take it here.
Moves == {<<"OPEN", "ACKNOWLEDGED">>, <<"ACKNOWLEDGED", "MITIGATED">>,
          <<"ACKNOWLEDGED", "RESOLVED">>, <<"MITIGATED", "RESOLVED">>}

\* The incident of alert a moves to status if it may.
MoveIncident(a, status) ==
    alerts' = [alerts EXCEPT ![a].incident =
                 IF <<@, status>> \in Moves THEN status ELSE @]

Acknowledge(t) ==
    /\ job[t].pc = "acknowledge"
    /\ MoveIncident(job[t].found.alert, "ACKNOWLEDGED")
    /\ Done(t)
    /\ UNCHANGED <<row, request, stale, overwritten, disturbed>>

Mitigate(t) ==
    /\ job[t].pc = "mitigate"
    /\ MoveIncident(job[t].seen.alert, "MITIGATED")
    /\ Done(t)
    /\ UNCHANGED <<row, request, stale, overwritten, disturbed>>

\* The SLA rollup that follows changes nothing of this module.
Resolve(t) ==
    /\ job[t].pc = "resolve"
    /\ MoveIncident(job[t].seen.alert, "RESOLVED")
    /\ job' = [job EXCEPT ![t].pc = "write"]
    /\ UNCHANGED <<row, request, stale, overwritten, disturbed>>

\* RcaService.create, submitForReview and approve: a refusal ends the draft.
Review(t, pc, from, to, next) ==
    LET a == job[t].seen.alert IN
    /\ job[t].pc = pc
    /\ IF alerts[a].rca = from
       THEN /\ alerts' = [alerts EXCEPT ![a].rca = to]
            /\ job' = [job EXCEPT ![t].pc = next]
       ELSE /\ job' = [job EXCEPT ![t].pc = "write"]
            /\ UNCHANGED alerts
    /\ UNCHANGED <<row, request, stale, overwritten, disturbed>>

CreateRca(t) == Review(t, "create", "NONE", "DRAFT", "submit")

SubmitForReview(t) ==
    Review(t, "submit", "DRAFT", "IN_REVIEW", IF Reviewer THEN "approve" ELSE "write")

Approve(t) == Review(t, "approve", "IN_REVIEW", "APPROVED", "write")

Tried == {"acknowledge", "mitigate", "resolve", "create", "submit", "approve"}

\* A side step rejects: tryStep goes on.
StepFails(t) ==
    /\ job[t].pc \in Tried
    /\ IF job[t].pc \in {"acknowledge", "mitigate"} THEN Done(t)
       ELSE job' = [job EXCEPT ![t].pc = "write"]
    /\ disturbed' = TRUE
    /\ UNCHANGED <<row, alerts, request, stale, overwritten>>

\* Any other await rejects, or the process dies.
FailTick(t) ==
    /\ job[t].pc # "off"
    /\ Done(t)
    /\ disturbed' = TRUE
    /\ UNCHANGED <<row, alerts, request, stale, overwritten>>

-----------------------------------------------------------------------------
(* What else happens to these alerts and incidents.                        *)

\* A person takes an incident of the run on, or resolves it.
PersonMovesIncident(a, status) ==
    /\ a \in Named
    /\ <<alerts[a].incident, status>> \in Moves
    /\ MoveIncident(a, status)
    /\ disturbed' = TRUE
    /\ UNCHANGED <<row, job, request, stale, overwritten>>

\* A person acknowledges the alert: findFiring no longer sees it.
PersonTakesAlert(a) ==
    /\ alerts[a].state = "FIRING"
    /\ alerts' = [alerts EXCEPT ![a].state = "ACKNOWLEDGED"]
    /\ disturbed' = TRUE
    /\ UNCHANGED <<row, job, request, stale, overwritten>>

\* Another agent's sample of the same metric starts an alert.
OtherSample(s, level) ==
    /\ FiringOf(s) = {} /\ Unused # {}
    /\ alerts' = [alerts EXCEPT ![Fresh] =
           [Fired(s, level) EXCEPT !.incident =
             IF level \in OpensIncident THEN "OPEN" ELSE "NONE"]]
    /\ disturbed' = TRUE
    /\ UNCHANGED <<row, job, request, stale, overwritten>>

Surroundings ==
    \/ \E a \in Alerts, status \in {"ACKNOWLEDGED", "RESOLVED"} : PersonMovesIncident(a, status)
    \/ \E a \in Alerts : PersonTakesAlert(a)
    \/ \E s \in Scenarios, level \in Breach : OtherSample(s, level)

Advance(t) ==
    \/ ReadRow(t)
    \/ Evaluate(t)
    \/ OpenIncident(t)
    \/ WritePhase(t)
    \/ BeginByTick(t)
    \/ Acknowledge(t)
    \/ Mitigate(t)
    \/ Resolve(t)
    \/ CreateRca(t)
    \/ SubmitForReview(t)
    \/ Approve(t)

Next ==
    \/ \E h \in Requests : Enable(h) \/ BeginByRequest(h) \/ Disable(h)
    \/ \E t \in Ticks : Advance(t) \/ StepFails(t) \/ FailTick(t)
    \/ Surroundings

Spec == Init /\ [][Next]_vars

SideStep(t) ==
    \/ Acknowledge(t) \/ Mitigate(t) \/ Resolve(t)
    \/ CreateRca(t) \/ SubmitForReview(t) \/ Approve(t)

\* The timer keeps firing and the event loop resumes every await (WF).  A tick may
\* be cut off anywhere, but none of its parts is rejected in every tick for ever
\* (SF).
Fairness ==
    \A t \in Ticks :
      /\ WF_vars(Advance(t))
      /\ SF_vars(Evaluate(t)) /\ SF_vars(SideStep(t)) /\ SF_vars(WritePhase(t))

FairSpec == Spec /\ Fairness

-----------------------------------------------------------------------------

\* A run that has come to its cooldown has recovered its alert, resolved its
\* incident and had its report approved (demo-mode.service.ts:100), whatever the
\* pacing, unless something cut in.
FinishedRunIsClean ==
    row.phase = "COOLDOWN" /\ ~disturbed =>
      /\ row.alert # Null
      /\ alerts[row.alert].state = "RESOLVED"
      /\ alerts[row.alert].incident = "RESOLVED"
      /\ alerts[row.alert].rca = IF Reviewer THEN "APPROVED" ELSE "IN_REVIEW"

\* What disable has turned off stays off (DemoModeService.disable) until somebody
\* enables it: a tick under way, whatever it still patches, turns it on again only
\* if it read the row before and is about to begin the next auto-loop.
DisableHolds ==
    [][~row.enabled /\ row'.enabled =>
         \/ \E h \in Requests : request[h].pc = "begin" /\ request'[h].pc = "idle"
         \/ \E t \in Ticks \cap stale : job[t].pc = "begin" /\ job'[t].pc = "off"]_vars

Run == INSTANCE DemoRun
       WITH enabled <- row.enabled, phase <- row.phase, torn <- overwritten

\* The row implements the bounded phase machine the class promises
\* (demo-mode.service.ts:99): no phase is skipped, repeated or taken back, whatever
\* enables, disables and overlaps there are, until a stale tick writes.
ImplementsRun == Run!Spec

\* An alert of the run's rule that fires without an incident.
Unanswered == \E a \in FiringOf(row.scenario) : alerts[a].incident = "NONE"

\* A run comes to its cooldown or is disabled ("instead of drifting indefinitely",
\* demo-mode.service.ts:101), although ticks are cut off and people and other
\* agents interfere, unless alerts without an incident keep firing at its rule or
\* new runs keep being asked for.
\* (With ticks that overlap for ever, one could keep setting back the other.)
RunEnds ==
    Cardinality(Ticks) = 1 =>
      (row.enabled ~> \/ row.phase \in {"COOLDOWN", "IDLE"} \/ ~row.enabled
                      \/ []<>Unanswered \/ []<>(\E h \in Requests : request[h].pc = "begin"))

\* "so a run reliably reaches an incident" (demo-mode.service.ts:99-100).
RunReachesIncident == row.enabled /\ row.phase = "DEGRADING" ~> row.phase # "DEGRADING"
=============================================================================
