---------------------------- MODULE DemoScenarios ----------------------------
(***************************************************************************)
(* What a demo run does to the metrics: the scenarios, the curves their    *)
(* metrics follow, and the alert rules of the seed those samples meet.     *)
(*                                                                         *)
(* Module DemoMode is about the row of a run and the calls in between;     *)
(* here a tick is one step, so that the numbers can be exact: a sample is  *)
(* a fraction [num, den] of hundredths of the metric's unit.  A random     *)
(* draw is an input, any fraction of its range in whole parts.             *)
(***************************************************************************)
EXTENDS Integers, Sequences

CONSTANTS
    Intensities,  \* intensities a run may have
    Grain,        \* a draw is so many of these parts of half its range, of either sign
    Quiet         \* no threshold is breached, no alert fires

Severities == <<"SEV1", "SEV2", "SEV3", "SEV4">>
\* The remediation actions that seeded rules name.
Actions == {"RECONNECT_DATABASE", "FAILOVER_SIMULATION", "RESTART_SERVICE", "CLEAR_CACHE"}

ASSUME ScenariosAssumption ==
    /\ Intensities \subseteq {"LOW", "MEDIUM", "HIGH"}
    /\ Grain \in Nat \ {0}
    /\ Quiet \notin Actions /\ \A i \in DOMAIN Severities : Quiet # Severities[i]

VARIABLES
    scenario,     \* the row's scenario, intensity, phase, ticksInPhase and
    intensity,    \* phaseTargetTicks
    demoPhase,
    ticks,
    target,
    sample,       \* the last sample of each metric of the scenario
    firing,       \* the severity of each rule's firing alert, or Quiet
    opened,       \* severities of the incidents this run has opened
    remedied      \* remediation actions this run has triggered

scenarioVars ==
    <<scenario, intensity, demoPhase, ticks, target, sample, firing, opened, remedied>>

-----------------------------------------------------------------------------
(* The alert rules of the seed: the thresholds of SEV1 to SEV4, all        *)
(* GREATER_THAN, and what a new SEV1 triggers.                             *)

Rule(critical, high, medium, low, action) ==
    [tiers |-> <<critical, high, medium, low>>, action |-> action]

AlertRules ==
    [ r \in { <<"core-banking-api", "db_connection_pool_used_percent">>,
              <<"core-banking-api", "error_rate_percent">>,
              <<"payments-gateway", "error_rate_percent">>,
              <<"card-processing", "error_rate_percent">>,
              <<"mobile-bff", "p99_latency_ms">>,
              <<"notification-service", "memory_utilization_percent">>,
              <<"auth-service", "error_rate_percent">>,
              <<"ledger-sync", "sync_lag_seconds">>,
              <<"kyc-service", "queue_depth">>,
              <<"reporting-batch", "queue_depth">>,
              <<"api-gateway", "error_rate_percent">>,
              <<"fraud-detection", "p99_latency_ms">> } |->
        CASE r[2] = "db_connection_pool_used_percent" -> Rule(9500, 8500, 7000, 5500, "RECONNECT_DATABASE")
          [] r = <<"core-banking-api", "error_rate_percent">> -> Rule(1000, 500, 200, 100, Quiet)
          [] r[1] = "payments-gateway" -> Rule(800, 400, 200, 100, "FAILOVER_SIMULATION")
          [] r[1] = "card-processing" -> Rule(800, 400, 200, 100, "RESTART_SERVICE")
          [] r[1] = "mobile-bff" -> Rule(300000, 150000, 80000, 40000, "CLEAR_CACHE")
          [] r[1] = "notification-service" -> Rule(9500, 8800, 7500, 6500, "RESTART_SERVICE")
          [] r[1] = "auth-service" -> Rule(800, 400, 200, 100, "RESTART_SERVICE")
          [] r[1] = "ledger-sync" -> Rule(30000, 18000, 9000, 4500, Quiet)
          [] r[1] = "kyc-service" -> Rule(100000, 50000, 20000, 10000, Quiet)
          [] r[1] = "reporting-batch" -> Rule(200000, 100000, 50000, 20000, Quiet)
          [] r[1] = "api-gateway" -> Rule(500, 200, 100, 50, Quiet)
          [] r[1] = "fraud-detection" -> Rule(200000, 100000, 50000, 25000, Quiet) ]

\* ThresholdEvaluator: the worst tier whose threshold the sample is above.
Tier(x, rule) ==
    LET breached == {i \in 1 .. 4 : x.num > rule.tiers[i] * x.den}
    IN IF breached = {} THEN Quiet ELSE Severities[CHOOSE i \in breached : \A j \in breached : i <= j]

-----------------------------------------------------------------------------
(* The scenarios: the service, the metric its rule is on, the metrics that *)
(* are to move with it, each from its baseline to its target, and the      *)
(* action the run's summary names.  The synthetic metrics have no rule and *)
(* nothing reads them back; names, titles and texts are left out.          *)

Moves(metric, baseline, to) == [metric |-> metric, baseline |-> baseline, target |-> to]

DatabaseOutage ==
    [ service |-> "core-banking-api", ramp |-> FALSE, action |-> "RECONNECT_DATABASE",
      primary |-> Moves("db_connection_pool_used_percent", 2800, 9900),
      correlated |-> {Moves("error_rate_percent", 15, 350), Moves("availability_percent", 9998, 9100)} ]

DependencyFailure ==
    [ service |-> "auth-service", ramp |-> FALSE, action |-> "RESTART_SERVICE",
      primary |-> Moves("error_rate_percent", 20, 1100),
      correlated |-> {Moves("p99_latency_ms", 14000, 210000), Moves("availability_percent", 9997, 9350)} ]

LatencySpike ==
    [ service |-> "mobile-bff", ramp |-> FALSE, action |-> "CLEAR_CACHE",
      primary |-> Moves("p99_latency_ms", 18000, 360000),
      correlated |-> {Moves("requests_per_second", 14000, 64000), Moves("cpu_utilization_percent", 3800, 9600)} ]

DeploymentFailure ==
    [ service |-> "card-processing", ramp |-> FALSE, action |-> "RESTART_SERVICE",
      primary |-> Moves("error_rate_percent", 10, 950),
      correlated |-> {Moves("p99_latency_ms", 16000, 140000)} ]

MemoryLeak ==
    [ service |-> "notification-service", ramp |-> TRUE, action |-> "RESTART_SERVICE",
      primary |-> Moves("memory_utilization_percent", 4200, 9700),
      correlated |-> {Moves("error_rate_percent", 10, 400)} ]

ThirdPartyOutage ==
    [ service |-> "payments-gateway", ramp |-> FALSE, action |-> "FAILOVER_SIMULATION",
      primary |-> Moves("error_rate_percent", 12, 900),
      correlated |-> {Moves("p99_latency_ms", 19000, 260000)} ]

DemoScenarioDefs ==
    [ DATABASE_OUTAGE |-> DatabaseOutage, DEPENDENCY_FAILURE |-> DependencyFailure,
      LATENCY_SPIKE |-> LatencySpike, DEPLOYMENT_FAILURE |-> DeploymentFailure,
      MEMORY_LEAK |-> MemoryLeak, THIRD_PARTY_OUTAGE |-> ThirdPartyOutage ]

Def == DemoScenarioDefs[scenario]
Metrics(def) == {def.primary} \cup def.correlated

\* The shortest and the longest phases an intensity allows.
IntensityProfiles ==
    [ LOW    |-> [baseline |-> 3 .. 5, degrading |-> 7 .. 10, incident |-> 4 .. 6, remediating |-> 6 .. 8],
      MEDIUM |-> [baseline |-> 2 .. 3, degrading |-> 4 .. 7,  incident |-> 2 .. 4, remediating |-> 4 .. 6],
      HIGH   |-> [baseline |-> 1 .. 2, degrading |-> 3 .. 4,  incident |-> 1 .. 2, remediating |-> 2 .. 3] ]

\* Math.round(ticks * 1.8) of a ramp, which rounds halves up.
RampScaledTicks(range, ramp) == {IF ramp THEN (18 * n + 5) \div 10 ELSE n : n \in range}

-----------------------------------------------------------------------------
(* The curve, at k of n ticks.                                             *)

Draws == -Grain .. Grain

Abs(i) == IF i < 0 THEN -i ELSE i

\* easeInOutQuad(k / n) * n * n.
EaseInOutQuad(k, n) == IF 2 * k < n THEN 2 * k * k ELSE n * n - 2 * (n - k) * (n - k)

\* A ramp gets 0.4 of the size of its noise: it never falls.
RampTenths == 4

\* The noise is up to 0.06 of the span, of either sign; the two ends get none.
Curve(m, k, n, ramp, draw) ==
    LET span == m.target - m.baseline
        noise == IF k \in {0, n} THEN 0 ELSE 3 * Abs(span) * draw
    IN IF ramp
       THEN [ num |-> 500 * Grain * (m.baseline * n + span * k) + RampTenths * Abs(noise) * n,
              den |-> 500 * Grain * n ]
       ELSE [ num |-> 50 * Grain * (m.baseline * n * n + span * EaseInOutQuad(k, n)) + noise * n * n,
              den |-> 50 * Grain * n * n ]

\* One sample of each metric: the primary at primaryK of n, the others at k.
RecordAt(primaryK, k, n) ==
    \E draw \in [Metrics(Def) -> Draws] :
      sample' = [m \in Metrics(Def) |->
                   Curve(m, IF m = Def.primary THEN primaryK ELSE k, n, Def.ramp, draw[m])]

RuleOf(m) == <<Def.service, m.metric>>
Ruled == {m \in Metrics(Def) : RuleOf(m) \in DOMAIN AlertRules}
FiringNow(m, x) == Tier(x, AlertRules[RuleOf(m)])

\* The rules whose alert is new, in any order: at most two of one sample.
NewlyFiring(severities) ==
    {m \in Ruled : firing[RuleOf(m)] = Quiet /\ FiringNow(m, sample'[m]) \in severities}

\* evaluateMetric of every sample: only a new alert opens an incident (SEV1,
\* SEV2) or triggers the rule's remediation (SEV1).
EvaluateMetrics ==
    /\ firing' = [r \in DOMAIN firing |->
                    IF \E m \in Ruled : RuleOf(m) = r
                    THEN FiringNow(CHOOSE m \in Ruled : RuleOf(m) = r,
                                   sample'[CHOOSE m \in Ruled : RuleOf(m) = r])
                    ELSE firing[r]]
    /\ opened' = [s \in {"SEV1", "SEV2"} |-> opened[s] \cup NewlyFiring({s})]
    /\ remedied' = remedied \cup
         ({AlertRules[RuleOf(m)].action : m \in NewlyFiring({"SEV1"})} \ {Quiet})

\* What the primary metric's alert was resolved by this tick.
PrimaryResolved == firing[RuleOf(Def.primary)] # Quiet /\ firing'[RuleOf(Def.primary)] = Quiet

-----------------------------------------------------------------------------
(* The phases.                                                             *)

NothingOpened == [s \in {"SEV1", "SEV2"} |-> {}]

ScenariosInit ==
    /\ scenario \in DOMAIN DemoScenarioDefs
    /\ intensity \in Intensities
    /\ demoPhase = "BASELINE"
    /\ ticks = 0
    /\ target \in IntensityProfiles[intensity].baseline
    /\ sample = [m \in Metrics(Def) |-> Curve(m, 0, 1, Def.ramp, 0)]
    /\ firing = [r \in DOMAIN AlertRules |-> Quiet]
    /\ opened = NothingOpened
    /\ remedied = {}

LastTick == ticks + 1 >= target

Enter(next, targets) ==
    /\ demoPhase' = next /\ ticks' = 0 /\ target' \in targets

Stay == demoPhase' = demoPhase /\ ticks' = ticks + 1 /\ target' = target

HandleBaseline ==
    /\ demoPhase = "BASELINE"
    /\ RecordAt(0, 0, target) /\ EvaluateMetrics
    /\ IF LastTick
       THEN Enter("DEGRADING", RampScaledTicks(IntensityProfiles[intensity].degrading, Def.ramp))
       ELSE Stay
    /\ UNCHANGED <<scenario, intensity>>

\* The mutated form: the primary metric climbs with the others.
PrimaryClimbs == ticks + 1

\* The primary metric snaps from its baseline to its target on the last tick.
PrimaryProgress == IF LastTick THEN target ELSE 0

\* It waits, at the last tick, until the alert has an incident and is SEV1.
HandleDegrading ==
    /\ demoPhase = "DEGRADING"
    /\ RecordAt(PrimaryProgress, ticks + 1, target) /\ EvaluateMetrics
    /\ IF firing'[RuleOf(Def.primary)] = "SEV1" /\ Def.primary \in opened'["SEV1"] \cup opened'["SEV2"]
       THEN Enter("INCIDENT", IntensityProfiles[intensity].incident)
       ELSE /\ ticks' = IF LastTick THEN ticks ELSE ticks + 1
            /\ UNCHANGED <<demoPhase, target>>
    /\ UNCHANGED <<scenario, intensity>>

HandleIncident ==
    /\ demoPhase = "INCIDENT"
    /\ RecordAt(target, target, target) /\ EvaluateMetrics
    /\ IF LastTick
       THEN Enter("REMEDIATING", RampScaledTicks(IntensityProfiles[intensity].remediating, Def.ramp))
       ELSE Stay
    /\ UNCHANGED <<scenario, intensity>>

\* What is left of the way back after this tick.
RecoveryTicks == IF LastTick THEN 0 ELSE target - (ticks + 1)

HandleRemediating ==
    /\ demoPhase = "REMEDIATING"
    /\ RecordAt(RecoveryTicks, RecoveryTicks, target) /\ EvaluateMetrics
    /\ IF PrimaryResolved \/ LastTick THEN Enter("RESOLVED", {1}) ELSE Stay
    /\ UNCHANGED <<scenario, intensity>>

\* The phases after RESOLVED record no sample; the next run of an auto-loop is
\* of another scenario.
BeginScenario ==
    /\ demoPhase = "RESOLVED"
    /\ scenario' \in DOMAIN DemoScenarioDefs \ {scenario}
    /\ Enter("BASELINE", IntensityProfiles[intensity].baseline)
    /\ sample' = [m \in Metrics(Def)' |-> Curve(m, 0, 1, Def'.ramp, 0)]
    /\ opened' = NothingOpened
    /\ remedied' = {}
    /\ UNCHANGED <<intensity, firing>>

ScenariosNext ==
    \/ HandleBaseline \/ HandleDegrading \/ HandleIncident \/ HandleRemediating \/ BeginScenario

-----------------------------------------------------------------------------
(* Properties.                                                             *)

\* Every run opens exactly one incident, a SEV1 of its primary metric, when it
\* leaves DEGRADING, and has then triggered exactly the remediation its summary
\* names: no sample on the way there, of any metric under any noise, fires an
\* alert that opens one earlier.  And once the run has recovered, whichever tick
\* of REMEDIATING was its last, the alert of its primary metric is resolved.
OneSevereIncident ==
    IF demoPhase \in {"BASELINE", "DEGRADING"}
    THEN opened = NothingOpened /\ remedied = {}
    ELSE /\ opened = [SEV1 |-> {Def.primary}, SEV2 |-> {}]
         /\ remedied = {Def.action}
         /\ demoPhase = "RESOLVED" => firing[RuleOf(Def.primary)] = Quiet

=============================================================================
