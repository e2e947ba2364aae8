# Verification of the BankOps Control Center

TLA+ models of the API in `src/apps/api`, of its seed scripts and of the life of
a page of its web console, checked with TLC on small instances and proved with TLAPS
for all values of the constants: every safety property of the checks, all but the
liveness ones. All source paths below are relative to
`src/apps/api/src/` unless they start with `src/`.

The API is one Express program over one Postgres database, possibly run as
several replicas. What makes it hard is the same everywhere: **a handler is an
async function that awaits a read, checks what it read, awaits an UPDATE that
names only the row's id, and awaits the entries that tell of it. There is no
transaction anywhere and almost no conditional UPDATE.** Any other handler,
timer or replica runs at each await, and each await may reject. The models keep
exactly these steps, and the properties say what survives.

## 1. Inventory

| component (code) | state it keeps | operations | what is hard | what makes it correct |
| --- | --- | --- | --- | --- |
| Incidents (`modules/incidents/incidents.*`) | row: status, severity, commander, timestamps, escalation level; timeline; `alerts.incidentId` | create, reclassifySeverity, assign, acknowledge, mitigate, resolve, close (RCA gate), reopen, addComment | read-check-write over several awaits; the gate adds one more | transitions are legal; timestamps agree with the status; no P1/P2 closed without its RCA; row, timeline and audit agree |
| Escalation (`escalation-engine.ts`, `incident-escalation.service.ts`) | none of its own: `escalationLevel`, `lastEscalatedAt` on the incident | runSweep, from a timer of every replica and over HTTP | overlapping sweeps without a lock, stale snapshot, cut off between record and page | not before the SLA, paced, every level paged once, a breach is paged in the end, if need be by the next level |
| RCA (`modules/rca/rca.*`) | report: status, author, reviewer, text; corrective actions | create, update, submitForReview, approve, corrective actions | create race against a unique index; stale write over an approval | four eyes; an approved report is final; the audit trail does not lie |
| RCA report generator (`modules/rca/rca-report-generator.ts`) | none | renders rows | none | pure rendering |
| Alerts (`modules/alerts/alerts.*`) | alert: state, severity, incident | evaluateMetric (fire, update, auto-resolve, open incident, remediate), acknowledge, resolve, linkToIncident | firing alert read twice; index race; partial failure; two links | one firing alert per rule; one response per alert; a severe alert has its incident; no alert is taken over |
| Threshold evaluator (`modules/alerts/threshold-evaluator.ts`) | none | which severity a value breaches | boundaries | a demo run meets the seeded rules as it should |
| Remediation (`modules/remediation/*`) | circuit breaker per action in memory; service status | execute: retries, breaker, audit, auto-resolve, fallback | results arrive late and in another state of the breaker; lost answers; restart | trips on a streak only; a closed circuit is below its threshold; an open one lets a trial through |
| Failure simulator (`modules/failure-simulator`) | scenario: active, tick count | start, stop, tick | find-then-create with no index; ticks overlapping a stop | a step of a scenario is sampled once |
| Demo mode (`modules/demo-mode`) | one row: phase, ids of what the phase waits for | enable, disable, tick | a tick writes columns of a row read before; a phase may wait for what never comes | phases advance in order; a disable holds; a run ends and leaves nothing firing or open |
| Scheduler and process (`server.ts`, `system-actor.ts`, advisory locks) | Postgres session locks; the cached system actor | boot, escalation and SLA jobs (no lock), simulator and demo (lock), shutdown | setInterval overlaps itself; lock and unlock on different pooled connections; a lookup outside the try; an exit that waits | no two replicas tick at the same time (not: one tick per interval); the lock is given back; a blip ends no process that works; a signal ends it |
| Services (`modules/services`) | service row, dependencies | register, update, updateStatus, archive, dependencies, blast radius | archive counts and then writes; loops in the graph | nothing depends on what is archived; the blast radius is the shortest chains |
| Service metrics (`modules/services/service-metrics.*`) | samples | record, then evaluateMetric | none of its own | each sample is evaluated |
| Runbooks (`modules/runbooks`) | runbook, version, links | create, edit, link, recordOutcome | edits that overlap; PENDING check, then write | a version names one text; an outcome is recorded once |
| SLA (`modules/sla`) | period rows | calculate and upsert, rollup | a clock read before two queries; rounding of doubles; window ends | a record is right for the time it is about and contradicts itself by a hundredth at most |
| Audit (`modules/audit`) | append-only log | record, list by cursor | rows commit out of order while the log is read | a reader sees each row once |
| Auth and users (`modules/auth`, `modules/users`, `middleware`) | users; a token in the browser | login, logout, lookup and role check of every request | the account changes while a token lives; the database fails | rights are those of the row; a refusal has a cause |
| HTTP layer, webhook (`app.ts`, `api/v1/router.ts`, `modules/*/*.router.ts`) | rate-limit counts | dispatch, limits, validation, error mapping | routers that shadow each other | a request meets the route and the roles meant for it |
| Web console (`src/apps/web`) | session, filters, requests, data, marks | visit, sign in and out, filter, load | answers that overtake each other or are cut off | what is shown answers the filter that is chosen |
| Seed scripts (`src/apps/api/prisma`) | every table | wipe and fill; make up incidents and SLA windows | statements cut off against foreign keys; stamps drawn and clamped | no statement is refused; made-up histories could have happened; downtime is charged once |
| Health, metrics, logging, configuration, docs, infra | none | I/O, wiring, deployment | none across steps | - |

Interactions: a metric sample calls `AlertsService.evaluateMetric`, which calls
`IncidentsService.create` for a new P1/P2 alert and `RemediationEngine.execute`
for a new P1 whose rule names an action; the engine updates the service and, when
asked, calls `IncidentsService.resolve`. `IncidentsService.close` asks the RCA
service whether the report is APPROVED. The scheduler calls the escalation
sweep, the SLA rollup, the simulator (which records metrics) and demo mode (which
records metrics and drives incidents and RCA as a user would). Everything shares
the database; only the circuit breakers, the rate limits and the cached actor are
process memory.

`PROJECT.json` lists the hazards found in this code, each at its line, with the
properties that cover it or the reason none does.

## 2. What is modelled

A request in flight is a record in `handler` (or `eval`, `person`, `call`, `sweep`,
`job`, `request`, `requests`, `calculation`): `pc` names the await it is at, the other
fields are the local variables of the handler that later steps use. The step that
reads and checks begins a request; a request that is refused by its check changes
nothing and is left out. Each later action is one await with everything the code does
up to the next. `Abort...` and `Fail...` are an await that rejects or a process that
dies, at any point. History variables (`stale`, `disturbed`, `streak`, ...) only record
what happened and guard nothing.

| module | models | state and actions in the code |
| --- | --- | --- |
| `Severity` | `SEVERITY_LEVELS` and `requiresRcaToClose` | five minutes are one unit of time |
| `Incidents` | `IncidentsService`, `incidents.repository.ts` | `incidents` is the table; `Create` ... `Reopen` are the first halves of the service methods, `CheckRcaGate` the await of the RCA gate, `InsertIncident`, `WriteSeverity`, `WriteCommander`, `WriteStatus` the UPDATEs, then `AppendTimeline` and `RecordAudit`. `ApproveRca`/`WithdrawRca` stand for module Rca |
| `Escalation` | `EscalationEngine.evaluate` and `runSweep`, over `Incidents` (EXTENDS) | `ShouldEscalate` is the engine; `StartSweep` (takes the time), `ReadCandidates` (the snapshot), `RecordEscalation`, `AppendEscalated`, `NotifyEscalation`, `AuditEscalation` are the awaits of a sweep; `LifecycleStep` is any step of `Incidents` |
| `Rca` | `RcaService` | one report per incident, as the unique index has it; `InsertReport` is refused by the index, `WriteUpdate`, `WriteSubmit`, `WriteApprove` are unconditional |
| `Alerts` | `AlertsService`, `alerts.repository.ts`, one rule | `FindFiring` and `FindAgain` are the two reads, `InsertAlert` the INSERT under the partial unique index, `AuditFired` the decision what else to do, `OpenIncident`, `LinkAlerts`, `LinkToIncident` the incident, `TriggerRemediation` the call of the engine; `Acknowledge`/`Resolve` and `WriteState` are people |
| `Remediation` | `RemediationEngine.execute`, `CircuitBreaker`, `retry.ts`, one action | `Admit`, `OnSuccess`, `OnFailure` are the breaker's synchronous methods; `Begin`, `RestartService`, `SettleSuccess`, `RetryAttempt`, `SettleFailure`, `RecordSuccess`, `ResolveIncident`, `FallBack`, `RecordFailure` the awaits of a call; `Restart` loses the breaker |
| `Scheduler` | `startScheduledJob` and `withAdvisoryLock` of `server.ts`, one lock key | `TryLock` (an overlapping callback on the session that has the lock enters again), `EndTick` (resolved or thrown), `Unlock` or `MissUnlock` (on whichever session the pool gives), `LoseConnection`, `CrashReplica` |
| `Intervals` | the timers of the replicas around such a job, over `Scheduler` (EXTENDS) | every replica's timer fires once per interval at a moment of its own: `Fire` asks for the lock then, `FireRefused` finds it taken, `Work` is the job and the unlock |
| `FailureSimulator` | `FailureSimulatorService`, as a job of `Scheduler` (EXTENDS) | `Start`, `Stop` and their writes; `ListActive`, `Sample`, `IncrementTick` are the awaits of a tick, `FailTick` its rejection |
| `DemoMode` | `DemoModeService`, its row, and the alerts, incidents and reports it drives | `ReadRow` begins a tick, `Evaluate` and `OpenIncident` are the sample it records, `WritePhase` the patch of the phase (only the columns it names), `SideStep` the incident and report calls after it, `Enable`, `BeginByRequest`, `BeginByTick`, `Disable`, `FailTick`; people and other agents move the same alerts, incidents and reports |
| `DemoRun` | the promise of `DemoMode`: "a bounded phase state machine" | abstract: one phase after the other, begun afresh or ended by a disable; `Tear` is a tick that writes over what another handler wrote since it read |
| `DemoScenarios` | `demo-scenarios.ts`, the curves of `demo-mode.service.ts`, the seeded rules and `threshold-evaluator.ts` | a tick of each phase is one step that samples every metric of the scenario exactly, with noise at its extremes, and meets the rules of the seed |
| `Catalog` | `ServicesService`, `ServiceDependenciesService` | register, edit, archive (its two counts in either order, then the write), draw and delete dependencies, with incidents opened beside |
| `BlastRadius` | the recursive query of `service-dependencies.repository.ts` | `Affected` is the query level by level; `ShortestChains` its definition by paths |
| `Runbooks` | `RunbooksService` | `WriteEdit` increments the version in the UPDATE, a link keeps the version that was read, `RecordOutcome` writes what was PENDING when read |
| `Sla` | `SlaTrackingService`, `sla-calculator.ts`, the incident queries of `sla-data.repository.ts` | a calculation reads the clock, gathers downtime and recoveries in either order, calculates to the nearest hundredth and upserts; a rollup fixes its month before |
| `Routes` | every router of `api/v1/router.ts` | the route tables in Express' order, with who may call each; `Matches` is Express' choice |
| `Access` | `app.ts`, the middleware, `AuthService` | a request goes through the limiters, the router, `Authenticate`, `Authorize`, validation and the handler; login and logout in full; accounts are edited and tokens expire meanwhile |
| `AuditTrail` | `audit-logger.ts`, `audit.router.ts` | `Record` takes an id, `Commit` makes the row visible or loses it, `ReadPage` is one page of a walk by cursor |
| `Server` | `main`, `startScheduledJob`, `shutdown`, `resolveSystemActor` | `Boot`, `StartTick`, `LookUp` (its rejection is unhandled and ends the process), `Signal`, `Drain`, `Exit`, `ForceExit`, with a database that comes and goes |
| `Console` | `useResource`, `apiFetch`, `SessionProvider`, login page, `Topbar`, overview page | `Ask` aborts the request before it, `Receive`, `Body`, `CutOff`, `Fail` are what comes of it; `Visit`, `SignIn`, `SignOut`, `Navigate`, `Denied`, `Settled` the session |
| `SeedScripts` | `prisma/seed.ts`, `prisma/seed-history/index.ts` | each statement of both scripts, refused by the foreign keys of the schema or not, cut off anywhere and run again, with the platform writing between and during |
| `SeededStory` | `incidents-gen.ts`, `narrative.ts` | how the stamps of one made-up incident are drawn and clamped |
| `SeededWindows` | `sla-gen.ts` | days, weeks and months of the history and what a beat is charged to each |

How the modules meet. `Escalation` extends `Incidents`, so its runs compose the two:
sweeps race with every lifecycle operation. `FailureSimulator` extends `Scheduler` and is
proved to implement it: `Scheduler` is the abstract specification of a locked job.
`DemoMode` implements `DemoRun` under a refinement mapping (`INSTANCE DemoRun WITH enabled
<- row.enabled, phase <- row.phase, torn <- overwritten`). `Access` extends `Routes`. The
others meet at named places: the RCA status that `Incidents` reads (`rcaApproved`), the
incident and the remediation that `Alerts` opens and triggers, the resolution that
`Remediation` asks for, the alert and incident moves `DemoMode` makes, each as the
service it calls has them.

Abstractions, beyond those in the module comments:

* Texts, names and roles are members of small sets; what an entry says is kept
  only as far as a property reads it. Comments on an incident and corrective
  actions of a report change no row that decides anything and are left out.
* A tick of the simulator samples all metrics of a simulation in one step (`Sample`), as what
  its evaluations do to alerts is module `Alerts` and no property of the tick depends on it.
* Of timestamps only those that the code compares keep a value (`openedAt`,
  `lastEscalatedAt`, those of `Sla` and of the seeded stories); of the others only
  whether they are set.
* `Remediation` keeps ages in place of times. The code only computes
  `now - openedAt`, and `openedAt` is the time the failed call *began*, so an
  age capped at the timeout tells apart all the code does.
* In `Alerts` the rule is part of the sample, since anybody may rewrite it
  between two of them, and the evaluator's answer is an input.
* A random draw of the seed or of a demo curve is an input. Which draws are looked at is
  a constant (`Drawn` in `SeededStory`, `Grain` in `DemoScenarios`, which cuts the range of
  a noise into equal parts): TLC takes the ends of a range and the middle, the theorems
  hold of any.
* The code computes SLA figures as doubles. For windows of a month and whole
  milliseconds their error is smaller than the distance of a figure from
  the nearest half of a hundredth, or of an availability from its target, unless they are
  equal. So `Sla` computes exactly, in units of time that are any part of a minute
  (`MinuteLength`), and leaves open the two things that the error can decide: which
  hundredth a figure that lies half way is rounded to, and how the comparison of equals
  comes out. Targets are in hundredths of a percent, as they are stored.
* A sum of times is the number of pairs of what is summed over and a unit of time of it: in
  `Sla` an incident and a moment that it was down, in `SeededWindows` a window and a
  tenth of its downtime. So it is one cardinality, whatever the order of the additions,
  and what overlaps is counted for each, as the code does.
* A page of the audit log is the set of its rows: they are told apart by their ids, and
  the order is theirs.
* A table is empty or not in `SeedScripts`: a `deleteMany` without a condition
  empties it or is refused.
* No code of the API edits an account. `EditAccount` in `Access` stands for whoever
  does, and is marked external.

## 3. What is checked

Each run's properties are in its `.cfg`; every property is also run against a
mutant of the code (listed in `PROJECT.json`) that it must refute. The mutated
forms stand next to the definitions they change.

| run | question | answer |
| --- | --- | --- |
| `incidents` (`MCIncidents`) | two requests in flight on one incident, with the RCA gate changing | timestamps agree with the status although no UPDATE is conditional; illegal transitions and skipped gates come only from stale writes; row, timeline and audit agree when requests did not overlap and none was cut off |
| `escalation` (`MCEscalation`) | two sweeps against the lifecycle | nobody is paged within the SLA whatever the snapshot; a sweep misfires only when its row was written since; every level is paged once unless disturbed |
| `escalation_live` (`MCEscalation`) | is anybody paged for a breach although sweeps are cut off | yes, under the fairness below, but not always by the first level: a sweep cut off between recording a level and paging it loses that page for good, and the next level makes it good when its time comes; if the chain is used up or the time does not come, nobody is paged |
| `alerts` (`MCAlerts`) | samples and people on one rule | one firing alert; one response per alert unless two evaluations overlapped; a severe alert has its incident unless its evaluation was cut off or had seen its predecessor; only stale writes revive an alert |
| `failure_simulator` (`MCFailureSimulator`) | callbacks of two replicas under the lock, sessions lost, replicas dying | only one replica ticks at a time unless a session was lost under a tick; the lock is free again unless an unlock missed its session; each step of a scenario is sampled once unless ticks of one session overlapped on it or one was cut off |
| `demo_mode` (`MCDemoMode`) | a run with requests, cuts, people and agents beside it | the row implements `DemoRun`; what disable turned off stays off but for a tick that had read the row before it; a run ends, and unless something cut in it leaves its alert and incident resolved and its report approved |
| `records` (`MCRecords`) | catalog, runbooks and SLA records, and what the seed writes | a service is archived over a dependency or incident only if that came in behind the counts; a version names one text; outcomes are rewritten only by an overtaken handler; an SLA record has the downtime and the recoveries of its time, and contradicts its breach flag by a hundredth at most; the scripts are never refused unless the platform writes while they run; made-up stories are in order but for those with too little time to happen in; downtime is charged once; every scenario opens exactly one incident, when it should; the blast radius is that of shortest chains |
| `api` (`MCApi`) | one process: access, audit log, boot and shutdown, circuit breaker, console; and the review of a report by three requests | a handler runs only with rights its account has; refusals have a cause; a reader of the log sees each row once; a signal ends the process; a database that goes away ends it only before its first tick; the breaker is below its threshold while closed, trips on a whole streak, and lets a trial through in the end; four eyes and the audit trail survive every interleaving and every cut of a review, and an approved report changes only through a stale write; the page shows the answer to the filter that is chosen |

`records` and `api` hold several components that share no state. A behaviour is of one
part, chosen at the start, and the state of the others stays as it starts; so each
part is explored by itself, and no interleaving of the parts is lost that could matter.

Four runs show that what a comment says is not what the code does. Each checks
that sentence and ends with TLC's counterexample.

| run | the sentence | what happens |
| --- | --- | --- |
| `closed_without_rca` | "A P1/P2 cannot be closed without an approved RCA on file" (`incidents.service.ts:213`) | the severity is raised, or the approval overwritten, between the reads of `close` and its UPDATE |
| `alert_hijacked` | "must never let one incident hijack another's alert" (`incidents.repository.ts:97`) | the alert service links a second time without the condition that the first link has |
| `demo_stuck` | "a run reliably reaches an incident ..." (`demo-mode.service.ts:99`) | a tick that is cut off between firing the alert and opening the incident leaves an alert for which no later sample opens one, and DEGRADING waits for it for ever |
| `ticks_per_interval` (`MCIntervals`) | "exactly one replica actually runs the tick per interval regardless of how many are running" (`server.ts:39`) | the lock is given back when a tick is over; a replica whose timer fires after that takes it and ticks again in the same interval, so a scenario ramps twice as fast. `failure_simulator` shows what the lock does give: no two replicas tick at the same time |

Other behaviours that modelling met and that the properties above admit by name, so
that a reader knows them:

* Two sweeps that overlap page the same level twice (`sweepDisturbed`), in spite of
  "nothing gets double-escalated" (`incident-escalation.service.ts:62`).
* A HALF_OPEN circuit lets through every call that finds it so, not "exactly one"
  (`circuit-breaker.ts:24`).
* The catch of `execute` also covers the audit entry and the resolution, so a service
  that was just restarted can be marked DEGRADED (`remediation-engine.ts:88`).
* A made-up incident in progress is mitigated two to ten minutes ago (`incidents-gen.ts:244`),
  even when it was opened or acknowledged later than that (`MitigatedInTurn`). One that is
  opened in the last minute of its beat is resolved before it is acknowledged.
* An error budget that is spent exactly can be recorded as overrun by a hundredth without a
  breach, or the other way round: 300 ms of a window of five minutes, at 99.9, are
  consumed 0.01 of a budget of 0.00, and no breach (`sla-calculator.ts:50`).
* Incidents that overlap are added up in `downtimeMinutes`, so availability can be
  below zero.
* `authenticate` answers 401 when the database fails, and the console then goes to its
  login page; signing out while the API is unreachable leaves the cookie in place.
* A malformed JSON body is answered 500: the error handler does not know the parser's
  error.
* `z.coerce.boolean()` makes `?isActive=false` true, so the console's "inactive" filter
  shows the active services (`Applied` in `Console`).

### Bounds, and why they are enough

* `MCIncidents`: one incident (no operation touches two), two requests (a race is
  between a reader and a writer), SEV2 and SEV3 (the gate on either side), one
  person who is a commander, one instant (nothing here compares times;
  `MCEscalation` has a responder and a moving clock).
* `MCEscalation`: SEV1 and SEV2, and the instants 0, 1, 2, 4, 6 (in units of five
  minutes), which are on, just before and just after the SEV1 acknowledgement
  SLA (1) and pacing (2) and around the SEV2 SLA (3); a SEV1 can be paged
  at 2, 4 and 6, its whole chain, and the pacing of SEV2 (6), which these instants
  do not reach, is the same comparison. One request and two sweeps at a time. Pages
  are counted up to two. `VIEW` leaves out the newest timeline and audit entries
  and the histories of `Incidents`, which guard nothing and no property of the
  run names.
* `MCEscalationLive`: one incident, one person and one sweep, SEV1 and the instants 0, 2 and
  4: at 2 the SLA has passed and the first page is due, at 4, the last (`Horizon`), the
  second, which makes good a page that was lost.
* `MCAlerts`: a severity that opens incidents and remediates (SEV1) and one that
  does neither (SEV3), two alerts so that one is resolved while its successor
  fires, three samples (two that race and one that ends the first alert), two
  incidents and one request of a person. An alert's inserts stop when the ids are
  used up. No deadlock check here: each sample and each request happens once.
* `MCFailureSimulator`: a replica with two sessions and two callbacks (which overlap)
  and another with one of each (which competes), one simulation that is ticked up
  to three times, one start or stop at a time. The lock is held at most twice. A second
  simulation multiplies the states by fifteen and meets the first only in
  the order of the walk.
* `MCIntervals`: two replicas with a session and a callback each; the counterexample is a
  trace of five states without any failure.
* `MCDemoMode`: one scenario, one tick and one request at a time, three alerts (one
  stands, one fires, one is its successor), phases of one or two ticks. The request races
  the tick at each of its awaits. Two ticks at a time, which need a session to enter
  its own lock, are in the proofs, for any number. `VIEW` keeps of a tick what it will
  still use and of the alerts what names them, as their ids decide nothing.
* `MCRecords`: two services, slugs, dependency rows and requests and one incident; two
  runbooks, links and handlers and two edits; a month of three units, of
  which a minute has forty, so that odd numbers of them lie half way between hundredths; a
  target of one half, which a window of two units can meet, miss and spend exactly on a
  half; two incidents (so that they overlap) and one calculation (the theorem is of any
  number: what one does to another is to write its record over); every statement of the scripts; every severity and clamp
  of a story, with beats in progress that began up to 23 hours or only twelve minutes ago; a history of 183 days, with beats of up to a week at either end of it and
  across the first end of a month, wherever in its month the history starts; all scenarios at all intensities with numbers as in the source; the
  seeded graph and every graph of four services with a depth limit of three (the code's
  ten is beyond a graph that small).
* `MCApi`: one account whose role and activity change, one request at a time of each
  kind of route (accounts meet nowhere else); five audit rows and pages of two; two
  ticks, two requests; the engine's own options (threshold 3, three attempts, one
  success to close), a timeout of two ticks so that ages before, during and at
  the timeout differ, and two calls, so that one settles under the circuit the
  other has made; one report, two people (an author and a reviewer) and three requests: one
  that overtakes, one that is overtaken, one that approves meanwhile; a resource with three filters and one without.
* Requests, sweeps, samples and texts that only are compared for equality form
  symmetry sets in the runs without liveness properties.

### Fairness

* `escalation_live`: `setInterval` starts sweeps for ever (WF on `StartSweep`), the
  event loop resumes every await (WF on the entries and the page), time passes
  (WF on `Tick` while the bound allows). `AbortSweep` may cut off any sweep, so the
  two steps a cut disables again and again, `ReadCandidates` and `RecordEscalation`,
  get SF: the database does not reject the same statement of every sweep for ever.
  Nothing is assumed of a page after its level is recorded: `AbortSweep` may lose it, and
  `BreachIsPaged` excepts only what was lost with no level left whose time comes.
  People are under no fairness: nobody has to acknowledge.
* `demo_mode`: the timer ticks for ever (WF on the steps of a tick), and the same
  statement is not rejected for ever (SF on `Evaluate`, `SideStep`, `WritePhase`).
  Requests, people and other agents are under no fairness. `RunEnds` says which
  surroundings it excepts: alerts without an incident that keep firing at the rule, and
  runs that keep being asked for.
* `api`, engine: `Date.now()` advances, an await settles, and calls keep coming. The
  last is about the surroundings: the breaker has no timer and leaves OPEN only
  inside a call. Each is stated of the part that moves.
* `api`, process: only the ten-second timer of `shutdown` (WF on `ForceExit`). Requests, jobs
  and the database owe nothing; that is why `ShutdownEnds` rests on the timer alone.

## 4. What is proved

Eight modules hold proofs, for every value of the constants, from the named assumptions
on them, which TLC evaluates on the instances it checks:

| module | proved |
| --- | --- |
| `RcaProofs` | type correctness, `FourEyes`, `AuditNeverLies`, `AuthorIsForever`, `OnlyStaleRequestsChangeApproved`, `OnlyStaleRequestsSkipReview` |
| `IncidentsProofs` | of `Incidents`: type correctness, `StampsMatchStatus`, `OnlyStaleRequestsBreakTransitions`, `OnlyStaleRequestsLoseTheOwner`, `OnlyStaleRequestsSkipTheRcaGate`, `QuietStoriesAgree`; of `Escalation`: `NeverPagedWithinAckSla`, `EveryLevelPagedOnce`, `OnlyStaleSweepsMisfire` |
| `AlertsProofs` | type correctness, `OneFiring`, `OnlyStaleWritesReviveAlerts`, `SevereAlertHasIncident`, `OneResponsePerAlert` |
| `FailureSimulatorProofs` | `OneReplicaAtATime` and `LockIsGivenBack` of `Scheduler`; that `FailureSimulator` implements `Scheduler` (`ImplementsScheduler`), so that both hold of it too; `EveryTickSampledOnce` |
| `DemoModeProofs` | type correctness, `DisableHolds`, `FinishedRunIsClean`, and `ImplementsRun`, the refinement of `DemoRun`, with any number of ticks side by side |
| `ApiProofs` | of `Access`: `RightsAreCurrent`, `DenialsHaveCause`; of `AuditTrail`: `WalkSeesEachRowOnce`; of `Server`: `OnlyFirstLookupsCrash`; of `Console`: `SettledMeansCurrent`; of `Remediation`: type correctness, `ClosedBelowThreshold`, `HalfOpenIsBeingTried`, `TripsOnlyOnStreak` |
| `RecordsProofs` | of `Catalog`: `OnlyOutdatedCountsArchive`; of `Runbooks`: `VersionNamesItsText`, `OnlyOvertakenHandlersRewriteOutcomes`; of `Sla`: `RecordFitsIncidents` and the arithmetic it needs (`CalculateAgrees`) |
| `SeededProofs` | `ScriptsAreAccepted`, `OnlyRushedStoriesBreakOrder`, `DowntimeIsChargedOnce` and `EveryBeatIsChargedOnce`, `OneSevereIncident`, `BlastIsShortestChains` and `QueryFindsShortestChains` |

The argument for `Rca`, `Incidents` and the action property of `Alerts` is the same.
None of these properties is inductive, for a request writes on the strength of what was
true when it read. The strengthening says what a request in flight still knows: **a
request that is not in `stale` sees the row its check saw**, so its guard holds of the
row now; a request that is stale only knows what no write can take away (that the row
exists; in `Rca`, who its author is, that a submitted report is never a draft again). A
write puts every other request on the row into `stale`, which keeps the first part; the
second is kept because no UPDATE undoes it. The action properties follow from the
invariant at the write step. `DemoMode` has the same fact about its one row (`SeenIsRow`):
a step of a tick nobody has overtaken maps to the next phase of `DemoRun`, and a step of
one that was overtaken to `Tear`. `FinishedRunIsClean` says more of a run that nothing cut
in on: its invariant (`RunInv`) is a map of where the alert, the incident and the report
are at each phase, between ticks (`Between`) and at each await of the one tick under way
(`Sampled`, `Handled`, `Following`); what the phases hand on to one another is in it, and
the property is its last entry. It needs that a rule has one firing alert, which the
model's alerts keep as module `Alerts` does.

`Escalation` adds to the invariant of `Incidents` (`EInv`) that a level on record was
written when the SLA of some severity had passed (`Paced`), that every decision a sweep
still has to write was right for the row unless the row was written since
(`SweepKnows`), and how often each level was paged, but for the sweeps between the
record and the page (`PagedSoFar`). The first needs no freshness, since time only
passes and the stamp of an opening never moves: that is why nobody is paged early
whatever the snapshot.

For `Alerts` the index makes `OneFiring` inductive. `SevereAlertHasIncident` and
`OneResponsePerAlert` rest on who is answerable for an alert: one that was first fired by
an evaluation that had seen nothing firing, and that was not cut off, has its incident or
an evaluation on its way to opening it (`Attended`); and as long as no second evaluation
that had found nothing firing meets it, only one is on that way.

For the breaker the strengthening is `CountIsEarned`: while the circuit is closed
its count never exceeds the calls that failed since the last success. Settling is
the only step that changes either, and it changes both.
`HalfOpenIsBeingTried` holds since a call is in flight from the moment it makes the
circuit HALF_OPEN, and whichever call settles first, this one or a late one,
takes the circuit out of it.

For the lock it is `HoldsForAll`: the session that has the lock is the session of every
callback under way that is still guarded, and it has the lock at least as often as
there are such callbacks. Leaked counts only add to it, an unlock by a guarded
callback takes one from either side, and an unlock by a callback whose own session died
makes all the others unguarded. Pools being disjoint, one session means one replica.
That the lock is given back counts the other way (`NothingLeftBehind`): until an unlock
has missed its session, the lock is held no more often than there are callbacks on that
session, so that it is free when there are none.

`EveryTickSampledOnce` uses the lock: unless ticks of one session overlap on it, a simulation is
in the snapshot of one callback at a time (`TickedAlone`), so the `tickCount` it listed is
still that of the row (`SnapshotIsFresh`), and what was sampled is what the row has counted
and the tick of the one callback between sampling and incrementing (`SampledSoFar`).

`QuietStoriesAgree` is about an incident on which requests did not overlap: the one
request under way on it, if any, is known by its stage, and the status, the last entry of
the timeline and that of the audit trail are what that stage says (`Story`).

In the records a handler reads in one await and writes in another, as in `Rca`: an
archival that nothing came in behind knows that what it counted is still not there
(`CountsStand`), and a handler that nobody overtook that its link still waits for an
outcome (`LinksWait`). The version of a runbook counts its texts whatever overlaps
(`VersionsCount`), as the database does the increment.

`RecordFitsIncidents` has the same shape over a clock. A calculation whose month was not
rewritten under it has gathered what the incidents still say of the time before its reading
of the clock (`GatheredStands`), and so has a record (`RecordsStand`). Two facts keep this:
nothing is stamped for a time to come (`Past`), and two states of an incident that agree
before an instant have lost the same time before it and recovered as long (`SameUpTo`). How far a
record can contradict its own breach flag is arithmetic (`CalculateAgrees`): the breach is
decided before the rounding, and a figure above another one is never rounded below it,
however halves fall. Only equal figures, an error budget spent exactly, can come apart, by
one hundredth.

In `Access` a request remembers what was true of its account while it was under way, and
the invariant says that this memory covers the present (`Watches`) and vouches for how far
the request has got (`Vouched`); a token exists only for a login on the record
(`TokensAreAudited`). It uses two facts of the route table, `RolesAssumption` and
`LoginIsPublic`: that login asks for no token is a computation over all the routes, which
TLC does and the provers do not. In `AuditTrail`, all that the reader has seen is at or
above its cursor, and what it has not seen of what it was to see is still to be found below
it (`TrailInv`): a page takes the highest rows below the cursor, and no row that is visible
goes away. In `Server` whoever still looks up the actor began before any job had run. In
`Console` the property is inductive as it stands, with the types of the hooks.

The seed is computation more than interaction; its theorems say that it does not depend on
the lengths, draws and graphs that TLC was given.

* Scripts (`ScriptInv`): what is left of the script fits what is in the tables (`RestFits`).
  Each of the two scripts is in an order in which every statement needs only what the ones
  before it took care of, and a statement that is done leaves the rest fitting. Starting
  over, cut off or not, asks nothing of the tables, for each script empties or writes whatever
  it will refer to.
* Stories (`StoryInv`): what is known of each stamp once its part is made up, for all draws
  of `randInt`, all people and all beats: one that is over ended more than 21 hours ago, as
  the narrative has it, and one in progress began, or is to begin, today (`StoryAssumption`).
* Windows: days, weeks and months each tile the history, and what a beat is charged by the tiles
  of a span is its downtime in the span (`TilesChargeOnce`); both go by the least window for
  which it fails. The weeks need `HistoryDays % 7 # 0`, which holds of the code's 183:
  `WindowsAssumption` says so, as with a multiple of seven today would be charged by no week.
* Demo runs (`ScenarioInv`): no other scenario's primary metric has a firing alert, which
  every run leaves so for the next, and how far this one has got. The rest is bounds on the
  curves, in fractions: a baseline with its noise stays below the rule, the last tick of
  DEGRADING is above the critical threshold, and a secondary metric never gets to a severity
  that opens an incident.
* Blast radius: a service is at level k of the query if and only if a chain of k dependencies leads
  from it to the one asked about. The prover has no induction over k; the least k for
  which it fails does as well.

One of these proofs failed for a good reason: in the table of seeded rules two guards of a
CASE overlapped, and TLA+ does not say which one is taken. The guards are now disjoint.

Only model-checked: `BreachIsPaged`, `RunEnds`, `OpenLetsATrialThrough` and `ShutdownEnds`.
They are liveness under fairness, which is beyond the prover, as is what the four runs that
end in a violation show. Also left to TLC: that the small instances satisfy the assumptions.

## 5. What is not modelled, and why

* The report generator, the search and list queries, health, Prometheus metrics and
  logging read and render; they decide nothing. Recording a metric is an insert; what
  follows from it is module `Alerts`.
* Comments and the merged timeline of an incident, and corrective actions of a report,
  change no row that any check reads.
* Creating and editing alert rules: a sample in `Alerts` meets any rule.
* Of remediation only RESTART_SERVICE, the one executor that changes a row of
  this database; the others only report.
* Parsing of the environment, the wiring of `container.ts`, CORS, security headers and
  request ids: once the process is up they do not change.
* The layout, forms and charts of the console's pages, beyond the session and the life of
  a resource.
* The metric samples of the seeded history (`metrics-gen.ts`) and the texts of the stories:
  nothing decides on them.
* Two starts of one simulation: module `FailureSimulator` has both steps of `start`, but
  two simulations beside three callbacks are beyond TLC here.

## 6. Where to go from here

* Compose `Rca` and `Incidents` in one system, with `rcaApproved` read from the reports.
* Prove the type invariants of the modules in `ApiProofs`, `RecordsProofs` and `SeededProofs`
  as theorems of their own; they are parts of the invariants there.
* Let TLC answer for the hazards that have no property yet, first of all two starts of one
  simulation.
