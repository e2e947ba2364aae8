--------------------------------- MODULE Sla ---------------------------------
(***************************************************************************)
(* SLA tracking of one service: a calculation gathers how long the service *)
(* was down in a window (a calendar month for the rollup) and how long its *)
(* incidents took to recover, works out availability, error budget and     *)
(* breach, and upserts the window's record.  The scheduler, the demo and   *)
(* people calculate side by side, while incidents open, are resolved and   *)
(* are opened again; every await is a step.  Services do not touch each    *)
(* other, so one is modelled; a rollup is the calculation of its service,  *)
(* which comes some time after the month was chosen.                       *)
(*                                                                         *)
(* A minute is MinuteLength units of time, 60000 milliseconds in the code. *)
(* Percentages, and minutes in a record, are in hundredths, as they are    *)
(* stored.  The code computes them as doubles, whose error is too small to *)
(* reach the nearest half or an equality but not to come off it: a figure  *)
(* is the nearest hundredth, either of them if it lies half way, and a     *)
(* comparison of equals comes out either way.  The means of response and   *)
(* detection times are left out: they go the way of the recovery times.    *)
(***************************************************************************)
EXTENDS Integers, FiniteSets

CONSTANTS
    SlaIncidents,   \* incident ids
    Calculations,   \* calculations that may run side by side
    MinuteLength,   \* units of time in a minute
    MonthLength,    \* length of every window, in units
    Months,         \* the number of windows (a bound)
    TargetPercent,  \* DEFAULT_TARGET_PERCENT, in hundredths
    Never           \* null

ASSUME SlaAssumption ==
    /\ MinuteLength \in Nat \ {0}
    /\ MonthLength \in Nat \ {0} /\ Months \in Nat \ {0}
    /\ TargetPercent \in 0 .. 10000
    /\ IsFiniteSet(SlaIncidents)
    /\ Never \notin Int

VARIABLES
    now,         \* the clock
    incidents,   \* the incidents of the service
    records,     \* the sla_records table: the record of each window
    calculation  \* where each calculation is

slaVars == <<now, incidents, records, calculation>>

-----------------------------------------------------------------------------

Time == 0 .. Months * MonthLength
Month == 0 .. Months - 1
Start(m) == m * MonthLength
End(m) == (m + 1) * MonthLength

Lesser(a, b) == IF a < b THEN a ELSE b
Greater(a, b) == IF a < b THEN b ELSE a

\* resolving: the resolvedAt a handler has taken and not yet written.
NoIncident == [openedAt |-> Never, resolvedAt |-> Never, resolving |-> Never]

\* asOf: history, the end of what was calculated.  settled: history, nothing
\* that was gathered for it has been rewritten since.
NoRecord == [asOf |-> Never, settled |-> TRUE, actual |-> 10000, budget |-> 0,
             consumed |-> 0, breached |-> FALSE, recover |-> Never]

\* gathered: the queries that are back.
NoCalculation == [pc |-> "idle", month |-> 0, end |-> 0, downtime |-> 0,
                  recover |-> Never, gathered |-> {}, settled |-> TRUE]

SlaInit ==
    /\ now = 0
    /\ incidents = [i \in SlaIncidents |-> NoIncident]
    /\ records = [m \in Month |-> NoRecord]
    /\ calculation = [c \in Calculations |-> NoCalculation]

-----------------------------------------------------------------------------
(* The arithmetic.                                                         *)

\* round2 of n / d, in hundredths: the nearest one, or the two that are.
Round2(n, d) == -((d - 200 * n) \div (2 * d)) .. (200 * n + d) \div (2 * d)

\* An empty window is fully available.
ActualPercent(window, downtime) ==
    IF window > 0 THEN Round2((window - downtime) * 100, window) ELSE {10000}

\* An availability of just the target is computed a little above or below it.
Breached(window, downtime) ==
    {b \in BOOLEAN :
       /\ (window - downtime) * 10000 < TargetPercent * window => b
       /\ b => window > 0 /\ (window - downtime) * 10000 <= TargetPercent * window}

ErrorBudget(window) == Round2(window * (10000 - TargetPercent), 10000 * MinuteLength)

Calculate(window, downtime) ==
    [ actual   : ActualPercent(window, downtime),
      budget   : ErrorBudget(window),
      consumed : Round2(downtime, MinuteLength),
      breached : Breached(window, downtime) ]

\* The time two spans share; a sum of times is counted as so many pairs of an
\* incident and a unit of time.
Overlap(from, to, start, end) == Greater(from, start) .. Lesser(to, end) - 1

\* The incidents that touch the window, each with its share of it, overlapping
\* ones once each; one that is not resolved is down through the window's end.
Downtime(start, end) ==
    LET touching == {i \in SlaIncidents :
                       /\ incidents[i].openedAt # Never /\ incidents[i].openedAt < end
                       /\ \/ incidents[i].resolvedAt = Never
                          \/ incidents[i].resolvedAt > start}
        share(i) == Overlap(incidents[i].openedAt,
                            IF incidents[i].resolvedAt = Never THEN end
                                                               ELSE incidents[i].resolvedAt,
                            start, end)
    IN Cardinality(UNION {{i} \X share(i) : i \in touching})

\* The incidents resolved in the window.
Recovered(start, end) ==
    {i \in SlaIncidents : incidents[i].resolvedAt # Never
                            /\ incidents[i].resolvedAt \in start .. end - 1}

\* No data is not zero.
MeanTimeToRecover(start, end) ==
    LET took(i) == incidents[i].openedAt .. incidents[i].resolvedAt - 1
        recovered == Recovered(start, end)
    IN IF recovered = {} THEN {Never}
       ELSE Round2(Cardinality(UNION {{i} \X took(i) : i \in recovered}),
                   Cardinality(recovered) * MinuteLength)

-----------------------------------------------------------------------------
(* A calculation.                                                          *)

CalculationAt(c, v) == calculation' = [calculation EXCEPT ![c] = v]

\* The rollup takes the month it is; a person may name any window.
ChooseWindow(c, m) ==
    /\ calculation[c].pc = "idle"
    /\ CalculationAt(c, [NoCalculation EXCEPT !.pc = "begin", !.month = m])
    /\ UNCHANGED <<now, incidents, records>>

\* The mutated form: the window is not cut off at the present.
BeginUnclamped(c) ==
    /\ calculation[c].pc = "begin"
    /\ CalculationAt(c, [calculation[c] EXCEPT !.pc = "gather", !.end = End(calculation[c].month)])
    /\ UNCHANGED <<now, incidents, records>>

\* calculateForService: the window ends now if it is not over.
BeginCalculation(c) ==
    /\ calculation[c].pc = "begin"
    /\ CalculationAt(c, [calculation[c] EXCEPT !.pc = "gather",
                                               !.end = Lesser(End(calculation[c].month), now)])
    /\ UNCHANGED <<now, incidents, records>>

\* Of the four queries that run side by side, the two that read incidents.
Queries == {"downtime", "recovery"}

Gather(c, query) ==
    LET v == calculation[c]
        start == Start(v.month)
        gathered == v.gathered \cup {query}
        w == [v EXCEPT !.gathered = gathered,
                       !.pc = IF gathered = Queries THEN "upsert" ELSE "gather"]
    IN
    /\ v.pc = "gather" /\ query \notin v.gathered
    /\ \/ /\ query = "downtime"
          /\ CalculationAt(c, [w EXCEPT !.downtime = Downtime(start, v.end)])
       \/ /\ query = "recovery"
          /\ \E mean \in MeanTimeToRecover(start, v.end) :
               CalculationAt(c, [w EXCEPT !.recover = mean])
    /\ UNCHANGED <<now, incidents, records>>

\* One record per window: a later calculation writes over it.
Upsert(c) ==
    LET v == calculation[c] IN
    /\ v.pc = "upsert"
    /\ \E result \in Calculate(Greater(0, v.end - Start(v.month)), v.downtime) :
         records' = [records EXCEPT ![v.month] =
                       [ asOf |-> v.end, settled |-> v.settled, recover |-> v.recover,
                         actual |-> result.actual, budget |-> result.budget,
                         consumed |-> result.consumed, breached |-> result.breached ]]
    /\ CalculationAt(c, NoCalculation)
    /\ UNCHANGED <<now, incidents>>

\* An await rejects or the process dies.
AbortCalculation(c) ==
    /\ calculation[c].pc # "idle"
    /\ CalculationAt(c, NoCalculation)
    /\ UNCHANGED <<now, incidents, records>>

-----------------------------------------------------------------------------
(* The incidents, as module Incidents has them, and the clock.             *)

Tick ==
    /\ now + 1 \in Time
    /\ now' = now + 1
    /\ UNCHANGED <<incidents, records, calculation>>

IncidentOpens(i) ==
    /\ incidents[i] = NoIncident
    /\ incidents' = [incidents EXCEPT ![i].openedAt = now]
    /\ UNCHANGED <<now, records, calculation>>

\* The resolvedAt of an incident is written, or cleared, as of time t: what
\* was gathered past t is no longer what the table says.
Rewritten(t) ==
    /\ records' = [m \in Month |->
         [records[m] EXCEPT !.settled = @ /\ (records[m].asOf = Never \/ records[m].asOf <= t)]]
    /\ calculation' = [c \in Calculations |->
         [calculation[c] EXCEPT !.settled = @ /\ (\/ calculation[c].gathered = {}
                                                  \/ calculation[c].end <= t)]]

\* resolve takes the time before it writes.
TakeResolvedAt(i) ==
    /\ incidents[i].openedAt # Never
    /\ incidents[i].resolvedAt = Never /\ incidents[i].resolving = Never
    /\ incidents' = [incidents EXCEPT ![i].resolving = now]
    /\ UNCHANGED <<now, records, calculation>>

WriteResolvedAt(i) ==
    LET t == incidents[i].resolving IN
    /\ t # Never
    /\ incidents' = [incidents EXCEPT ![i].resolvedAt = t, ![i].resolving = Never]
    /\ Rewritten(t)
    /\ UNCHANGED now

\* Reopening clears resolvedAt.
IncidentReopens(i) ==
    /\ incidents[i].resolvedAt # Never
    /\ incidents' = [incidents EXCEPT ![i].resolvedAt = Never]
    /\ Rewritten(incidents[i].resolvedAt)
    /\ UNCHANGED now

SlaNext ==
    \/ Tick
    \/ \E i \in SlaIncidents :
         IncidentOpens(i) \/ TakeResolvedAt(i) \/ WriteResolvedAt(i) \/ IncidentReopens(i)
    \/ \E c \in Calculations :
         \/ \E m \in Month : ChooseWindow(c, m)
         \/ BeginCalculation(c)
         \/ \E query \in Queries : Gather(c, query)
         \/ Upsert(c)
         \/ AbortCalculation(c)

-----------------------------------------------------------------------------
(* What must hold.                                                         *)

\* Incident i is not resolved in the unit of time from t on.
DownAt(i, t) ==
    /\ incidents[i].openedAt # Never /\ incidents[i].openedAt <= t
    /\ incidents[i].resolvedAt = Never \/ incidents[i].resolvedAt > t

\* Although a calculation reads the clock first and the incidents at two later
\* moments, its record is right for the time up to that reading: the downtime
\* is the time every incident lasted, none "billed for days that haven't
\* happened yet" (sla.service.ts:54-61), and the recoveries are those of the
\* same time, until a resolution taken before is written or undone.  Its
\* figures are rounded after the breach was decided (sla-calculator.ts:44-61),
\* and contradict it by a hundredth of a minute at most: a breach is an
\* availability of the target or less, and a budget overrun or just spent.
RecordFitsIncidents ==
    \A m \in Month :
      LET r == records[m]
          elapsed == Start(m) .. r.asOf - 1
      IN
      /\ r.asOf # Never /\ r.settled =>
           /\ r.consumed \in
                Round2(Cardinality({p \in SlaIncidents \X elapsed : DownAt(p[1], p[2])}),
                       MinuteLength)
           /\ r.recover \in MeanTimeToRecover(Start(m), r.asOf)
      /\ IF r.breached THEN r.actual <= TargetPercent /\ r.consumed >= r.budget - 1
                       ELSE r.actual >= TargetPercent /\ r.consumed <= r.budget + 1

=============================================================================
