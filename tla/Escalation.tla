----------------------------- MODULE Escalation -----------------------------
(***************************************************************************)
(* The escalation sweep over the incidents of module Incidents.            *)
(*                                                                         *)
(* A sweep (IncidentEscalationService.runSweep) takes the time, awaits one *)
(* read of all active incidents, and walks through that snapshot: for each *)
(* incident the engine says is due it awaits an UPDATE with the absolute   *)
(* new level, the timeline INSERT, the page, and the audit INSERT.  Every  *)
(* replica sweeps on its own timer, an overrunning sweep is not waited for,*)
(* and an admin can start one over HTTP; nothing locks them out of each    *)
(* other, so a Sweeper is any sweep that can be under way with another.    *)
(***************************************************************************)
EXTENDS Incidents

CONSTANT Sweepers

MaxChain == 3

VARIABLES
    sweep,           \* where each sweep is in its snapshot
    pages,           \* how often each level was paged since the last (re)open
    sweepStale,      \* history: <<s, i>> where i was written since s read it
    sweepDisturbed   \* history: incidents whose sweeps overlapped or were cut off

sweepVars == <<sweep, pages, sweepStale, sweepDisturbed>>
allVars == <<vars, sweepVars>>

-----------------------------------------------------------------------------
(* The engine: a decision about a row and a time, with no state.           *)

Terminal == {"NONE", "RESOLVED", "CLOSED"}

Policy(row) == SeverityLevels[row.severity]

\* The mutated form: at the very end of the SLA already.
AckSlaReached(row, at) ==
    ~row.acknowledged /\ at >= row.openedAt + Policy(row).ackSla

AckSlaBreached(row, at) ==
    ~row.acknowledged /\ at > row.openedAt + Policy(row).ackSla

ChainExhausted(row) == row.escalationLevel >= Policy(row).chain

\* The first step is due at the breach, a later one escalateAfter after the
\* one before it.
WindowElapsed(row, at) ==
    LET since == IF row.lastEscalatedAt = Null THEN row.openedAt
                                               ELSE row.lastEscalatedAt
    IN row.escalationLevel > 0 => at >= since + Policy(row).escalateAfter

\* The mutated form: the pacing between two levels is forgotten.
EscalateUnpaced(row, at) ==
    /\ row.status \notin Terminal
    /\ AckSlaBreached(row, at)
    /\ ~ChainExhausted(row)

\* The engine answers ESCALATE; in every other case it answers NONE or
\* MAX_LEVEL_REACHED, and the sweep goes on to the next incident.
ShouldEscalate(row, at) ==
    /\ row.status \notin Terminal
    /\ AckSlaBreached(row, at)
    /\ ~ChainExhausted(row)
    /\ WindowElapsed(row, at)

-----------------------------------------------------------------------------

\* One incident of the snapshot that is due, and the level it goes to.
Step == [incident : Incidents, toLevel : 1 .. MaxChain]

NoStep == [incident |-> Null, toLevel |-> 0]

Sweep == [ pc   : {"idle", "read", "walk", "timeline", "notify", "audit"},
           at   : Nat,
           todo : SUBSET Step,
           cur  : Step \cup {NoStep} ]

Resting == [pc |-> "idle", at |-> 0, todo |-> {}, cur |-> NoStep]

NoPages == [l \in 1 .. MaxChain |-> 0]

EscalationInit ==
    /\ Init
    /\ sweep = [s \in Sweepers |-> Resting]
    /\ pages = [i \in Incidents |-> NoPages]
    /\ sweepStale = {}
    /\ sweepDisturbed = {}

\* Sweeps that read incident i and have not written it yet.
Holding(i) ==
    {s \in Sweepers : \E d \in sweep[s].todo : d.incident = i}

\* Sweeps between their UPDATE of incident i and its page.
Paging(i) == {s \in Sweepers : sweep[s].cur.incident = i}

StartSweep(s) ==
    /\ sweep[s].pc = "idle"
    /\ sweep' = [sweep EXCEPT ![s] = [Resting EXCEPT !.pc = "read", !.at = now]]
    /\ UNCHANGED <<vars, pages, sweepStale, sweepDisturbed>>

\* The snapshot, reduced to what the engine says is due at the time the sweep
\* started: the decisions depend on nothing else.
ReadCandidates(s) ==
    LET due == {i \in Incidents : ShouldEscalate(incidents[i], sweep[s].at)}
        todo == {[incident |-> i, toLevel |-> incidents[i].escalationLevel + 1] : i \in due}
    IN
    /\ sweep[s].pc = "read"
    /\ sweep' = [sweep EXCEPT ![s] = IF due = {} THEN Resting
                                     ELSE [@ EXCEPT !.pc = "walk", !.todo = todo]]
    /\ sweepStale' = sweepStale \ ({s} \X Incidents)
    /\ UNCHANGED <<vars, pages, sweepDisturbed>>

RecordEscalation(s) ==
    \E d \in sweep[s].todo :
      LET i == d.incident IN
      /\ sweep[s].pc = "walk"
      /\ incidents' = [incidents EXCEPT ![i].escalationLevel = d.toLevel,
                                        ![i].lastEscalatedAt = sweep[s].at]
      /\ sweep' = [sweep EXCEPT ![s].pc = "timeline",
                                ![s].todo = @ \ {d},
                                ![s].cur = d]
      /\ sweepStale' = (sweepStale \cup (Holding(i) \X {i})) \ {<<s, i>>}
      /\ sweepDisturbed' = IF <<s, i>> \in sweepStale THEN sweepDisturbed \cup {i}
                                                      ELSE sweepDisturbed
      /\ UNCHANGED <<now, alertIncident, rcaApproved, handler, logs, stale,
                     disturbed, pages>>

\* The ESCALATED entry; it says nothing of the incident's status.
AppendEscalated(s) ==
    /\ sweep[s].pc = "timeline"
    /\ sweep' = [sweep EXCEPT ![s].pc = "notify"]
    /\ UNCHANGED <<vars, pages, sweepStale, sweepDisturbed>>

\* The mutated form: the level before is paged.
NotifyLevelBefore(s) ==
    LET d == sweep[s].cur IN
    /\ sweep[s].pc = "notify"
    /\ pages' = IF d.toLevel = 1 THEN pages
                ELSE [pages EXCEPT ![d.incident][d.toLevel - 1] = IF @ = 2 THEN 2 ELSE @ + 1]
    /\ sweep' = [sweep EXCEPT ![s].pc = "audit", ![s].cur = NoStep]
    /\ UNCHANGED <<vars, sweepStale, sweepDisturbed>>

\* The role of the level is paged (counted up to two).
NotifyEscalation(s) ==
    LET d == sweep[s].cur IN
    /\ sweep[s].pc = "notify"
    /\ pages' = [pages EXCEPT ![d.incident][d.toLevel] = IF @ = 2 THEN 2 ELSE @ + 1]
    /\ sweep' = [sweep EXCEPT ![s].pc = "audit", ![s].cur = NoStep]
    /\ UNCHANGED <<vars, sweepStale, sweepDisturbed>>

\* The incident.escalate entry, about no status either; then the next incident.
AuditEscalation(s) ==
    /\ sweep[s].pc = "audit"
    /\ sweep' = [sweep EXCEPT ![s] = IF sweep[s].todo = {} THEN Resting
                                     ELSE [@ EXCEPT !.pc = "walk"]]
    /\ UNCHANGED <<vars, pages, sweepStale, sweepDisturbed>>

\* A query of the sweep rejects, or its process dies: the rest of the snapshot
\* is not visited, and a level already recorded is not paged.
AbortSweep(s) ==
    /\ sweep[s].pc # "idle"
    /\ sweep' = [sweep EXCEPT ![s] = Resting]
    /\ sweepStale' = sweepStale \ ({s} \X Incidents)
    /\ sweepDisturbed' = sweepDisturbed \cup ({sweep[s].cur.incident} \ {Null})
    /\ UNCHANGED <<vars, pages>>

\* A step of a request, the clock or the review.  A reopened incident starts
\* to be paged anew; a write overtakes every sweep that holds the row.
Reopened(i) ==
    \E h \in InFlightOn(i) : handler[h].op = "reopen" /\ Writes(h)

LifecycleStep ==
    /\ Next
    /\ pages' = [i \in Incidents |-> IF Reopened(i) THEN NoPages ELSE pages[i]]
    /\ sweepStale' = sweepStale \cup
         {p \in Sweepers \X Incidents : /\ p[1] \in Holding(p[2])
                                        /\ incidents'[p[2]] # incidents[p[2]]}
    /\ sweepDisturbed' = sweepDisturbed \cup
         {i \in Incidents : Reopened(i) /\ Paging(i) # {}}
    /\ UNCHANGED sweep

SweepStep(s) ==
    \/ StartSweep(s)
    \/ ReadCandidates(s)
    \/ RecordEscalation(s)
    \/ AppendEscalated(s)
    \/ NotifyEscalation(s)
    \/ AuditEscalation(s)

EscalationNext ==
    \/ LifecycleStep
    \/ \E s \in Sweepers : SweepStep(s) \/ AbortSweep(s)

EscalationSpec == EscalationInit /\ [][EscalationNext]_allVars

\* setInterval starts sweeps for ever, the event loop resumes every await, and
\* the database does not reject the same UPDATE of a sweep for ever (SF).
Fairness ==
    /\ WF_allVars(LifecycleStep /\ Tick)
    /\ \A s \in Sweepers :
         /\ WF_allVars(StartSweep(s))
         /\ SF_allVars(ReadCandidates(s))
         /\ SF_allVars(RecordEscalation(s))
         /\ WF_allVars(AppendEscalated(s))
         /\ WF_allVars(NotifyEscalation(s))
         /\ WF_allVars(AuditEscalation(s))

FairEscalationSpec == EscalationSpec /\ Fairness

-----------------------------------------------------------------------------
(* What must hold, whatever the interleaving.                              *)

\* Nobody is paged before the acknowledgement SLA of some severity has passed
\* (escalation-engine.ts:46), however old the snapshot is and however the
\* incident was reclassified or reopened meanwhile; and a level is on record
\* exactly when its time is.
NeverPagedWithinAckSla ==
    \A i \in Incidents :
      LET row == incidents[i] IN
      /\ row.escalationLevel <= MaxChain
      /\ row.escalationLevel > 0 <=> row.lastEscalatedAt # Null
      /\ row.escalationLevel > 0 =>
           \E s \in Severity :
             row.lastEscalatedAt > row.openedAt + SeverityLevels[s].ackSla

\* Sweep s records an escalation of incident i in this step.
Escalates(s, i) ==
    sweep[s].pc = "walk" /\ sweep'[s].pc = "timeline" /\ sweep'[s].cur.incident = i

\* A sweep escalates an incident that is still active, unacknowledged and below
\* the end of its chain, by one level, and not before the pacing interval is
\* over (incident-escalation.service.ts:54, "safe to call repeatedly"), unless
\* the row was written since the sweep read it.
OnlyStaleSweepsMisfire ==
    [][\A s \in Sweepers, i \in Incidents :
         Escalates(s, i) =>
           \/ <<s, i>> \in sweepStale
           \/ /\ incidents[i].status \notin Terminal
              /\ ~incidents[i].acknowledged
              /\ incidents'[i].escalationLevel = incidents[i].escalationLevel + 1
              /\ incidents'[i].escalationLevel <= Policy(incidents[i]).chain
              /\ incidents[i].lastEscalatedAt # Null =>
                   incidents'[i].lastEscalatedAt >=
                     incidents[i].lastEscalatedAt + Policy(incidents[i]).escalateAfter]_allVars

\* Every level on record was paged exactly once since the incident was last
\* opened, once no sweep is between the two, as long as no sweep was cut off
\* there and none wrote over another.
EveryLevelPagedOnce ==
    \A i \in Incidents \ sweepDisturbed :
      Paging(i) = {} =>
        \A l \in 1 .. incidents[i].escalationLevel : pages[i][l] = 1

\* The last moment that is modelled.
Horizon == CHOOSE t \in Instants : \A u \in Instants : u <= t

Paged(i) == \E l \in 1 .. MaxChain : pages[i][l] > 0

\* An incident that nobody acknowledges past its SLA gets somebody paged in the
\* end, although sweeps are cut off and start again (escalation-engine.ts:46,
\* the first page is due at the breach).  A sweep cut off between a level's
\* UPDATE and its page loses that page for good; the next level then pages,
\* unless the chain is used up or the next level's time does not come.
BreachIsPaged ==
    \A i \in Incidents :
      (Exists(i) /\ incidents[i].status \notin Terminal
         /\ AckSlaBreached(incidents[i], now))
      ~> \/ Paged(i)
         \/ incidents[i].acknowledged
         \/ incidents[i].status \in Terminal
         \/ ~AckSlaBreached(incidents[i], now)
         \/ i \in sweepDisturbed /\ ~ShouldEscalate(incidents[i], Horizon)

=============================================================================
