----------------------------- MODULE Incidents -----------------------------
(***************************************************************************)
(* The life of an incident: opened (by a person or by an alert), assigned, *)
(* reclassified, acknowledged, mitigated, resolved, closed, reopened.      *)
(*                                                                         *)
(* IncidentsService runs each request as an async handler with no          *)
(* transaction: await the row, check what was read, await the UPDATE (which*)
(* names only the incident's id), await the timeline INSERT, await the     *)
(* audit INSERT.  Any other request runs at each await, and each await may *)
(* reject.  As in Rca, the step that reads and checks begins the request,  *)
(* and a request refused by its check changes nothing and is left out.     *)
(*                                                                         *)
(* Timestamps other than openedAt and lastEscalatedAt are never compared,  *)
(* so only their presence is kept.  Of the timeline and of the audit log,  *)
(* which nothing reads back to decide anything, the newest entry about the *)
(* incident's status is kept; comments are left out.                       *)
(***************************************************************************)
EXTENDS Severity

CONSTANTS
    Incidents,    \* incident ids
    Severities,   \* the severities that requests name (a bound of the model)
    Users,        \* user ids
    ActiveUsers,  \* those whose account is active
    Responders,   \* those whose role is RESPONDER; the others command
    Alerts,       \* alert ids a request may ask to link
    Handlers,     \* requests that can be in flight at once
    Instants,     \* the times at which things are seen to happen (a bound)
    Null          \* a NULL column, or a field a request does not use

ASSUME IncidentsAssumption ==
    /\ Severities \subseteq Severity
    /\ ActiveUsers \subseteq Users /\ Responders \subseteq Users
    /\ Instants \subseteq Nat
    /\ Null \notin Nat /\ Null \notin Users /\ Null \notin Incidents

VARIABLES
    now,            \* the clock
    incidents,      \* incidents: one row per id, status NONE when absent
    alertIncident,  \* alerts.incidentId
    rcaApproved,    \* incidents whose RCA report is APPROVED
    handler,        \* what each request in flight is about to do
    timeline,       \* newest status event in each incident's timeline
    audit,          \* newest status entry about each incident in the audit log
    stale,          \* history: handlers whose row, or whose answer from the
                    \* RCA gate, was changed since they read it
    disturbed       \* history: incidents with overlapped or rejected requests

rows == <<incidents, alertIncident>>
logs == <<timeline, audit>>
vars == <<now, incidents, alertIncident, rcaApproved, handler, timeline, audit,
          stale, disturbed>>

-----------------------------------------------------------------------------
(* The state machine, as the code writes it down.                          *)

Status == {"OPEN", "ACKNOWLEDGED", "MITIGATED", "RESOLVED", "CLOSED"}

IncidentTransitions ==
    [ OPEN         |-> {"ACKNOWLEDGED"},
      ACKNOWLEDGED |-> {"MITIGATED", "RESOLVED"},
      MITIGATED    |-> {"RESOLVED"},
      RESOLVED     |-> {"CLOSED", "OPEN"},
      CLOSED       |-> {"OPEN"} ]

CanTransition(from, to) == from \in Status /\ to \in IncidentTransitions[from]

\* The status each lifecycle operation moves to.
Target ==
    [ acknowledge |-> "ACKNOWLEDGED", mitigate |-> "MITIGATED",
      resolve |-> "RESOLVED", close |-> "CLOSED", reopen |-> "OPEN" ]

Lifecycle == {"acknowledge", "mitigate", "resolve", "close", "reopen"}
Ops == Lifecycle \cup {"create", "reclassify", "assign"}

ASSUME NoOpIsNull == Null \notin Ops

Incident == [ status          : Status \cup {"NONE"},
              severity        : Severity \cup {Null},
              commander       : Users \cup {Null},
              acknowledged    : BOOLEAN,
              resolved        : BOOLEAN,
              closed          : BOOLEAN,
              openedAt        : Nat,
              escalationLevel : Nat,
              lastEscalatedAt : Nat \cup {Null} ]

Handler == [ pc       : {"idle", "gate", "write", "link", "timeline", "audit"},
             op       : Ops \cup {Null},
             incident : Incidents \cup {Null},
             severity : Severity \cup {Null},
             user     : Users \cup {Null},
             alerts   : SUBSET Alerts ]

NoIncident == [ status |-> "NONE", severity |-> Null, commander |-> Null,
                acknowledged |-> FALSE, resolved |-> FALSE, closed |-> FALSE,
                openedAt |-> 0, escalationLevel |-> 0, lastEscalatedAt |-> Null ]

Idle == [ pc |-> "idle", op |-> Null, incident |-> Null, severity |-> Null,
          user |-> Null, alerts |-> {} ]

TypeOK ==
    /\ now \in Nat
    /\ incidents \in [Incidents -> Incident]
    /\ alertIncident \in [Alerts -> Incidents \cup {Null}]
    /\ rcaApproved \in SUBSET Incidents
    /\ handler \in [Handlers -> Handler]
    /\ timeline \in [Incidents -> Lifecycle \cup {"create", Null}]
    /\ audit \in [Incidents -> Lifecycle \cup {"create", Null}]
    /\ stale \in SUBSET Handlers
    /\ disturbed \in SUBSET Incidents

Init ==
    /\ now \in Instants
    /\ incidents = [i \in Incidents |-> NoIncident]
    /\ alertIncident = [a \in Alerts |-> Null]
    /\ rcaApproved = {}
    /\ handler = [h \in Handlers |-> Idle]
    /\ timeline = [i \in Incidents |-> Null]
    /\ audit = [i \in Incidents |-> Null]
    /\ stale = {}
    /\ disturbed = {}

-----------------------------------------------------------------------------
(* The first half of a request: read the row, check it.                    *)

Exists(i) == incidents[i].status # "NONE"

InFlightOn(i) == {h \in Handlers : handler[h].incident = i}

Begin(h, request) ==
    /\ handler[h].pc = "idle"
    /\ handler' = [handler EXCEPT ![h] = request]
    /\ stale' = stale \ {h}
    /\ disturbed' = IF InFlightOn(request.incident) = {} THEN disturbed
                    ELSE disturbed \cup {request.incident}
    /\ UNCHANGED <<now, rows, rcaApproved, logs>>

\* A responder may only name themselves, and only an active user is named.
CanAssign(actor, commander) ==
    /\ actor \in Responders => commander = actor
    /\ commander \in ActiveUsers

\* The id is new, so no other request can be on this incident yet.
Create(h, i, severity, actor, commander, alerts) ==
    /\ ~Exists(i) /\ InFlightOn(i) = {}
    /\ commander # Null => CanAssign(actor, commander)
    /\ Begin(h, [pc |-> "write", op |-> "create", incident |-> i,
                 severity |-> severity, user |-> commander, alerts |-> alerts])

ReclassifySeverity(h, i, severity) ==
    /\ Exists(i)
    /\ incidents[i].severity # severity
    /\ Begin(h, [Idle EXCEPT !.pc = "write", !.op = "reclassify",
                             !.incident = i, !.severity = severity])

Assign(h, i, actor, commander) ==
    /\ Exists(i)
    /\ CanAssign(actor, commander)
    /\ Begin(h, [Idle EXCEPT !.pc = "write", !.op = "assign",
                             !.incident = i, !.user = commander])

\* The mutated form: no transition is refused.
BeginUnchecked(h, i, op, pc) ==
    /\ Exists(i)
    /\ Begin(h, [Idle EXCEPT !.pc = pc, !.op = op, !.incident = i])

BeginTransition(h, i, op, pc) ==
    /\ CanTransition(incidents[i].status, Target[op])
    /\ Begin(h, [Idle EXCEPT !.pc = pc, !.op = op, !.incident = i])

Acknowledge(h, i) == BeginTransition(h, i, "acknowledge", "write")
Mitigate(h, i) == BeginTransition(h, i, "mitigate", "write")
Resolve(h, i) == BeginTransition(h, i, "resolve", "write")
Reopen(h, i) == BeginTransition(h, i, "reopen", "write")

\* The mutated form: only a P1 goes through the gate.
CloseGatedForSev1Only(h, i) ==
    BeginTransition(h, i, "close",
                    IF incidents[i].severity = "SEV1" THEN "gate" ELSE "write")

\* A P1 or P2 goes through the RCA gate, one more await, before the write.
Close(h, i) ==
    BeginTransition(h, i, "close",
                    IF RequiresRcaToClose(incidents[i].severity) THEN "gate" ELSE "write")

CheckRcaGate(h) ==
    /\ handler[h].pc = "gate"
    /\ handler[h].incident \in rcaApproved
    /\ handler' = [handler EXCEPT ![h].pc = "write"]
    /\ UNCHANGED <<now, rows, rcaApproved, logs, stale, disturbed>>

RefuseAtRcaGate(h) ==
    /\ handler[h].pc = "gate"
    /\ handler[h].incident \notin rcaApproved
    /\ handler' = [handler EXCEPT ![h] = Idle]
    /\ stale' = stale \ {h}
    /\ UNCHANGED <<now, rows, rcaApproved, logs, disturbed>>

-----------------------------------------------------------------------------
(* The second half: the UPDATE or INSERT, then the entries that tell of it. *)

\* Requests that read incident i and have not written it yet.
Waiting(i) == {h \in InFlightOn(i) : handler[h].pc \in {"gate", "write"}}

\* h writes row into its incident and goes on to pc; the requests that read
\* the row before are stale from here on.
Write(h, row, pc) ==
    LET i == handler[h].incident IN
    /\ incidents' = [incidents EXCEPT ![i] = row]
    /\ handler' = [handler EXCEPT ![h].pc = pc]
    /\ stale' = (stale \cup Waiting(i)) \ {h}
    /\ UNCHANGED <<now, alertIncident, rcaApproved, logs, disturbed>>

\* A commander named at creation counts as an acknowledgement.
InsertIncident(h) ==
    LET r == handler[h]
        owned == r.user # Null
    IN
    /\ r.pc = "write" /\ r.op = "create"
    /\ Write(h,
             [NoIncident EXCEPT !.status = IF owned THEN "ACKNOWLEDGED" ELSE "OPEN",
                                !.severity = r.severity,
                                !.commander = r.user,
                                !.acknowledged = owned,
                                !.openedAt = now],
             IF r.alerts = {} THEN "timeline" ELSE "link")

\* One conditional UPDATE: only alerts that belong to no incident yet.
LinkAlerts(h) ==
    LET r == handler[h] IN
    /\ r.pc = "link"
    /\ alertIncident' = [a \in Alerts |->
                           IF a \in r.alerts /\ alertIncident[a] = Null
                           THEN r.incident ELSE alertIncident[a]]
    /\ handler' = [handler EXCEPT ![h].pc = "timeline"]
    /\ UNCHANGED <<now, incidents, rcaApproved, logs, stale, disturbed>>

WriteSeverity(h) ==
    LET r == handler[h] IN
    /\ r.pc = "write" /\ r.op = "reclassify"
    /\ Write(h, [incidents[r.incident] EXCEPT !.severity = r.severity], "timeline")

WriteCommander(h) ==
    LET r == handler[h] IN
    /\ r.pc = "write" /\ r.op = "assign"
    /\ Write(h, [incidents[r.incident] EXCEPT !.commander = r.user], "timeline")

\* The mutated form: reopening leaves the terminal timestamps behind.
TransitionKeepingStamps(row, to) ==
    [row EXCEPT !.status = to,
                !.acknowledged = (@ \/ to = "ACKNOWLEDGED") /\ to # "OPEN",
                !.resolved = @ \/ to = "RESOLVED",
                !.closed = @ \/ to = "CLOSED",
                !.escalationLevel = IF to = "OPEN" THEN 0 ELSE @,
                !.lastEscalatedAt = IF to = "OPEN" THEN Null ELSE @]

\* Each operation stamps its own timestamp; OPEN clears them all and takes
\* the escalation back to the start.
TransitionStatus(row, to) ==
    [row EXCEPT !.status = to,
                !.acknowledged = (@ \/ to = "ACKNOWLEDGED") /\ to # "OPEN",
                !.resolved = (@ \/ to = "RESOLVED") /\ to # "OPEN",
                !.closed = (@ \/ to = "CLOSED") /\ to # "OPEN",
                !.escalationLevel = IF to = "OPEN" THEN 0 ELSE @,
                !.lastEscalatedAt = IF to = "OPEN" THEN Null ELSE @]

WriteStatus(h) ==
    LET r == handler[h] IN
    /\ r.pc = "write" /\ r.op \in Lifecycle
    /\ Write(h, TransitionStatus(incidents[r.incident], Target[r.op]), "timeline")

\* Whether an entry says something about the incident's status.
TellsStatus(op) == op \in Lifecycle \cup {"create"}

\* The mutated form: the mitigation is not told.
AppendTimelineNoMitigation(h) ==
    LET r == handler[h] IN
    /\ r.pc = "timeline"
    /\ timeline' = IF TellsStatus(r.op) /\ r.op # "mitigate"
                   THEN [timeline EXCEPT ![r.incident] = r.op] ELSE timeline
    /\ handler' = [handler EXCEPT ![h].pc = "audit"]
    /\ UNCHANGED <<now, rows, rcaApproved, audit, stale, disturbed>>

AppendTimeline(h) ==
    LET r == handler[h] IN
    /\ r.pc = "timeline"
    /\ timeline' = IF TellsStatus(r.op)
                   THEN [timeline EXCEPT ![r.incident] = r.op] ELSE timeline
    /\ handler' = [handler EXCEPT ![h].pc = "audit"]
    /\ UNCHANGED <<now, rows, rcaApproved, audit, stale, disturbed>>

RecordAudit(h) ==
    LET r == handler[h] IN
    /\ r.pc = "audit"
    /\ audit' = IF TellsStatus(r.op)
                THEN [audit EXCEPT ![r.incident] = r.op] ELSE audit
    /\ handler' = [handler EXCEPT ![h] = Idle]
    /\ UNCHANGED <<now, rows, rcaApproved, timeline, stale, disturbed>>

\* An await rejects or the process dies: the rest of the request is lost,
\* what it wrote stays.
Abort(h) ==
    /\ handler[h].pc # "idle"
    /\ handler' = [handler EXCEPT ![h] = Idle]
    /\ stale' = stale \ {h}
    /\ disturbed' = disturbed \cup {handler[h].incident}
    /\ UNCHANGED <<now, rows, rcaApproved, logs>>

-----------------------------------------------------------------------------
(* The surroundings: the clock, and the RCA review that the gate reads.    *)

Tick ==
    /\ now' \in {t \in Instants : t > now}
    /\ UNCHANGED <<rows, rcaApproved, handler, logs, stale, disturbed>>

\* A report of an incident becomes APPROVED (module Rca, WriteApprove).
ApproveRca(i) ==
    /\ Exists(i)
    /\ rcaApproved' = rcaApproved \cup {i}
    /\ UNCHANGED <<now, rows, handler, logs, stale, disturbed>>

\* It is taken back by a stale submission (module Rca, WriteSubmit).
WithdrawRca(i) ==
    /\ i \in rcaApproved
    /\ rcaApproved' = rcaApproved \ {i}
    /\ stale' = stale \cup {h \in InFlightOn(i) : /\ handler[h].op = "close"
                                                 /\ handler[h].pc = "write"}
    /\ UNCHANGED <<now, rows, handler, logs, disturbed>>

BeginRequest(h, i) ==
    \/ \E s \in Severities, actor \in Users, c \in Users \cup {Null},
          al \in SUBSET Alerts : Create(h, i, s, actor, c, al)
    \/ \E s \in Severities : ReclassifySeverity(h, i, s)
    \/ \E actor \in Users, c \in Users : Assign(h, i, actor, c)
    \/ Acknowledge(h, i)
    \/ Mitigate(h, i)
    \/ Resolve(h, i)
    \/ Close(h, i)
    \/ Reopen(h, i)

ContinueRequest(h) ==
    \/ CheckRcaGate(h)
    \/ RefuseAtRcaGate(h)
    \/ InsertIncident(h)
    \/ LinkAlerts(h)
    \/ WriteSeverity(h)
    \/ WriteCommander(h)
    \/ WriteStatus(h)
    \/ AppendTimeline(h)
    \/ RecordAudit(h)

Next ==
    \/ \E h \in Handlers :
         \/ \E i \in Incidents : BeginRequest(h, i)
         \/ ContinueRequest(h)
         \/ Abort(h)
    \/ \E i \in Incidents : ApproveRca(i) \/ WithdrawRca(i)
    \/ Tick

Spec == Init /\ [][Next]_vars

-----------------------------------------------------------------------------
(* What must hold, whatever the interleaving.                              *)

\* The timestamps agree with the status although no UPDATE is conditional: an
\* open incident carries none of an earlier life (incidents.repository.ts:70,
\* "a stale resolvedAt/closedAt doesn't linger"), and an acknowledged,
\* resolved or closed one carries its own.
StampsMatchStatus ==
    \A i \in Incidents :
      LET row == incidents[i] IN
      /\ row.status = "OPEN" => ~row.acknowledged /\ ~row.resolved /\ ~row.closed
      /\ row.status = "ACKNOWLEDGED" => row.acknowledged
      /\ row.status = "RESOLVED" => row.resolved
      /\ row.status = "CLOSED" => row.closed

\* h writes its row in this step.
Writes(h) == handler[h].pc = "write" /\ handler'[h].pc \notin {"write", "idle"}

StaleWrite(i) == \E h \in stale : handler[h].incident = i /\ Writes(h)

\* The status follows the legal transitions (incidents.types.ts:40, "The legal
\* status transitions"), except where a request writes a row that another
\* request has written since it was read.
OnlyStaleRequestsBreakTransitions ==
    [][\A i \in Incidents :
         Exists(i) /\ incidents'[i].status # incidents[i].status =>
           \/ CanTransition(incidents[i].status, incidents'[i].status)
           \/ StaleWrite(i)]_vars

\* "An incident can't be marked resolved if no one ever owned it"
\* (incidents.types.ts:42): a live incident stops being owned only by being
\* reopened, except through a stale write.
Unowned(row) == row.status \notin {"NONE", "OPEN"} /\ ~row.acknowledged

OnlyStaleRequestsLoseTheOwner ==
    [][\A i \in Incidents :
         Unowned(incidents'[i]) => Unowned(incidents[i]) \/ StaleWrite(i)]_vars

\* "A P1/P2 cannot be closed without an approved RCA on file"
\* (incidents.service.ts:213): when an incident becomes CLOSED its severity at
\* that moment has its RCA, except through a stale write.  The severity and
\* the gate are read in two awaits before the write.
OnlyStaleRequestsSkipTheRcaGate ==
    [][\A i \in Incidents :
         /\ incidents[i].status # "CLOSED" /\ incidents'[i].status = "CLOSED"
         /\ RequiresRcaToClose(incidents[i].severity)
         => i \in rcaApproved \/ StaleWrite(i)]_vars

\* What an operation leaves as the status.
Leaves(op) == IF op = "create" THEN {"OPEN", "ACKNOWLEDGED"} ELSE {Target[op]}

\* The row, the timeline and the audit log tell the same story once no request
\* is under way, as long as requests never overlapped and none was cut off
\* (incidents.service.ts:273, "one chronological narrative").
QuietStoriesAgree ==
    \A i \in Incidents \ disturbed :
      InFlightOn(i) = {} /\ Exists(i) =>
        /\ timeline[i] # Null /\ audit[i] = timeline[i]
        /\ incidents[i].status \in Leaves(timeline[i])

\* What the comment of close says without the exception: no incident becomes
\* CLOSED as a P1 or P2 without an approved RCA (incidents.service.ts:213).  It
\* is broken when the incident is reclassified, or the approval taken back by a
\* stale submission, after a close has read them and before it writes.
NoSevereCloseWithoutRca ==
    [][\A i \in Incidents :
         /\ incidents[i].status # "CLOSED" /\ incidents'[i].status = "CLOSED"
         /\ RequiresRcaToClose(incidents[i].severity)
         => i \in rcaApproved]_vars

=============================================================================
