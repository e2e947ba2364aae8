--------------------------- MODULE IncidentsProofs ---------------------------
(***************************************************************************)
(* Theorems about Incidents and about Escalation, which sweeps the same    *)
(* rows, for any number of incidents, users, alerts, requests and sweeps   *)
(* in flight at once.                                                      *)
(*                                                                         *)
(* As in RcaProofs the inductive invariant says of each request in flight  *)
(* what no other request can take from it (InFlight), and what is still    *)
(* true as long as nothing it read was changed (Current).  From the second *)
(* follow the three action properties: wherever a legal transition, an     *)
(* owner or the RCA gate is missed, the request that missed it was stale.  *)
(*                                                                         *)
(* That timeline and audit trail agree with the status is about incidents  *)
(* on which requests did not overlap: how far the one request under way    *)
(* has come then says what the row and the two logs are (Story).           *)
(***************************************************************************)
EXTENDS Escalation, TLAPS

\* What a request in flight can rely on.  The incident of a create is its own
\* until it is inserted, every other request is on a row that exists.
InFlight(h) ==
    LET r == handler[h] IN
    /\ r.pc = "idle" => r.incident = Null
    /\ r.pc # "idle" => r.op \in Ops /\ r.incident \in Incidents
    /\ r.pc = "gate" => r.op = "close"
    /\ r.pc = "write" /\ r.op = "create" =>
         /\ ~Exists(r.incident)
         /\ \A k \in Handlers : handler[k].incident = r.incident => k = h
    /\ r.pc # "idle" /\ ~(r.pc = "write" /\ r.op = "create") =>
         Exists(r.incident)

\* What a request knows as long as nothing it read was changed.
Current(h) ==
    LET r == handler[h]
        row == incidents[handler[h].incident]
    IN r.pc \in {"gate", "write"} /\ h \notin stale =>
         /\ r.op \in Lifecycle => CanTransition(row.status, Target[r.op])
         /\ r.op = "close" /\ r.pc = "write" /\ RequiresRcaToClose(row.severity) =>
              r.incident \in rcaApproved

\* StampsMatchStatus of one row.
Stamped(row) ==
    /\ row.status = "OPEN" => ~row.acknowledged /\ ~row.resolved /\ ~row.closed
    /\ row.status = "ACKNOWLEDGED" => row.acknowledged
    /\ row.status = "RESOLVED" => row.resolved
    /\ row.status = "CLOSED" => row.closed

IInv ==
    /\ TypeOK
    /\ \A i \in Incidents : Stamped(incidents[i])
    /\ \A h \in Handlers : InFlight(h) /\ Current(h)

-----------------------------------------------------------------------------
(* The operators the actions are built from.                               *)

LEMMA IdleType == Idle \in Handler
  BY DEF Idle, Handler

\* A transition gives the row its new status and its stamps, and leaves
\* severity, commander and openedAt as they were.
LEMMA TransitionStatusFacts ==
  ASSUME NEW row \in Incident, NEW to \in Status
  PROVE  /\ TransitionStatus(row, to) \in Incident
         /\ TransitionStatus(row, to).status = to
         /\ Stamped(TransitionStatus(row, to))
         /\ TransitionStatus(row, to).severity = row.severity
         /\ TransitionStatus(row, to).acknowledged <=>
              (row.acknowledged \/ to = "ACKNOWLEDGED") /\ to # "OPEN"
<1> DEFINE new == TransitionStatus(row, to)
<1>1. new.status = to /\ new.severity = row.severity
  BY DEF TransitionStatus, Incident
<1>2. /\ new.acknowledged <=> (row.acknowledged \/ to = "ACKNOWLEDGED") /\ to # "OPEN"
      /\ new.resolved <=> (row.resolved \/ to = "RESOLVED") /\ to # "OPEN"
      /\ new.closed <=> (row.closed \/ to = "CLOSED") /\ to # "OPEN"
  BY DEF TransitionStatus, Incident
<1>3. new \in Incident
  <2> DEFINE a == (row.acknowledged \/ to = "ACKNOWLEDGED") /\ to # "OPEN"
             r == (row.resolved \/ to = "RESOLVED") /\ to # "OPEN"
             c == (row.closed \/ to = "CLOSED") /\ to # "OPEN"
             l == IF to = "OPEN" THEN 0 ELSE row.escalationLevel
             e == IF to = "OPEN" THEN Null ELSE row.lastEscalatedAt
  <2>1. a \in BOOLEAN /\ r \in BOOLEAN /\ c \in BOOLEAN
    OBVIOUS
  <2>2. l \in Nat /\ e \in Nat \cup {Null}
    BY DEF Incident
  <2>3. new = [row EXCEPT !.status = to, !.acknowledged = a, !.resolved = r,
                          !.closed = c, !.escalationLevel = l,
                          !.lastEscalatedAt = e]
    BY Zenon DEF TransitionStatus
  <2> HIDE DEF a, r, c, l, e, new
  <2> QED
    BY ZenonT(40), <2>1, <2>2, <2>3 DEF Incident
<1> HIDE DEF new
<1>4. Stamped(new)
  BY <1>1, <1>2 DEF Stamped
<1> QED
  BY <1>1, <1>2, <1>3, <1>4 DEF new

\* Every operation's target is a status.
LEMMA TargetType == \A op \in Lifecycle : Target[op] \in Status
  BY DEF Lifecycle, Target, Status

LEMMA InitInv == Init => IInv
<1> SUFFICES ASSUME Init PROVE IInv
  OBVIOUS
<1> USE DEF Init, NoIncident
<1>1. now \in Nat
  BY IncidentsAssumption
<1>2. NoIncident \in Incident
  BY DEF Incident
<1>3. TypeOK
  BY <1>1, <1>2, IdleType DEF TypeOK
<1>4. \A i \in Incidents : Stamped(incidents[i])
  BY DEF Stamped
<1>5. \A h \in Handlers : InFlight(h) /\ Current(h)
  BY DEF InFlight, Current, Idle
<1> QED
  BY <1>3, <1>4, <1>5 DEF IInv

-----------------------------------------------------------------------------
(* The steps preserve the invariant.                                       *)

\* A request that reads and checks: what its operation checks is what
\* InFlight and Current ask for.
LEMMA BeginInv ==
  ASSUME IInv, NEW h \in Handlers, NEW request \in Handler, Begin(h, request),
         request.pc \in {"gate", "write"}, request.op \in Ops,
         request.incident \in Incidents,
         request.pc = "gate" => request.op = "close",
         IF request.op = "create"
         THEN ~Exists(request.incident) /\ InFlightOn(request.incident) = {}
         ELSE Exists(request.incident),
         request.op \in Lifecycle =>
           CanTransition(incidents[request.incident].status, Target[request.op]),
         request.op = "close" /\ request.pc = "write" =>
           ~RequiresRcaToClose(incidents[request.incident].severity)
  PROVE  IInv'
<1> USE DEF Begin
<1>1. TypeOK'
  BY DEF IInv, TypeOK, rows, logs
<1>2. \A i \in Incidents : Stamped(incidents[i])'
  BY DEF IInv, Stamped, rows
<1>3. ASSUME NEW k \in Handlers PROVE InFlight(k)'
  <2>1. CASE k = h
    BY <2>1 DEF IInv, TypeOK, InFlight, InFlightOn, Exists, rows
  <2>2. CASE k # h
    <3>1. handler'[k] = handler[k] /\ InFlight(k) /\ handler'[h] = request
          /\ incidents' = incidents
      BY <2>2 DEF IInv, TypeOK, rows
    <3>2. CASE handler[k].pc = "write" /\ handler[k].op = "create"
      <4>1. request.incident # handler[k].incident
        BY <3>1, <3>2 DEF InFlight, InFlightOn
      <4> QED
        BY <3>1, <3>2, <4>1 DEF IInv, TypeOK, InFlight, Exists
    <3>3. CASE ~(handler[k].pc = "write" /\ handler[k].op = "create")
      BY <3>1, <3>3 DEF InFlight, Exists
    <3> QED
      BY <3>2, <3>3
  <2> QED
    BY <2>1, <2>2
<1>4. ASSUME NEW k \in Handlers PROVE Current(k)'
  <2>1. CASE k = h
    BY <2>1 DEF IInv, TypeOK, Current, rows
  <2>2. CASE k # h
    BY <2>2 DEF IInv, TypeOK, Current, rows
  <2> QED
    BY <2>1, <2>2
<1> QED
  BY <1>1, <1>2, <1>3, <1>4 DEF IInv

LEMMA BeginRequestInv ==
  ASSUME IInv, NEW h \in Handlers, NEW i \in Incidents, BeginRequest(h, i)
  PROVE  IInv'
<1>1. ASSUME NEW s \in Severities, NEW actor \in Users,
             NEW c \in Users \cup {Null}, NEW al \in SUBSET Alerts,
             Create(h, i, s, actor, c, al)
      PROVE  IInv'
  <2> DEFINE request == [pc |-> "write", op |-> "create", incident |-> i,
                         severity |-> s, user |-> c, alerts |-> al]
  <2>1. /\ request \in Handler
        /\ request.pc = "write" /\ request.op = "create" /\ request.incident = i
    BY IncidentsAssumption DEF Handler, Ops
  <2>2. Begin(h, request) /\ ~Exists(i) /\ InFlightOn(i) = {}
    BY <1>1 DEF Create
  <2> HIDE DEF request
  <2> QED
    BY <2>1, <2>2, BeginInv DEF Ops, Lifecycle
<1>2. ASSUME NEW s \in Severities, ReclassifySeverity(h, i, s) PROVE IInv'
  <2> DEFINE request == [Idle EXCEPT !.pc = "write", !.op = "reclassify",
                                     !.incident = i, !.severity = s]
  <2>1. /\ request \in Handler
        /\ request.pc = "write" /\ request.op = "reclassify" /\ request.incident = i
    BY IncidentsAssumption DEF Handler, Idle, Ops
  <2>2. Begin(h, request) /\ Exists(i)
    BY <1>2 DEF ReclassifySeverity
  <2> HIDE DEF request
  <2> QED
    BY <2>1, <2>2, BeginInv DEF Ops, Lifecycle
<1>3. ASSUME NEW actor \in Users, NEW c \in Users, Assign(h, i, actor, c)
      PROVE  IInv'
  <2> DEFINE request == [Idle EXCEPT !.pc = "write", !.op = "assign",
                                     !.incident = i, !.user = c]
  <2>1. /\ request \in Handler
        /\ request.pc = "write" /\ request.op = "assign" /\ request.incident = i
    BY DEF Handler, Idle, Ops
  <2>2. Begin(h, request) /\ Exists(i)
    BY <1>3 DEF Assign
  <2> HIDE DEF request
  <2> QED
    BY <2>1, <2>2, BeginInv DEF Ops, Lifecycle
<1>4. ASSUME NEW op \in Lifecycle, NEW pc \in {"gate", "write"},
             BeginTransition(h, i, op, pc),
             pc = "gate" => op = "close",
             op = "close" /\ pc = "write" => ~RequiresRcaToClose(incidents[i].severity)
      PROVE  IInv'
  <2> DEFINE request == [Idle EXCEPT !.pc = pc, !.op = op, !.incident = i]
  <2>1. /\ request \in Handler
        /\ request.pc = pc /\ request.op = op /\ request.incident = i
    BY DEF Handler, Idle, Ops
  <2>2. Begin(h, request) /\ CanTransition(incidents[i].status, Target[op])
    BY <1>4 DEF BeginTransition
  <2>3. Exists(i) /\ op # "create"
    BY <2>2 DEF CanTransition, Exists, Status, Lifecycle
  <2> HIDE DEF request
  <2> QED
    BY <1>4, <2>1, <2>2, <2>3, BeginInv DEF Ops
<1>5. CASE Acknowledge(h, i) \/ Mitigate(h, i) \/ Resolve(h, i) \/ Reopen(h, i)
  BY <1>4, <1>5 DEF Acknowledge, Mitigate, Resolve, Reopen, Lifecycle
<1>6. CASE Close(h, i)
  BY <1>4, <1>6 DEF Close, Lifecycle
<1> QED
  BY <1>1, <1>2, <1>3, <1>5, <1>6 DEF BeginRequest

\* The INSERT or UPDATE of a request: the row it leaves is stamped, and the
\* other requests that read the row before are stale after it.
LEMMA WriteInv ==
  ASSUME IInv, NEW h \in Handlers, NEW row \in Incident, NEW pc \in {"link", "timeline"},
         handler[h].pc = "write", Write(h, row, pc),
         row.status # "NONE", Stamped(row)
  PROVE  IInv'
<1> DEFINE i == handler[h].incident
<1> USE DEF Write
<1>0. i \in Incidents /\ handler[h].op \in Ops /\ InFlight(h)
  BY DEF IInv, InFlight
<1>1. TypeOK'
  BY <1>0 DEF IInv, TypeOK, Handler, logs, Waiting, InFlightOn
<1>2. \A j \in Incidents : Stamped(incidents[j])'
  BY <1>0 DEF IInv, TypeOK, Stamped
<1>3. incidents'[i] = row /\ \A j \in Incidents : j # i => incidents'[j] = incidents[j]
  BY <1>0 DEF IInv, TypeOK
<1>4. ASSUME NEW k \in Handlers PROVE InFlight(k)'
  <2>1. CASE k = h
    BY <2>1, <1>0, <1>3 DEF IInv, TypeOK, Handler, InFlight, Exists
  <2>2. CASE k # h
    <3>1. handler'[k] = handler[k] /\ InFlight(k)
          /\ handler'[h].incident = handler[h].incident
      BY <2>2 DEF IInv, TypeOK, Handler
    <3>2. CASE handler[k].pc = "write" /\ handler[k].op = "create"
      <4>1. i # handler[k].incident
        BY <2>2, <3>1, <3>2 DEF InFlight
      <4>2. \A m \in Handlers : handler'[m].incident = handler[m].incident
        BY DEF IInv, TypeOK, Handler
      <4> QED
        BY <3>1, <3>2, <4>1, <4>2, <1>3 DEF InFlight, Exists
    <3>3. CASE ~(handler[k].pc = "write" /\ handler[k].op = "create")
      BY <3>1, <3>3, <1>3 DEF InFlight, Exists
    <3> QED
      BY <3>2, <3>3
  <2> QED
    BY <2>1, <2>2
<1>5. ASSUME NEW k \in Handlers PROVE Current(k)'
  <2>1. CASE k = h
    BY <2>1 DEF IInv, TypeOK, Handler, Current
  <2>2. CASE k # h
    <3>1. handler'[k] = handler[k] /\ Current(k) /\ InFlight(k)
      BY <2>2 DEF IInv, TypeOK
    <3>2. CASE handler[k].pc \in {"gate", "write"} /\ handler[k].incident = i
      BY <2>2, <3>1, <3>2 DEF Current, Waiting, InFlightOn
    <3>3. CASE handler[k].pc \in {"gate", "write"} /\ handler[k].incident # i
      <4>1. incidents'[handler[k].incident] = incidents[handler[k].incident]
        BY <3>1, <3>3, <1>3 DEF InFlight
      <4>2. k \notin stale' => k \notin stale
        BY <2>2
      <4> QED
        BY <3>1, <4>1, <4>2 DEF Current
    <3>4. CASE handler[k].pc \notin {"gate", "write"}
      BY <3>1, <3>4 DEF Current
    <3> QED
      BY <3>2, <3>3, <3>4
  <2> QED
    BY <2>1, <2>2
<1> QED
  BY <1>1, <1>2, <1>4, <1>5 DEF IInv

\* Each of the four writes leaves a stamped row.
LEMMA InsertIncidentInv ==
  ASSUME IInv, NEW h \in Handlers, InsertIncident(h)
  PROVE  IInv'
<1> DEFINE r == handler[h]
           owned == r.user # Null
           row == [NoIncident EXCEPT !.status = IF owned THEN "ACKNOWLEDGED" ELSE "OPEN",
                                     !.severity = r.severity,
                                     !.commander = r.user,
                                     !.acknowledged = owned,
                                     !.openedAt = now]
           pc == IF r.alerts = {} THEN "timeline" ELSE "link"
<1>1. r \in Handler /\ now \in Nat
  BY DEF IInv, TypeOK
<1>2. owned \in BOOLEAN
  OBVIOUS
<1>3. Write(h, row, pc) /\ r.pc = "write"
  BY DEF InsertIncident
<1>4. pc \in {"link", "timeline"}
  OBVIOUS
<1> HIDE DEF owned, pc
<1>5. /\ row \in Incident
      /\ row.status = IF owned THEN "ACKNOWLEDGED" ELSE "OPEN"
      /\ row.acknowledged = owned /\ row.resolved = FALSE /\ row.closed = FALSE
  BY <1>1, <1>2 DEF NoIncident, Incident, Handler, Status
<1> HIDE DEF row
<1>6. row.status # "NONE" /\ Stamped(row)
  BY <1>2, <1>5 DEF Stamped
<1> QED
  BY <1>3, <1>4, <1>5, <1>6, WriteInv

LEMMA UpdateInv ==
  ASSUME IInv, NEW h \in Handlers,
         WriteSeverity(h) \/ WriteCommander(h) \/ WriteStatus(h)
  PROVE  IInv'
<1> DEFINE r == handler[h]
           old == incidents[r.incident]
<1>1. /\ r.incident \in Incidents /\ r \in Handler /\ old \in Incident
      /\ old.status # "NONE" /\ Stamped(old)
  BY DEF IInv, TypeOK, InFlight, Exists, WriteSeverity, WriteCommander, WriteStatus,
         Lifecycle
<1>2. CASE WriteSeverity(h)
  <2> DEFINE row == [old EXCEPT !.severity = r.severity]
  <2>1. row \in Incident /\ row.status # "NONE" /\ Stamped(row)
    BY <1>1 DEF Incident, Handler, Stamped
  <2>2. Write(h, row, "timeline") /\ r.pc = "write"
    BY <1>2 DEF WriteSeverity
  <2> HIDE DEF row
  <2> QED
    BY <2>1, <2>2, WriteInv
<1>3. CASE WriteCommander(h)
  <2> DEFINE row == [old EXCEPT !.commander = r.user]
  <2>1. row \in Incident /\ row.status # "NONE" /\ Stamped(row)
    BY <1>1 DEF Incident, Handler, Stamped
  <2>2. Write(h, row, "timeline") /\ r.pc = "write"
    BY <1>3 DEF WriteCommander
  <2> HIDE DEF row
  <2> QED
    BY <2>1, <2>2, WriteInv
<1>4. CASE WriteStatus(h)
  <2> DEFINE row == TransitionStatus(old, Target[r.op])
  <2>1. Write(h, row, "timeline") /\ r.pc = "write" /\ r.op \in Lifecycle
    BY <1>4 DEF WriteStatus
  <2>2. row \in Incident /\ row.status = Target[r.op] /\ Stamped(row)
    BY <2>1, <1>1, TargetType, TransitionStatusFacts
  <2>3. row.status # "NONE"
    BY <2>1, <2>2, TargetType DEF Status
  <2> HIDE DEF row
  <2> QED
    BY <2>1, <2>2, <2>3, WriteInv
<1> QED
  BY <1>2, <1>3, <1>4

\* After its write a request has only entries to add, and it can end at any
\* await; neither touches what the other requests rely on.
LEMMA MoveInv ==
  ASSUME IInv, NEW h \in Handlers, NEW r \in Handler,
         handler' = [handler EXCEPT ![h] = r],
         \/ r.pc = "idle" /\ r.incident = Null
         \/ /\ r.pc \in {"timeline", "audit"} /\ handler[h].pc \in {"link", "timeline"}
            /\ r.op = handler[h].op /\ r.incident = handler[h].incident,
         stale' = stale \/ stale' = stale \ {h},
         UNCHANGED <<now, incidents, rcaApproved>>,
         alertIncident' \in [Alerts -> Incidents \cup {Null}],
         timeline' \in [Incidents -> Lifecycle \cup {"create", Null}],
         audit' \in [Incidents -> Lifecycle \cup {"create", Null}],
         disturbed' \in SUBSET Incidents
  PROVE  IInv'
<1>1. TypeOK'
  BY DEF IInv, TypeOK
<1>2. \A i \in Incidents : Stamped(incidents[i])'
  BY DEF IInv, Stamped
<1>3. ASSUME NEW k \in Handlers PROVE InFlight(k)'
  <2>1. CASE k = h
    <3>1. handler'[h] = r /\ InFlight(h)
      BY DEF IInv, TypeOK
    <3> QED
      BY <2>1, <3>1 DEF InFlight, Exists
  <2>2. CASE k # h
    <3>1. handler'[k] = handler[k] /\ InFlight(k)
      BY <2>2 DEF IInv, TypeOK
    <3>2. r.incident = Null \/ r.incident = handler[h].incident
      OBVIOUS
    <3>3. Null \notin Incidents
      BY IncidentsAssumption
    <3>4. \A m \in Handlers : handler'[m].incident = IF m = h THEN r.incident
                                                    ELSE handler[m].incident
      BY DEF IInv, TypeOK
    <3> QED
      BY <3>1, <3>2, <3>3, <3>4 DEF InFlight, Exists
  <2> QED
    BY <2>1, <2>2
<1>4. \A k \in Handlers : Current(k)'
  BY DEF IInv, TypeOK, Current
<1> QED
  BY <1>1, <1>2, <1>3, <1>4 DEF IInv

LEMMA TailInv ==
  ASSUME IInv, NEW h \in Handlers,
         \/ RefuseAtRcaGate(h) \/ LinkAlerts(h)
         \/ AppendTimeline(h) \/ RecordAudit(h) \/ Abort(h)
  PROVE  IInv'
<1>1. /\ TypeOK /\ handler[h] \in Handler /\ InFlight(h)
      /\ Idle \in Handler /\ Idle.pc = "idle" /\ Idle.incident = Null
  BY IdleType DEF IInv, TypeOK, Idle
<1> USE DEF rows, logs
<1>2. CASE RefuseAtRcaGate(h)
  BY <1>1, <1>2, MoveInv DEF RefuseAtRcaGate, TypeOK
<1>3. CASE Abort(h)
  <2>1. disturbed' \in SUBSET Incidents
    BY <1>1, <1>3 DEF Abort, TypeOK, InFlight
  <2> QED
    BY <1>1, <1>3, <2>1, MoveInv DEF Abort, TypeOK
<1>4. CASE RecordAudit(h)
  <2>1. audit' \in [Incidents -> Lifecycle \cup {"create", Null}]
    BY <1>1, <1>4 DEF RecordAudit, TypeOK, TellsStatus
  <2> QED
    BY <1>1, <1>4, <2>1, MoveInv DEF RecordAudit, TypeOK
<1>5. CASE AppendTimeline(h)
  <2> DEFINE r == [handler[h] EXCEPT !.pc = "audit"]
  <2>1. r \in Handler /\ r.pc = "audit" /\ r.op = handler[h].op
        /\ r.incident = handler[h].incident
    BY <1>1 DEF Handler
  <2>2. handler' = [handler EXCEPT ![h] = r]
    BY <1>1, <1>5 DEF AppendTimeline, TypeOK
  <2>3. timeline' \in [Incidents -> Lifecycle \cup {"create", Null}]
    BY <1>1, <1>5 DEF AppendTimeline, TypeOK, TellsStatus
  <2> HIDE DEF r
  <2> QED
    BY <1>1, <1>5, <2>1, <2>2, <2>3, MoveInv DEF AppendTimeline, TypeOK
<1>6. CASE LinkAlerts(h)
  <2> DEFINE r == [handler[h] EXCEPT !.pc = "timeline"]
  <2>1. r \in Handler /\ r.pc = "timeline" /\ r.op = handler[h].op
        /\ r.incident = handler[h].incident
    BY <1>1 DEF Handler
  <2>2. handler' = [handler EXCEPT ![h] = r]
    BY <1>1, <1>6 DEF LinkAlerts, TypeOK
  <2>3. alertIncident' \in [Alerts -> Incidents \cup {Null}]
    BY <1>1, <1>6 DEF LinkAlerts, TypeOK, InFlight
  <2> HIDE DEF r
  <2> QED
    BY <1>1, <1>6, <2>1, <2>2, <2>3, MoveInv DEF LinkAlerts, TypeOK
<1> QED
  BY <1>2, <1>3, <1>4, <1>5, <1>6

\* The gate opens only on an approved report: that is what Current asks for.
LEMMA GateInv ==
  ASSUME IInv, NEW h \in Handlers, CheckRcaGate(h)
  PROVE  IInv'
<1> USE DEF CheckRcaGate, rows, logs
<1>1. handler[h] \in Handler /\ InFlight(h) /\ Current(h) /\ handler[h].op = "close"
  BY DEF IInv, TypeOK, InFlight
<1>2. TypeOK'
  BY <1>1 DEF IInv, TypeOK, Handler
<1>3. \A i \in Incidents : Stamped(incidents[i])'
  BY DEF IInv, Stamped
<1>4. ASSUME NEW k \in Handlers PROVE (InFlight(k) /\ Current(k))'
  <2>1. \A m \in Handlers : handler'[m].incident = handler[m].incident
                            /\ handler'[m].op = handler[m].op
    BY DEF IInv, TypeOK, Handler
  <2>2. CASE k = h
    <3>1. handler'[h].pc = "write"
      BY <1>1 DEF IInv, TypeOK, Handler
    <3> QED
      BY <1>1, <2>1, <2>2, <3>1 DEF InFlight, Current, Exists, Lifecycle
  <2>3. CASE k # h
    <3>1. handler'[k] = handler[k] /\ InFlight(k) /\ Current(k)
      BY <2>3 DEF IInv, TypeOK
    <3> QED
      BY <2>1, <3>1 DEF InFlight, Current, Exists
  <2> QED
    BY <2>2, <2>3
<1> QED
  BY <1>2, <1>3, <1>4 DEF IInv

\* The clock and the review: a withdrawn approval makes the closes that passed
\* the gate stale.
LEMMA SurroundingsInv ==
  ASSUME IInv, Tick \/ \E i \in Incidents : ApproveRca(i) \/ WithdrawRca(i)
  PROVE  IInv'
<1> USE DEF Tick, ApproveRca, WithdrawRca, rows, logs
<1>1. TypeOK'
  BY IncidentsAssumption DEF IInv, TypeOK, InFlightOn
<1>2. (\A i \in Incidents : Stamped(incidents[i]))' /\ \A h \in Handlers : InFlight(h)'
  BY DEF IInv, Stamped, InFlight, Exists
<1>3. \A h \in Handlers : Current(h)'
  BY DEF IInv, Current, InFlightOn
<1> QED
  BY <1>1, <1>2, <1>3 DEF IInv

LEMMA NextInv == IInv /\ [Next]_vars => IInv'
<1> SUFFICES ASSUME IInv, [Next]_vars PROVE IInv'
  OBVIOUS
<1>1. ASSUME NEW h \in Handlers, NEW i \in Incidents, BeginRequest(h, i) PROVE IInv'
  BY <1>1, BeginRequestInv
<1>2. ASSUME NEW h \in Handlers, ContinueRequest(h) \/ Abort(h) PROVE IInv'
  BY <1>2, InsertIncidentInv, UpdateInv, TailInv, GateInv DEF ContinueRequest
<1>3. CASE Tick \/ \E i \in Incidents : ApproveRca(i) \/ WithdrawRca(i)
  BY <1>3, SurroundingsInv
<1>4. CASE UNCHANGED vars
  BY <1>4 DEF vars, IInv, TypeOK, Stamped, InFlight, Current, Exists
<1> QED
  BY <1>1, <1>2, <1>3, <1>4 DEF Next

\* The inductive invariant holds of every reachable state.
LEMMA Invariance == Spec => []IInv
  BY InitInv, NextInv, PTL DEF Spec

\* The variables keep their types.
THEOREM TypeCorrect == Spec => []TypeOK
<1>1. IInv => TypeOK
  BY DEF IInv
<1> QED
  BY <1>1, Invariance, PTL

\* Whatever the order in which requests overwrite each other's status, each
\* UPDATE leaves timestamps that agree with the status it writes.
THEOREM StampsHold == Spec => []StampsMatchStatus
<1>1. IInv => StampsMatchStatus
  BY DEF IInv, Stamped, StampsMatchStatus
<1> QED
  BY <1>1, Invariance, PTL

-----------------------------------------------------------------------------
(* The action properties.                                                  *)

\* The only steps that touch an incident's row are the four writes, each of
\* the incident of the request that takes it.
LEMMA RowChange ==
  ASSUME IInv, Next, NEW i \in Incidents, incidents'[i] # incidents[i]
  PROVE  \E h \in Handlers :
           /\ handler[h].incident = i
           /\ Writes(h)
           /\ InsertIncident(h) \/ WriteSeverity(h) \/ WriteCommander(h) \/ WriteStatus(h)
<1>1. PICK h \in Handlers :
        InsertIncident(h) \/ WriteSeverity(h) \/ WriteCommander(h) \/ WriteStatus(h)
  <2>1. incidents' # incidents
    OBVIOUS
  <2>2. ASSUME NEW h \in Handlers, NEW j \in Incidents, BeginRequest(h, j) PROVE FALSE
    BY <2>1, <2>2 DEF BeginRequest, Create, ReclassifySeverity, Assign, BeginTransition,
         Acknowledge, Mitigate, Resolve, Reopen, Close, Begin, rows
  <2>3. ASSUME NEW h \in Handlers,
               \/ CheckRcaGate(h) \/ RefuseAtRcaGate(h) \/ LinkAlerts(h)
               \/ AppendTimeline(h) \/ RecordAudit(h) \/ Abort(h)
        PROVE  FALSE
    BY <2>1, <2>3 DEF CheckRcaGate, RefuseAtRcaGate, LinkAlerts, AppendTimeline,
         RecordAudit, Abort, rows
  <2>4. ~Tick /\ \A j \in Incidents : ~ApproveRca(j) /\ ~WithdrawRca(j)
    BY <2>1 DEF Tick, ApproveRca, WithdrawRca, rows
  <2> QED
    BY <2>2, <2>3, <2>4 DEF Next, ContinueRequest
<1>2. PICK row, pc : Write(h, row, pc) /\ handler[h].pc = "write" /\ pc \in {"link", "timeline"}
  BY <1>1 DEF InsertIncident, WriteSeverity, WriteCommander, WriteStatus
<1>3. handler[h].incident = i
  BY <1>2 DEF IInv, TypeOK, Write
<1>4. Writes(h)
  BY <1>2 DEF IInv, TypeOK, Handler, Write, Writes
<1> QED
  BY <1>1, <1>3, <1>4

\* A write whose request is not stale: what the request read is what it
\* overwrites.
LEMMA FreshWrite ==
  ASSUME IInv, Next, NEW i \in Incidents, incidents'[i] # incidents[i], ~StaleWrite(i)
  PROVE  \/ ~Exists(i) /\ incidents'[i].status \in {"OPEN", "ACKNOWLEDGED"}
            /\ (incidents'[i].status = "ACKNOWLEDGED" => incidents'[i].acknowledged)
         \/ Exists(i) /\ incidents'[i].status = incidents[i].status
            /\ (incidents'[i].acknowledged <=> incidents[i].acknowledged)
         \/ \E op \in Lifecycle :
              /\ CanTransition(incidents[i].status, Target[op])
              /\ incidents'[i] = TransitionStatus(incidents[i], Target[op])
              /\ op = "close" /\ RequiresRcaToClose(incidents[i].severity) => i \in rcaApproved
<1>1. PICK h \in Handlers :
        /\ handler[h].incident = i
        /\ Writes(h)
        /\ InsertIncident(h) \/ WriteSeverity(h) \/ WriteCommander(h) \/ WriteStatus(h)
  BY RowChange
<1>2. h \notin stale /\ handler[h].pc = "write" /\ InFlight(h) /\ Current(h)
      /\ incidents[i] \in Incident /\ handler[h] \in Handler
  BY <1>1 DEF StaleWrite, IInv, TypeOK, Writes
<1>3. CASE InsertIncident(h)
  <2> DEFINE owned == handler[h].user # Null
  <2>1. incidents'[i] = [NoIncident EXCEPT !.status = IF owned THEN "ACKNOWLEDGED" ELSE "OPEN",
                                           !.severity = handler[h].severity,
                                           !.commander = handler[h].user,
                                           !.acknowledged = owned,
                                           !.openedAt = now]
    BY <1>1, <1>3 DEF InsertIncident, Write, IInv, TypeOK
  <2>2. owned \in BOOLEAN
    OBVIOUS
  <2>3. ~Exists(i)
    BY <1>1, <1>2, <1>3 DEF InFlight, InsertIncident
  <2> HIDE DEF owned
  <2>4. /\ incidents'[i].status = IF owned THEN "ACKNOWLEDGED" ELSE "OPEN"
        /\ incidents'[i].acknowledged = owned
    BY <2>1 DEF NoIncident
  <2> QED
    BY <2>2, <2>3, <2>4
<1>4. CASE WriteSeverity(h) \/ WriteCommander(h)
  <2>1. \/ incidents'[i] = [incidents[i] EXCEPT !.severity = handler[h].severity]
        \/ incidents'[i] = [incidents[i] EXCEPT !.commander = handler[h].user]
    BY <1>1, <1>4 DEF WriteSeverity, WriteCommander, Write, IInv, TypeOK
  <2>2. Exists(i)
    BY <1>1, <1>2, <1>4 DEF InFlight, WriteSeverity, WriteCommander
  <2> QED
    BY <1>2, <2>1, <2>2 DEF Incident
<1>5. CASE WriteStatus(h)
  <2>1. incidents'[i] = TransitionStatus(incidents[i], Target[handler[h].op])
    BY <1>1, <1>5 DEF WriteStatus, Write, IInv, TypeOK
  <2>2. handler[h].op \in Lifecycle
    BY <1>5 DEF WriteStatus
  <2> QED
    BY <1>1, <1>2, <2>1, <2>2 DEF Current
<1> QED
  BY <1>1, <1>3, <1>4, <1>5

\* "The legal status transitions" (incidents.types.ts:40) are kept by every
\* request that writes what it read: illegal ones need an overlap.
THEOREM TransitionsBrokenOnlyByStale == Spec => OnlyStaleRequestsBreakTransitions
<1> DEFINE A == \A i \in Incidents :
                  Exists(i) /\ incidents'[i].status # incidents[i].status =>
                    \/ CanTransition(incidents[i].status, incidents'[i].status)
                    \/ StaleWrite(i)
<1>1. IInv /\ [Next]_vars => [A]_vars
  <2> SUFFICES ASSUME IInv, Next, NEW i \in Incidents, Exists(i),
                      incidents'[i].status # incidents[i].status, ~StaleWrite(i)
               PROVE  CanTransition(incidents[i].status, incidents'[i].status)
    OBVIOUS
  <2>1. PICK op \in Lifecycle :
          /\ CanTransition(incidents[i].status, Target[op])
          /\ incidents'[i] = TransitionStatus(incidents[i], Target[op])
    BY FreshWrite
  <2>2. incidents'[i].status = Target[op]
    BY <2>1, TransitionStatusFacts, TargetType DEF IInv, TypeOK
  <2> QED
    BY <2>1, <2>2
<1> QED
  BY <1>1, Invariance, PTL DEF Spec, OnlyStaleRequestsBreakTransitions

\* "An incident can't be marked resolved if no one ever owned it"
\* (incidents.types.ts:42), for every request that writes what it read.
THEOREM OwnerLostOnlyByStale == Spec => OnlyStaleRequestsLoseTheOwner
<1> DEFINE A == \A i \in Incidents :
                  Unowned(incidents'[i]) => Unowned(incidents[i]) \/ StaleWrite(i)
<1>1. IInv /\ [Next]_vars => [A]_vars
  <2> SUFFICES ASSUME IInv, Next, NEW i \in Incidents,
                      Unowned(incidents'[i]), ~Unowned(incidents[i]), ~StaleWrite(i)
               PROVE  FALSE
    OBVIOUS
  <2>1. incidents'[i] # incidents[i] /\ incidents[i] \in Incident
    BY DEF IInv, TypeOK
  <2>2. PICK op \in Lifecycle :
          /\ CanTransition(incidents[i].status, Target[op])
          /\ incidents'[i] = TransitionStatus(incidents[i], Target[op])
    BY <2>1, FreshWrite DEF Unowned, Exists
  <2>3. /\ incidents'[i].status = Target[op]
        /\ incidents'[i].acknowledged <=>
             (incidents[i].acknowledged \/ Target[op] = "ACKNOWLEDGED") /\ Target[op] # "OPEN"
    BY <2>1, <2>2, TransitionStatusFacts, TargetType
  <2>4. CASE incidents[i].status = "OPEN"
    <3>1. Target[op] = "ACKNOWLEDGED"
      BY <2>2, <2>4 DEF CanTransition, IncidentTransitions
    <3> QED
      BY <2>3, <3>1 DEF Unowned
  <2>5. CASE incidents[i].status # "OPEN"
    <3>1. incidents[i].acknowledged
      BY <2>2, <2>5 DEF Unowned, CanTransition, Status
    <3> QED
      BY <2>3, <3>1 DEF Unowned
  <2> QED
    BY <2>4, <2>5
<1> QED
  BY <1>1, Invariance, PTL DEF Spec, OnlyStaleRequestsLoseTheOwner

\* "A P1/P2 cannot be closed without an approved RCA on file"
\* (incidents.service.ts:213), although the severity, the approval and the row
\* are read and written in three different awaits, unless one of them changed
\* in between.
THEOREM GateSkippedOnlyByStale == Spec => OnlyStaleRequestsSkipTheRcaGate
<1> DEFINE A == \A i \in Incidents :
                  /\ incidents[i].status # "CLOSED" /\ incidents'[i].status = "CLOSED"
                  /\ RequiresRcaToClose(incidents[i].severity)
                  => i \in rcaApproved \/ StaleWrite(i)
<1>1. IInv /\ [Next]_vars => [A]_vars
  <2> SUFFICES ASSUME IInv, Next, NEW i \in Incidents,
                      incidents[i].status # "CLOSED", incidents'[i].status = "CLOSED",
                      RequiresRcaToClose(incidents[i].severity), ~StaleWrite(i)
               PROVE  i \in rcaApproved
    OBVIOUS
  <2>1. PICK op \in Lifecycle :
          /\ incidents'[i] = TransitionStatus(incidents[i], Target[op])
          /\ op = "close" /\ RequiresRcaToClose(incidents[i].severity) => i \in rcaApproved
    BY FreshWrite
  <2>2. Target[op] = "CLOSED"
    BY <2>1, TransitionStatusFacts, TargetType DEF IInv, TypeOK
  <2>3. op = "close"
    BY <2>2 DEF Target, Lifecycle
  <2> QED
    BY <2>1, <2>3
<1> QED
  BY <1>1, Invariance, PTL DEF Spec, OnlyStaleRequestsSkipTheRcaGate

-----------------------------------------------------------------------------
(* The row, the timeline and the audit log.                                *)

StoryAgrees(i) ==
    /\ timeline[i] # Null /\ audit[i] = timeline[i]
    /\ incidents[i].status \in Leaves(timeline[i])

\* A request has written its row and tells of a new status.
Tells(r) == r.pc \in {"link", "timeline", "audit"} /\ TellsStatus(r.op)

\* What request r on incident i leaves to tell: the entries still to come, once
\* it has written a new status; else nothing, but for the row to insert.
StillToTell(r, i) ==
    /\ ~Tells(r) /\ ~(r.pc = "write" /\ r.op = "create") => StoryAgrees(i)
    /\ Tells(r) => /\ incidents[i].status \in Leaves(r.op)
                   /\ r.pc = "audit" => timeline[i] = r.op
    /\ r.pc = "link" => r.op = "create"

\* As long as requests do not overlap, the one on the incident tells the rest.
Story(i) ==
    /\ \A h, k \in InFlightOn(i) : h = k
    /\ InFlightOn(i) = {} /\ Exists(i) => StoryAgrees(i)
    /\ \A h \in InFlightOn(i) : StillToTell(handler[h], i)

\* A step of request h that tells its part keeps the story of its incident.
LEMMA OwnStory ==
    ASSUME NEW h \in Handlers, NEW i \in Incidents,
           \A k \in InFlightOn(i) : k = h,
           \A k \in Handlers \ {h} : handler'[k] = handler[k],
           \/ handler'[h].incident = i /\ StillToTell(handler[h], i)'
           \/ handler'[h].incident # i /\ (Exists(i)' => StoryAgrees(i)')
    PROVE  Story(i)'
<1>1. \A k \in InFlightOn(i)' : k = h /\ handler'[h].incident = i
  BY DEF InFlightOn
<1>2. InFlightOn(i)' = {} => handler'[h].incident # i
  BY DEF InFlightOn
<1> QED
  BY <1>1, <1>2 DEF Story

\* Steps that leave an incident alone keep its story.
LEMMA OtherStory ==
    ASSUME NEW i \in Incidents, Story(i),
           \A k \in Handlers : handler'[k].incident = i \/ handler[k].incident = i =>
                                handler'[k] = handler[k],
           incidents'[i] = incidents[i], timeline'[i] = timeline[i], audit'[i] = audit[i]
    PROVE  Story(i)'
<1>1. InFlightOn(i)' = InFlightOn(i)
  BY DEF InFlightOn
<1>2. /\ StoryAgrees(i)' <=> StoryAgrees(i)
      /\ Exists(i)' <=> Exists(i)
  BY DEF StoryAgrees, Exists
<1>3. ASSUME NEW h \in InFlightOn(i) PROVE StillToTell(handler[h], i)' <=> StillToTell(handler[h], i)
  <2>1. handler'[h] = handler[h]
    BY DEF InFlightOn
  <2> QED
    BY <1>2, <2>1 DEF StillToTell, Tells
<1> QED
  BY <1>1, <1>2, <1>3 DEF Story

\* A request that begins on an incident no other is on finds its story told.
LEMMA BeginStory ==
    ASSUME IInv, NEW h \in Handlers, NEW r \in Handler, Begin(h, r), NEW i \in Incidents \ disturbed',
           Story(i),
           \/ r.pc = "write" /\ r.op = "create"
           \/ r.pc \in {"gate", "write"} /\ Exists(r.incident)
    PROVE  Story(i)'
<1>1. /\ handler[h].pc = "idle" /\ handler[h].incident = Null
      /\ handler'[h] = r
      /\ \A k \in Handlers \ {h} : handler'[k] = handler[k]
      /\ incidents' = incidents /\ timeline' = timeline /\ audit' = audit
  BY DEF Begin, IInv, TypeOK, InFlight, rows, logs
<1>2. CASE r.incident = i
  <2>1. InFlightOn(i) = {}
    BY <1>2 DEF Begin
  <2>2. Exists(i) => StoryAgrees(i)'
    BY <1>1, <2>1 DEF Story, StoryAgrees
  <2>3. StillToTell(handler[h], i)'
    BY <1>1, <1>2, <2>2 DEF StillToTell, Tells
  <2> QED
    BY <1>1, <1>2, <2>1, <2>3, OwnStory
<1>3. CASE r.incident # i
  <2>1. handler[h].incident # i
    BY <1>1, IncidentsAssumption
  <2> QED
    BY <1>1, <1>3, <2>1, OtherStory
<1> QED
  BY <1>2, <1>3

LEMMA BeginRequestStory ==
    ASSUME IInv, NEW h \in Handlers, NEW j \in Incidents, BeginRequest(h, j),
           NEW i \in Incidents \ disturbed', Story(i)
    PROVE  Story(i)'
<1>1. ASSUME NEW s \in Severities, NEW actor \in Users,
             NEW c \in Users \cup {Null}, NEW al \in SUBSET Alerts,
             Create(h, j, s, actor, c, al)
      PROVE  Story(i)'
  <2> DEFINE r == [pc |-> "write", op |-> "create", incident |-> j,
                   severity |-> s, user |-> c, alerts |-> al]
  <2>1. r \in Handler /\ r.pc = "write" /\ r.op = "create"
    BY IncidentsAssumption DEF Handler, Ops
  <2>2. Begin(h, r)
    BY <1>1 DEF Create
  <2> HIDE DEF r
  <2> QED
    BY <2>1, <2>2, BeginStory
<1>2. ASSUME NEW s \in Severities, ReclassifySeverity(h, j, s) PROVE Story(i)'
  <2> DEFINE r == [Idle EXCEPT !.pc = "write", !.op = "reclassify",
                               !.incident = j, !.severity = s]
  <2>1. r \in Handler /\ r.pc = "write" /\ r.incident = j
    BY IncidentsAssumption DEF Handler, Idle, Ops
  <2>2. Begin(h, r) /\ Exists(j)
    BY <1>2 DEF ReclassifySeverity
  <2> HIDE DEF r
  <2> QED
    BY <2>1, <2>2, BeginStory
<1>3. ASSUME NEW actor \in Users, NEW c \in Users, Assign(h, j, actor, c) PROVE Story(i)'
  <2> DEFINE r == [Idle EXCEPT !.pc = "write", !.op = "assign", !.incident = j, !.user = c]
  <2>1. r \in Handler /\ r.pc = "write" /\ r.incident = j
    BY DEF Handler, Idle, Ops
  <2>2. Begin(h, r) /\ Exists(j)
    BY <1>3 DEF Assign
  <2> HIDE DEF r
  <2> QED
    BY <2>1, <2>2, BeginStory
<1>4. ASSUME NEW op \in Lifecycle, NEW pc \in {"gate", "write"}, BeginTransition(h, j, op, pc)
      PROVE  Story(i)'
  <2> DEFINE r == [Idle EXCEPT !.pc = pc, !.op = op, !.incident = j]
  <2>1. r \in Handler /\ r.pc = pc /\ r.incident = j
    BY DEF Handler, Idle, Ops
  <2>2. Begin(h, r) /\ Exists(j)
    BY <1>4 DEF BeginTransition, CanTransition, Exists, Status
  <2> HIDE DEF r
  <2> QED
    BY <2>1, <2>2, BeginStory
<1>5. CASE Acknowledge(h, j) \/ Mitigate(h, j) \/ Resolve(h, j) \/ Reopen(h, j) \/ Close(h, j)
  BY <1>4, <1>5 DEF Acknowledge, Mitigate, Resolve, Reopen, Close, Lifecycle
<1> QED
  BY <1>1, <1>2, <1>3, <1>5 DEF BeginRequest

\* A row written by h: its other requests, were there any, are told of by Story.
LEMMA WriteStory ==
    ASSUME IInv, NEW h \in Handlers, NEW row \in Incident, NEW pc \in {"link", "timeline"},
           handler[h].pc = "write", Write(h, row, pc),
           NEW i \in Incidents \ disturbed', Story(i),
           pc = "link" => handler[h].op = "create",
           IF TellsStatus(handler[h].op) THEN row.status \in Leaves(handler[h].op)
           ELSE row.status = incidents[handler[h].incident].status
    PROVE  Story(i)'
<1> DEFINE j == handler[h].incident
<1>1. /\ j \in Incidents /\ handler[h] \in Handler
      /\ handler'[h].pc = pc /\ handler'[h].op = handler[h].op /\ handler'[h].incident = j
      /\ \A k \in Handlers \ {h} : handler'[k] = handler[k]
      /\ incidents' = [incidents EXCEPT ![j] = row]
      /\ timeline' = timeline /\ audit' = audit
  BY DEF Write, IInv, TypeOK, Handler, InFlight, logs
<1>2. CASE j # i
  <2>1. incidents'[i] = incidents[i]
    BY <1>1, <1>2 DEF IInv, TypeOK
  <2> QED
    BY <1>1, <1>2, <2>1, OtherStory
<1>3. CASE j = i
  <2>1. incidents'[i] = row
    BY <1>1, <1>3 DEF IInv, TypeOK
  <2>2. h \in InFlightOn(i) /\ \A k \in InFlightOn(i) : k = h
    BY <1>3 DEF Story, InFlightOn
  <2>3. CASE TellsStatus(handler[h].op)
    <3>1. StillToTell(handler[h], i)'
      BY <1>1, <2>1, <2>3 DEF StillToTell, Tells, TellsStatus, Leaves
    <3> QED
      BY <1>1, <1>3, <2>2, <3>1, OwnStory
  <2>4. CASE ~TellsStatus(handler[h].op)
    <3>1. StoryAgrees(i)
      BY <2>2, <2>4 DEF Story, StillToTell, Tells, TellsStatus
    <3>2. row.status = incidents[i].status
      BY <1>3, <2>4
    <3>3. StoryAgrees(i)'
      BY <1>1, <2>1, <3>1, <3>2 DEF StoryAgrees, Leaves
    <3>4. StillToTell(handler[h], i)'
      BY <1>1, <2>4, <3>3 DEF StillToTell, Tells, TellsStatus
    <3> QED
      BY <1>1, <1>3, <2>2, <3>4, OwnStory
  <2> QED
    BY <2>3, <2>4
<1> QED
  BY <1>2, <1>3

\* The INSERT and the UPDATEs leave the status their operation tells of.
LEMMA WritesStory ==
    ASSUME IInv, NEW h \in Handlers, NEW i \in Incidents \ disturbed', Story(i),
           InsertIncident(h) \/ WriteSeverity(h) \/ WriteCommander(h) \/ WriteStatus(h)
    PROVE  Story(i)'
<1> DEFINE r == handler[h]
           old == incidents[r.incident]
<1>1. r.incident \in Incidents /\ r \in Handler /\ old \in Incident
  BY DEF IInv, TypeOK, InFlight, InsertIncident, WriteSeverity, WriteCommander, WriteStatus
<1>2. CASE InsertIncident(h)
  <2> DEFINE owned == r.user # Null
             row == [NoIncident EXCEPT !.status = IF owned THEN "ACKNOWLEDGED" ELSE "OPEN",
                                       !.severity = r.severity,
                                       !.commander = r.user,
                                       !.acknowledged = owned,
                                       !.openedAt = now]
             pc == IF r.alerts = {} THEN "timeline" ELSE "link"
  <2>0. owned \in BOOLEAN /\ (owned => r.user \in Users) /\ now \in Nat
    BY <1>1 DEF Handler, IInv, TypeOK
  <2>1. row \in Incident /\ row.status \in Leaves("create")
    <3> HIDE DEF owned
    <3> QED
      BY ZenonT(40), <1>1, <2>0 DEF NoIncident, Incident, Handler, Leaves, Status
  <2>2. Write(h, row, pc) /\ r.pc = "write" /\ r.op = "create" /\ pc \in {"link", "timeline"}
    BY <1>2 DEF InsertIncident
  <2> HIDE DEF row, pc
  <2> QED
    BY <2>1, <2>2, WriteStory DEF TellsStatus
<1>3. CASE WriteSeverity(h)
  <2> DEFINE row == [old EXCEPT !.severity = r.severity]
  <2>1. row \in Incident /\ row.status = old.status
    BY <1>1 DEF Incident, Handler
  <2>2. Write(h, row, "timeline") /\ r.pc = "write" /\ ~TellsStatus(r.op)
    BY <1>3 DEF WriteSeverity, TellsStatus, Lifecycle
  <2> HIDE DEF row
  <2> QED
    BY <2>1, <2>2, WriteStory
<1>4. CASE WriteCommander(h)
  <2> DEFINE row == [old EXCEPT !.commander = r.user]
  <2>1. row \in Incident /\ row.status = old.status
    BY <1>1 DEF Incident, Handler
  <2>2. Write(h, row, "timeline") /\ r.pc = "write" /\ ~TellsStatus(r.op)
    BY <1>4 DEF WriteCommander, TellsStatus, Lifecycle
  <2> HIDE DEF row
  <2> QED
    BY <2>1, <2>2, WriteStory
<1>5. CASE WriteStatus(h)
  <2> DEFINE row == TransitionStatus(old, Target[r.op])
  <2>1. Write(h, row, "timeline") /\ r.pc = "write" /\ r.op \in Lifecycle
    BY <1>5 DEF WriteStatus
  <2>2. row \in Incident /\ row.status = Target[r.op]
    BY <2>1, <1>1, TargetType, TransitionStatusFacts
  <2>3. row.status \in Leaves(r.op) /\ TellsStatus(r.op)
    BY <2>1, <2>2 DEF Leaves, Lifecycle, TellsStatus
  <2> HIDE DEF row
  <2> QED
    BY <2>1, <2>2, <2>3, WriteStory
<1> QED
  BY <1>2, <1>3, <1>4, <1>5

\* The gate, the alerts, the two entries and the end: what was to tell is told
\* in order, or the incident is disturbed.
LEMMA TailStory ==
    ASSUME IInv, NEW h \in Handlers, NEW i \in Incidents \ disturbed', Story(i),
           \/ CheckRcaGate(h) \/ RefuseAtRcaGate(h) \/ LinkAlerts(h)
           \/ AppendTimeline(h) \/ RecordAudit(h) \/ Abort(h)
    PROVE  Story(i)'
<1> DEFINE r == handler[h]
<1> USE DEF rows, logs
<1>1. /\ r \in Handler /\ InFlight(h) /\ r.pc # "idle" /\ r.op \in Ops
      /\ r.incident \in Incidents /\ incidents' = incidents
      /\ Idle.incident = Null /\ Null # i
  BY IncidentsAssumption DEF IInv, TypeOK, InFlight, Idle, CheckRcaGate, RefuseAtRcaGate,
     LinkAlerts, AppendTimeline, RecordAudit, Abort
<1>2. /\ \A k \in Handlers \ {h} : handler'[k] = handler[k]
      /\ handler'[h] = Idle \/ (handler'[h].incident = r.incident /\ handler'[h].op = r.op)
  BY <1>1 DEF IInv, TypeOK, Handler, CheckRcaGate, RefuseAtRcaGate, LinkAlerts,
     AppendTimeline, RecordAudit, Abort
<1>3. CASE r.incident # i
  <2>1. timeline'[i] = timeline[i] /\ audit'[i] = audit[i]
    BY <1>1, <1>3 DEF IInv, TypeOK, CheckRcaGate, RefuseAtRcaGate, LinkAlerts,
       AppendTimeline, RecordAudit, Abort
  <2> QED
    BY <1>1, <1>2, <1>3, <2>1, OtherStory
<1>4. CASE r.incident = i
  <2>1. StillToTell(r, i) /\ \A k \in InFlightOn(i) : k = h
    BY <1>4 DEF Story, InFlightOn
  <2>a. timeline' = timeline /\ audit' = audit => (StoryAgrees(i)' <=> StoryAgrees(i))
    BY <1>1 DEF StoryAgrees
  <2>2. CASE CheckRcaGate(h)
    <3>1. r.op = "close" /\ r.pc = "gate" /\ handler'[h].pc = "write"
          /\ handler'[h].op = "close" /\ handler'[h].incident = i
      BY <1>1, <1>4, <2>2 DEF InFlight, CheckRcaGate, IInv, TypeOK, Handler
    <3>2. StoryAgrees(i)'
      BY <2>1, <2>a, <2>2, <3>1 DEF StillToTell, Tells, CheckRcaGate
    <3>3. StillToTell(handler[h], i)'
      BY <3>1, <3>2 DEF StillToTell, Tells
    <3> QED
      BY <1>2, <2>1, <3>1, <3>3, OwnStory
  <2>3. CASE RefuseAtRcaGate(h)
    <3>1. r.op = "close" /\ r.pc = "gate" /\ handler'[h].incident = Null
      BY <1>1, <2>3 DEF InFlight, RefuseAtRcaGate, IInv, TypeOK
    <3>2. StoryAgrees(i)'
      BY <2>1, <2>a, <2>3, <3>1 DEF StillToTell, Tells, RefuseAtRcaGate
    <3> QED
      BY <1>1, <1>2, <2>1, <3>1, <3>2, OwnStory
  <2>4. CASE LinkAlerts(h)
    <3>1. /\ r.pc = "link" /\ handler'[h].pc = "timeline"
          /\ handler'[h].op = r.op /\ handler'[h].incident = i
      BY <1>1, <1>4, <2>4 DEF LinkAlerts, IInv, TypeOK, Handler
    <3>2. StillToTell(handler[h], i)'
      BY <1>1, <2>1, <2>a, <2>4, <3>1 DEF StillToTell, Tells, LinkAlerts
    <3> QED
      BY <1>2, <2>1, <3>1, <3>2, OwnStory
  <2>5. CASE AppendTimeline(h)
    <3>1. /\ r.pc = "timeline" /\ handler'[h].pc = "audit"
          /\ handler'[h].op = r.op /\ handler'[h].incident = i
          /\ audit' = audit
      BY <1>1, <1>4, <2>5 DEF AppendTimeline, IInv, TypeOK, Handler
    <3>2. CASE TellsStatus(r.op)
      <4>1. timeline'[i] = r.op
        BY <1>1, <1>4, <2>5, <3>2 DEF AppendTimeline, IInv, TypeOK
      <4>2. StillToTell(handler[h], i)'
        BY <1>1, <2>1, <3>1, <3>2, <4>1 DEF StillToTell, Tells
      <4> QED
        BY <1>2, <2>1, <3>1, <4>2, OwnStory
    <3>3. CASE ~TellsStatus(r.op)
      <4>1. timeline' = timeline
        BY <2>5, <3>3 DEF AppendTimeline
      <4>2. StoryAgrees(i)'
        BY <2>1, <2>a, <3>1, <3>3, <4>1 DEF StillToTell, Tells
      <4>3. StillToTell(handler[h], i)'
        BY <3>1, <3>3, <4>2 DEF StillToTell, Tells
      <4> QED
        BY <1>2, <2>1, <3>1, <4>3, OwnStory
    <3> QED
      BY <3>2, <3>3
  <2>6. CASE RecordAudit(h)
    <3>1. r.pc = "audit" /\ timeline' = timeline /\ handler'[h].incident = Null
      BY <1>1, <2>6 DEF RecordAudit, IInv, TypeOK
    <3>2. StoryAgrees(i)'
      <4>1. CASE TellsStatus(r.op)
        <5>1. audit'[i] = r.op /\ timeline[i] = r.op /\ incidents[i].status \in Leaves(r.op)
          BY <1>1, <1>4, <2>1, <2>6, <3>1, <4>1 DEF RecordAudit, StillToTell, Tells, IInv, TypeOK
        <5>2. r.op # Null
          BY <1>1, NoOpIsNull
        <5> QED
          BY <1>1, <3>1, <5>1, <5>2 DEF StoryAgrees
      <4>2. CASE ~TellsStatus(r.op)
        <5>1. audit' = audit
          BY <2>6, <4>2 DEF RecordAudit
        <5>2. StoryAgrees(i)
          BY <2>1, <3>1, <4>2 DEF StillToTell, Tells
        <5> QED
          BY <2>a, <3>1, <5>1, <5>2
      <4> QED
        BY <4>1, <4>2
    <3> QED
      BY <1>1, <1>2, <2>1, <3>1, <3>2, OwnStory
  <2>7. CASE Abort(h)
    BY <1>4, <2>7 DEF Abort
  <2> QED
    BY <2>2, <2>3, <2>4, <2>5, <2>6, <2>7
<1> QED
  BY <1>3, <1>4

\* "One chronological narrative" (incidents.service.ts:273): once no request is
\* under way the row, the timeline and the audit log agree, as long as requests
\* never overlapped on the incident and none was cut off.
THEOREM QuietStoriesAgreeHolds == Spec => []QuietStoriesAgree
<1> DEFINE Stories == \A i \in Incidents \ disturbed : Story(i)
<1>1. Init => Stories
  <2>1. ASSUME Init, NEW i \in Incidents PROVE InFlightOn(i) = {} /\ ~Exists(i)
    BY <2>1, IncidentsAssumption DEF Init, Idle, NoIncident, InFlightOn, Exists
  <2> QED
    BY <2>1 DEF Story
<1>2. IInv /\ Stories /\ [Next]_vars => Stories'
  <2> SUFFICES ASSUME IInv, Stories, [Next]_vars, NEW i \in Incidents \ disturbed'
               PROVE  Story(i)'
    OBVIOUS
  <2>1. disturbed \subseteq disturbed'
    <3>1. ASSUME NEW h \in Handlers, NEW j \in Incidents, BeginRequest(h, j)
          PROVE  disturbed \subseteq disturbed'
      <4>1. \E r : Begin(h, r)
        BY <3>1 DEF BeginRequest, Create, ReclassifySeverity, Assign, Acknowledge, Mitigate,
           Resolve, Reopen, Close, BeginTransition
      <4> QED
        BY <4>1 DEF Begin
    <3>2. ASSUME NEW h \in Handlers, ContinueRequest(h) \/ Abort(h)
          PROVE  disturbed \subseteq disturbed'
      <4>1. ASSUME NEW row, NEW pc, Write(h, row, pc) PROVE disturbed' = disturbed
        BY <4>1 DEF Write
      <4>2. CASE InsertIncident(h) \/ WriteSeverity(h) \/ WriteCommander(h) \/ WriteStatus(h)
        BY <4>1, <4>2 DEF InsertIncident, WriteSeverity, WriteCommander, WriteStatus
      <4>3. CASE \/ CheckRcaGate(h) \/ RefuseAtRcaGate(h) \/ LinkAlerts(h)
                 \/ AppendTimeline(h) \/ RecordAudit(h)
        BY <4>3 DEF CheckRcaGate, RefuseAtRcaGate, LinkAlerts, AppendTimeline, RecordAudit
      <4>4. CASE Abort(h)
        BY <4>4 DEF Abort
      <4> QED
        BY <3>2, <4>2, <4>3, <4>4 DEF ContinueRequest
    <3>3. CASE (Tick \/ \E j \in Incidents : ApproveRca(j) \/ WithdrawRca(j)) \/ UNCHANGED vars
      BY <3>3 DEF Tick, ApproveRca, WithdrawRca, vars
    <3> QED
      BY <3>1, <3>2, <3>3 DEF Next
  <2>2. Story(i)
    BY <2>1
  <2>3. ASSUME NEW h \in Handlers, NEW j \in Incidents, BeginRequest(h, j) PROVE Story(i)'
    BY <2>2, <2>3, BeginRequestStory
  <2>4. ASSUME NEW h \in Handlers, ContinueRequest(h) \/ Abort(h) PROVE Story(i)'
    BY <2>2, <2>4, WritesStory, TailStory DEF ContinueRequest
  <2>5. CASE (Tick \/ \E j \in Incidents : ApproveRca(j) \/ WithdrawRca(j)) \/ UNCHANGED vars
    <3>1. UNCHANGED <<incidents, handler, timeline, audit>>
      BY <2>5 DEF Tick, ApproveRca, WithdrawRca, vars, rows, logs
    <3> QED
      BY <2>2, <3>1, OtherStory
  <2> QED
    BY <2>3, <2>4, <2>5 DEF Next
<1>3. Stories => QuietStoriesAgree
  BY DEF Story, StoryAgrees, QuietStoriesAgree
<1> QED
  BY Invariance, <1>1, <1>2, <1>3, PTL DEF Spec

-----------------------------------------------------------------------------
(* Escalation.  The sweeps write into the rows of Incidents, so its        *)
(* inductive invariant is part of this one: it says that only rows that    *)
(* exist are updated, and so openedAt, which a sweep's decision hangs on,  *)
(* is never set twice.  To it come what a sweep may rely on (SweepKnows),  *)
(* true however old its snapshot is or only while nobody wrote the row     *)
(* since, and what has been paged so far (PagedSoFar).                     *)

\* Rows, and requests that write one, name severities of the policy.
SeverityKnown ==
    /\ \A i \in Incidents : Exists(i) => incidents[i].severity \in Severity
    /\ \A h \in Handlers :
         handler[h].pc = "write" /\ handler[h].op \in {"create", "reclassify"} =>
           handler[h].severity \in Severity

SweepsTyped ==
    /\ sweep \in [Sweepers -> Sweep]
    /\ pages \in [Incidents -> [1 .. MaxChain -> 0 .. 2]]

\* Time at is past the acknowledgement SLA of some severity.
PastSomeSla(at, row) == \E s \in Severity : at > row.openedAt + SeverityLevels[s].ackSla

\* NeverPagedWithinAckSla of one row.
Paced(row) ==
    /\ row.escalationLevel <= MaxChain
    /\ row.escalationLevel > 0 <=> row.lastEscalatedAt # Null
    /\ row.escalationLevel > 0 =>
         row.status # "NONE" /\ PastSomeSla(row.lastEscalatedAt, row)

SweepKnows(s) ==
    LET w == sweep[s] IN
    /\ \A d \in w.todo :
         /\ Exists(d.incident) /\ PastSomeSla(w.at, incidents[d.incident])
         /\ <<s, d.incident>> \notin sweepStale =>
              /\ ShouldEscalate(incidents[d.incident], w.at)
              /\ d.toLevel = incidents[d.incident].escalationLevel + 1
    /\ \A c, d \in w.todo : c.incident = d.incident => c = d
    /\ w.cur # NoStep => Exists(w.cur.incident)
    /\ w.pc \in {"timeline", "notify"} <=> w.cur # NoStep

PagedSoFar(i) ==
    i \notin sweepDisturbed =>
      /\ \A l \in 1 .. MaxChain :
           pages[i][l] = IF /\ l <= incidents[i].escalationLevel
                            /\ \A s \in Paging(i) : sweep[s].cur.toLevel # l
                         THEN 1 ELSE 0
      /\ \A s, t \in Paging(i) : sweep[s].cur.toLevel = sweep[t].cur.toLevel => s = t
      /\ \A s \in Paging(i) : sweep[s].cur.toLevel <= incidents[i].escalationLevel

EInv ==
    /\ IInv /\ SeverityKnown /\ SweepsTyped
    /\ \A i \in Incidents : Paced(incidents[i])
    /\ \A s \in Sweepers : SweepKnows(s)
    /\ \A i \in Incidents : PagedSoFar(i)

-----------------------------------------------------------------------------

LEMMA PolicyFacts ==
    ASSUME NEW s \in Severity
    PROVE  SeverityLevels[s].ackSla \in Nat /\ SeverityLevels[s].escalateAfter \in Nat
           /\ SeverityLevels[s].chain \in 1 .. MaxChain
  BY DEF Severity, SeverityLevels, MaxChain

LEMMA SweepValues ==
    /\ Resting \in Sweep /\ Resting.pc = "idle" /\ Resting.todo = {} /\ Resting.cur = NoStep
    /\ NoPages \in [1 .. MaxChain -> 0 .. 2]
    /\ NoStep \notin Step /\ NoStep.incident \notin Incidents
    /\ \A d \in Step : d.incident \in Incidents /\ d.toLevel \in 1 .. MaxChain
  BY IncidentsAssumption DEF Resting, Sweep, NoStep, NoPages, Step, MaxChain

LEMMA EscalationInitInv == EscalationInit => EInv
<1> SUFFICES ASSUME EscalationInit PROVE EInv
  OBVIOUS
<1>1. IInv
  BY InitInv DEF EscalationInit
<1>2. \A i \in Incidents : incidents[i] = NoIncident
  BY DEF EscalationInit, Init
<1>3. SeverityKnown
  BY <1>2 DEF SeverityKnown, EscalationInit, Init, Idle, Exists, NoIncident
<1>4. SweepsTyped
  BY SweepValues DEF SweepsTyped, EscalationInit
<1>5. \A i \in Incidents : Paced(incidents[i])
  BY <1>2 DEF Paced, NoIncident, MaxChain
<1>6. \A s \in Sweepers : SweepKnows(s)
  BY SweepValues DEF EscalationInit, SweepKnows
<1>7. \A i \in Incidents : PagedSoFar(i)
  <2> SUFFICES ASSUME NEW i \in Incidents PROVE PagedSoFar(i)
    OBVIOUS
  <2>1. Paging(i) = {}
    BY SweepValues DEF Paging, EscalationInit
  <2>2. incidents[i].escalationLevel = 0 /\ pages[i] = NoPages
    BY <1>2 DEF NoIncident, EscalationInit
  <2>3. QED
    BY <2>1, <2>2 DEF PagedSoFar, NoPages, MaxChain
<1>8. QED
  BY <1>1, <1>3, <1>4, <1>5, <1>6, <1>7 DEF EInv

-----------------------------------------------------------------------------
(* The steps of module Incidents.                                          *)

\* What a step of a request does to a row: nothing, a reopening that takes the
\* escalation back, a change of something else, or its first INSERT.
LEMMA RowSteps ==
    ASSUME IInv, SeverityKnown, Next, NEW i \in Incidents
    PROVE  LET old == incidents[i]
               new == incidents'[i]
           IN
           /\ Reopened(i) =>
                /\ Exists(i) /\ new.status # "NONE" /\ new.openedAt = old.openedAt
                /\ new.severity = old.severity
                /\ new.escalationLevel = 0 /\ new.lastEscalatedAt = Null
           /\ ~Reopened(i) =>
                \/ new = old
                \/ /\ Exists(i) /\ new.status # "NONE" /\ new.openedAt = old.openedAt
                   /\ new.escalationLevel = old.escalationLevel
                   /\ new.lastEscalatedAt = old.lastEscalatedAt
                   /\ new.severity \in Severity
                \/ /\ ~Exists(i) /\ new.severity \in Severity
                   /\ new.escalationLevel = 0 /\ new.lastEscalatedAt = Null
<1>1. ASSUME NEW h \in Handlers, handler[h].incident = i, Writes(h), WriteStatus(h)
      PROVE  LET to == Target[handler[h].op] IN
             /\ to \in Status /\ (to = "OPEN" <=> handler[h].op = "reopen")
             /\ Exists(i) /\ incidents'[i].status # "NONE"
             /\ incidents'[i].openedAt = incidents[i].openedAt
             /\ incidents'[i].severity = incidents[i].severity
             /\ incidents'[i].escalationLevel = IF to = "OPEN" THEN 0 ELSE incidents[i].escalationLevel
             /\ incidents'[i].lastEscalatedAt = IF to = "OPEN" THEN Null ELSE incidents[i].lastEscalatedAt
  <2> DEFINE to == Target[handler[h].op]
  <2>1. /\ handler[h].pc = "write" /\ handler[h].op \in Lifecycle
        /\ incidents' = [incidents EXCEPT ![i] = TransitionStatus(incidents[i], to)]
    BY <1>1 DEF WriteStatus, Write
  <2>2. to \in Status /\ (to = "OPEN" <=> handler[h].op = "reopen")
    BY <2>1 DEF Lifecycle, Target, Status
  <2>3. Exists(i) /\ incidents[i] \in Incident
    BY <1>1, <2>1 DEF IInv, TypeOK, InFlight, Lifecycle
  <2>4. incidents'[i] = TransitionStatus(incidents[i], to)
    BY <2>1 DEF IInv, TypeOK
  <2> HIDE DEF to
  <2>5. /\ TransitionStatus(incidents[i], to).status = to
        /\ TransitionStatus(incidents[i], to).openedAt = incidents[i].openedAt
        /\ TransitionStatus(incidents[i], to).severity = incidents[i].severity
        /\ TransitionStatus(incidents[i], to).escalationLevel =
             IF to = "OPEN" THEN 0 ELSE incidents[i].escalationLevel
        /\ TransitionStatus(incidents[i], to).lastEscalatedAt =
             IF to = "OPEN" THEN Null ELSE incidents[i].lastEscalatedAt
    <3> DEFINE ack == (incidents[i].acknowledged \/ to = "ACKNOWLEDGED") /\ to # "OPEN"
               res == (incidents[i].resolved \/ to = "RESOLVED") /\ to # "OPEN"
               clo == (incidents[i].closed \/ to = "CLOSED") /\ to # "OPEN"
    <3>1. TransitionStatus(incidents[i], to) =
            [incidents[i] EXCEPT !.status = to, !.acknowledged = ack, !.resolved = res,
               !.closed = clo,
               !.escalationLevel = IF to = "OPEN" THEN 0 ELSE @,
               !.lastEscalatedAt = IF to = "OPEN" THEN Null ELSE @]
      BY Zenon DEF TransitionStatus
    <3> HIDE DEF ack, res, clo
    <3>2. QED
      BY <2>3, <3>1 DEF Incident
  <2>6. QED
    BY <2>2, <2>3, <2>4, <2>5 DEF to, Status
<1>2. ASSUME Reopened(i)
      PROVE  \E h \in Handlers : /\ handler[h].incident = i /\ Writes(h) /\ WriteStatus(h)
                                 /\ handler[h].op = "reopen"
  <2>1. PICK h \in Handlers : handler[h].incident = i /\ handler[h].op = "reopen" /\ Writes(h)
    BY <1>2 DEF Reopened, InFlightOn
  <2>2. handler'[h] # handler[h] /\ handler[h].pc = "write" /\ handler'[h].pc \notin {"write", "idle"}
    BY <2>1 DEF Writes
  <2>3. ASSUME NEW k \in Handlers, NEW j \in Incidents, BeginRequest(k, j) PROVE FALSE
    <3>1. PICK r : handler[k].pc = "idle" /\ handler' = [handler EXCEPT ![k] = r]
      BY <2>3 DEF BeginRequest, Create, ReclassifySeverity, Assign, BeginTransition,
         Acknowledge, Mitigate, Resolve, Reopen, Close, Begin
    <3>2. QED
      BY <2>2, <3>1 DEF IInv, TypeOK
  <2>4. ASSUME NEW k \in Handlers, Abort(k) \/ RefuseAtRcaGate(k) \/ RecordAudit(k) PROVE FALSE
    BY <2>2, <2>4 DEF Abort, RefuseAtRcaGate, RecordAudit, Idle, IInv, TypeOK
  <2>5. ASSUME NEW k \in Handlers, CheckRcaGate(k) \/ LinkAlerts(k) \/ AppendTimeline(k) PROVE FALSE
    BY <2>2, <2>5 DEF CheckRcaGate, LinkAlerts, AppendTimeline, IInv, TypeOK
  <2>6. ASSUME NEW k \in Handlers, InsertIncident(k) \/ WriteSeverity(k) \/ WriteCommander(k)
        PROVE  FALSE
    <3>1. handler[k].op # "reopen" /\ \E pc : handler' = [handler EXCEPT ![k].pc = pc]
      BY <2>6 DEF InsertIncident, WriteSeverity, WriteCommander, Write
    <3>2. QED
      BY <2>1, <2>2, <3>1 DEF IInv, TypeOK
  <2>7. PICK k \in Handlers : WriteStatus(k)
    BY <2>2, <2>3, <2>4, <2>5, <2>6 DEF Next, ContinueRequest, Tick, ApproveRca, WithdrawRca
  <2>8. k = h
    BY <2>2, <2>7 DEF WriteStatus, Write, IInv, TypeOK
  <2>9. QED
    BY <2>1, <2>7, <2>8
<1>3. CASE Reopened(i)
  BY <1>1, <1>2, <1>3
<1>4. CASE ~Reopened(i) /\ incidents'[i] # incidents[i]
  <2>1. PICK h \in Handlers :
          /\ handler[h].incident = i /\ Writes(h)
          /\ InsertIncident(h) \/ WriteSeverity(h) \/ WriteCommander(h) \/ WriteStatus(h)
    BY <1>4, RowChange
  <2>2. /\ incidents[i] \in Incident /\ handler[h] \in Handler /\ InFlight(h)
        /\ handler[h].op # "reopen"
    BY <1>4, <2>1 DEF IInv, TypeOK, Reopened, InFlightOn
  <2>3. CASE WriteStatus(h)
    BY <1>1, <1>4, <2>1, <2>2, <2>3 DEF SeverityKnown
  <2>4. CASE InsertIncident(h)
    <3> DEFINE owned == handler[h].user # Null
               st == IF owned THEN "ACKNOWLEDGED" ELSE "OPEN"
    <3>1. incidents'[i] = [NoIncident EXCEPT !.status = st,
                                             !.severity = handler[h].severity,
                                             !.commander = handler[h].user,
                                             !.acknowledged = owned,
                                             !.openedAt = now]
      BY <2>1, <2>4 DEF InsertIncident, Write, IInv, TypeOK
    <3>2. ~Exists(i) /\ handler[h].severity \in Severity
      BY <2>1, <2>2, <2>4 DEF InFlight, InsertIncident, SeverityKnown
    <3> HIDE DEF st, owned
    <3>3. QED
      BY <1>4, <3>1, <3>2 DEF NoIncident
  <2>5. CASE WriteSeverity(h) \/ WriteCommander(h)
    <3>1. \/ /\ incidents'[i] = [incidents[i] EXCEPT !.severity = handler[h].severity]
             /\ handler[h].severity \in Severity
          \/ incidents'[i] = [incidents[i] EXCEPT !.commander = handler[h].user]
      BY <2>1, <2>5 DEF WriteSeverity, WriteCommander, Write, IInv, TypeOK, SeverityKnown
    <3>2. Exists(i)
      BY <2>1, <2>2, <2>5 DEF InFlight, WriteSeverity, WriteCommander
    <3>3. incidents[i].severity \in Severity
      BY <3>2 DEF SeverityKnown
    <3>4. QED
      BY <1>4, <2>2, <3>1, <3>2, <3>3 DEF Incident, Exists
  <2>6. QED
    BY <2>1, <2>3, <2>4, <2>5
<1>5. QED
  BY <1>3, <1>4

LEMMA SeverityStep ==
    ASSUME IInv, SeverityKnown, Next
    PROVE  SeverityKnown'
<1>1. ASSUME NEW i \in Incidents, Exists(i)' PROVE incidents'[i].severity \in Severity
  BY <1>1, RowSteps DEF SeverityKnown, Exists
<1>2. ASSUME NEW h \in Handlers, handler'[h].pc = "write",
             handler'[h].op \in {"create", "reclassify"}
      PROVE  handler'[h].severity \in Severity
  <2>1. TypeOK /\ DOMAIN handler = Handlers /\ \A k \in Handlers : InFlight(k)
    BY DEF IInv, TypeOK
  <2>2. CASE handler'[h] = handler[h]
    BY <1>2, <2>2 DEF SeverityKnown
  <2>3. ASSUME NEW k \in Handlers, NEW i \in Incidents, BeginRequest(k, i), k = h
        PROVE  handler'[h].severity \in Severity
    <3>1. ASSUME NEW x \in Severities, NEW actor \in Users, NEW c \in Users \cup {Null},
                 NEW al \in SUBSET Alerts, Create(k, i, x, actor, c, al)
          PROVE  handler'[h].severity \in Severity
      BY <2>1, <2>3, <3>1, IncidentsAssumption DEF Create, Begin
    <3>2. ASSUME NEW x \in Severities, ReclassifySeverity(k, i, x)
          PROVE  handler'[h].severity \in Severity
      BY <2>1, <2>3, <3>2, IncidentsAssumption DEF ReclassifySeverity, Begin, Idle
    <3>3. ASSUME NEW actor \in Users, NEW c \in Users, Assign(k, i, actor, c) PROVE FALSE
      BY <1>2, <2>1, <2>3, <3>3 DEF Assign, Begin, Idle
    <3>4. ASSUME NEW op \in Lifecycle, NEW pc, BeginTransition(k, i, op, pc) PROVE FALSE
      BY <1>2, <2>1, <2>3, <3>4 DEF BeginTransition, Begin, Idle, Lifecycle
    <3>5. QED
      BY <2>3, <3>1, <3>2, <3>3, <3>4 DEF BeginRequest, Acknowledge, Mitigate, Resolve, Reopen,
         Close, Lifecycle
  <2>4. ASSUME NEW k \in Handlers, CheckRcaGate(k), k = h PROVE FALSE
    BY <1>2, <2>1, <2>4 DEF CheckRcaGate, InFlight, TypeOK, Handler
  <2>5. ASSUME NEW k \in Handlers,
               \/ RefuseAtRcaGate(k) \/ InsertIncident(k) \/ LinkAlerts(k) \/ WriteSeverity(k)
               \/ WriteCommander(k) \/ WriteStatus(k) \/ AppendTimeline(k) \/ RecordAudit(k)
               \/ Abort(k),
               k = h
        PROVE  FALSE
    <3>1. \E pc : pc # "write" /\ (handler' = [handler EXCEPT ![k].pc = pc] \/
                                   handler' = [handler EXCEPT ![k] = Idle])
      BY <2>5 DEF RefuseAtRcaGate, InsertIncident, LinkAlerts, WriteSeverity, WriteCommander,
         WriteStatus, AppendTimeline, RecordAudit, Abort, Write
    <3>2. QED
      BY <1>2, <2>1, <2>5, <3>1 DEF Idle, TypeOK, Handler
  <2>6. ASSUME NEW k \in Handlers, k # h,
               ContinueRequest(k) \/ Abort(k) \/ \E i \in Incidents : BeginRequest(k, i)
        PROVE  handler'[h] = handler[h]
    <3>1. ASSUME NEW i \in Incidents, BeginRequest(k, i) PROVE handler'[h] = handler[h]
      <4>1. \E r : handler' = [handler EXCEPT ![k] = r]
        BY <3>1 DEF BeginRequest, Create, ReclassifySeverity, Assign, BeginTransition,
           Acknowledge, Mitigate, Resolve, Reopen, Close, Begin
      <4>2. QED
        BY <2>1, <2>6, <4>1
    <3>2. ASSUME ContinueRequest(k) \/ Abort(k) PROVE handler'[h] = handler[h]
      <4>1. \E r : handler' = [handler EXCEPT ![k] = r]
        BY <3>2 DEF ContinueRequest, CheckRcaGate, RefuseAtRcaGate, InsertIncident, LinkAlerts,
           WriteSeverity, WriteCommander, WriteStatus, AppendTimeline, RecordAudit, Abort, Write
      <4>2. QED
        BY <2>1, <2>6, <4>1
    <3>3. QED
      BY <2>6, <3>1, <3>2
  <2>7. (Tick \/ \E i \in Incidents : ApproveRca(i) \/ WithdrawRca(i)) => handler' = handler
    BY DEF Tick, ApproveRca, WithdrawRca
  <2>8. QED
    BY <2>2, <2>3, <2>4, <2>5, <2>6, <2>7 DEF Next, ContinueRequest
<1>3. QED
  BY <1>1, <1>2 DEF SeverityKnown

\* Requests keep the invariant: those that write a row make its readers stale.
LEMMA LifecycleInv ==
    ASSUME EInv, LifecycleStep
    PROVE  EInv'
<1>1. IInv /\ SeverityKnown /\ Next /\ SweepsTyped /\ UNCHANGED sweep /\ TypeOK
  BY DEF EInv, LifecycleStep, IInv
<1>2. IInv' /\ SeverityKnown'
  BY <1>1, NextInv, SeverityStep
<1>3. SweepsTyped'
  BY <1>1, SweepValues DEF SweepsTyped, LifecycleStep
<1>4. ASSUME NEW i \in Incidents PROVE Paced(incidents'[i])
  <2>1. incidents[i] \in Incident /\ Paced(incidents[i])
    BY <1>1 DEF EInv, TypeOK
  <2>2. MaxChain \in Nat
    BY DEF MaxChain
  <2>3. CASE Reopened(i)
    BY <1>1, <2>2, <2>3, RowSteps DEF Paced
  <2>4. CASE ~Reopened(i)
    BY <1>1, <2>1, <2>2, <2>4, RowSteps DEF Paced, PastSomeSla, Exists
  <2>5. QED
    BY <2>3, <2>4
<1>5. ASSUME NEW s \in Sweepers PROVE SweepKnows(s)'
  <2>1. SweepKnows(s) /\ sweep'[s] = sweep[s] /\ sweep[s] \in Sweep
    BY <1>1 DEF EInv, SweepsTyped
  <2>2. ASSUME NEW i \in Incidents, Exists(i)
        PROVE  Exists(i)' /\ incidents'[i].openedAt = incidents[i].openedAt
    BY <1>1, <2>2, RowSteps DEF Exists
  <2>3. ASSUME NEW d \in sweep[s].todo
        PROVE  /\ Exists(d.incident)' /\ PastSomeSla(sweep[s].at, incidents'[d.incident])
               /\ <<s, d.incident>> \notin sweepStale' =>
                    /\ ShouldEscalate(incidents'[d.incident], sweep[s].at)
                    /\ d.toLevel = incidents'[d.incident].escalationLevel + 1
    <3>1. d.incident \in Incidents
      BY <2>1, SweepValues DEF Sweep
    <3>2. Exists(d.incident) /\ PastSomeSla(sweep[s].at, incidents[d.incident])
      BY <2>1 DEF SweepKnows
    <3>3. ASSUME <<s, d.incident>> \notin sweepStale'
          PROVE  incidents'[d.incident] = incidents[d.incident] /\ <<s, d.incident>> \notin sweepStale
      BY <3>1, <3>3 DEF LifecycleStep, Holding
    <3>4. QED
      BY <2>1, <2>2, <3>1, <3>2, <3>3 DEF SweepKnows, PastSomeSla
  <2>4. sweep[s].cur # NoStep => Exists(sweep[s].cur.incident)'
    BY <2>1, <2>2, SweepValues DEF SweepKnows, Sweep
  <2>5. QED
    BY <2>1, <2>3, <2>4 DEF SweepKnows
<1>6. ASSUME NEW i \in Incidents, i \notin sweepDisturbed' PROVE PagedSoFar(i)'
  <2>1. PagedSoFar(i) /\ i \notin sweepDisturbed /\ Paging(i)' = Paging(i)
    BY <1>1, <1>6 DEF EInv, LifecycleStep, Paging
  <2>2. CASE Reopened(i)
    <3>1. Paging(i) = {} /\ pages'[i] = NoPages
      BY <1>6, <2>2 DEF LifecycleStep
    <3>2. incidents'[i].escalationLevel = 0
      BY <1>1, <2>2, RowSteps
    <3>3. QED
      BY <2>1, <3>1, <3>2 DEF PagedSoFar, NoPages, MaxChain
  <2>3. CASE ~Reopened(i)
    <3>1. pages'[i] = pages[i]
      BY <2>3 DEF LifecycleStep
    <3>2. incidents[i].status = "NONE" => incidents[i].escalationLevel = 0
      BY <1>1 DEF EInv, Paced, TypeOK, Incident
    <3>3. incidents'[i].escalationLevel = incidents[i].escalationLevel
      BY <1>1, <2>3, <3>2, RowSteps DEF Exists
    <3>4. QED
      BY <1>1, <2>1, <3>1, <3>3 DEF PagedSoFar
  <2>4. QED
    BY <2>2, <2>3
<1>7. QED
  BY <1>2, <1>3, <1>4, <1>5, <1>6 DEF EInv, PagedSoFar

-----------------------------------------------------------------------------
(* The steps of a sweep that write no incident.                            *)

LEMMA SweepOnly ==
    ASSUME EInv, UNCHANGED vars, SweepsTyped', \A s \in Sweepers : SweepKnows(s)',
           \A i \in Incidents : PagedSoFar(i)'
    PROVE  EInv'
<1>1. IInv'
  BY NextInv DEF EInv
<1>2. SeverityKnown' /\ \A i \in Incidents : Paced(incidents'[i])
  BY DEF EInv, SeverityKnown, Exists, vars
<1>3. QED
  BY <1>1, <1>2 DEF EInv

\* A sweep that does nothing knows what it knew.
LEMMA KnowsKept ==
    ASSUME NEW s \in Sweepers, SweepKnows(s), sweep'[s] = sweep[s], UNCHANGED incidents,
           \A i \in Incidents : <<s, i>> \in sweepStale => <<s, i>> \in sweepStale',
           sweep[s] \in Sweep
    PROVE  SweepKnows(s)'
<1>1. \A d \in sweep[s].todo : d.incident \in Incidents
  BY SweepValues DEF Sweep
<1>2. QED
  BY <1>1 DEF SweepKnows, Exists

\* What was paged stays as it was when every sweep pages what it paged.
LEMMA PagedKept ==
    ASSUME NEW i \in Incidents, PagedSoFar(i), Paging(i)' = Paging(i),
           \A s \in Paging(i) : sweep'[s].cur = sweep[s].cur,
           UNCHANGED <<incidents, pages>>, sweepDisturbed \subseteq sweepDisturbed'
    PROVE  PagedSoFar(i)'
  BY DEF PagedSoFar

\* A step of sweep s that keeps its todo and its cur apart, or empties them.
LEMMA ReadingStepInv ==
    ASSUME EInv, NEW s \in Sweepers,
           \/ StartSweep(s) \/ ReadCandidates(s) \/ AppendEscalated(s) \/ AuditEscalation(s)
    PROVE  EInv'
<1>1. /\ SweepsTyped /\ SweepKnows(s) /\ sweep[s] \in Sweep /\ TypeOK /\ DOMAIN sweep = Sweepers
      /\ UNCHANGED <<vars, pages, sweepDisturbed>>
      /\ now \in Nat
  BY DEF EInv, SweepsTyped, IInv, TypeOK, StartSweep, ReadCandidates, AppendEscalated,
     AuditEscalation
<1>2. PICK w \in Sweep :
        /\ sweep' = [sweep EXCEPT ![s] = w]
        /\ w.cur = sweep[s].cur
        /\ SweepKnows(s)'
        /\ \A t \in Sweepers, i \in Incidents :
             t # s /\ <<t, i>> \in sweepStale => <<t, i>> \in sweepStale'
  <2>1. CASE StartSweep(s)
    <3> DEFINE w == [Resting EXCEPT !.pc = "read", !.at = now]
    <3>1. w \in Sweep /\ w.pc = "read" /\ w.todo = {} /\ w.cur = NoStep
      BY <1>1 DEF Resting, Sweep
    <3>2. sweep' = [sweep EXCEPT ![s] = w] /\ sweepStale' = sweepStale /\ sweep[s].pc = "idle"
      BY <2>1 DEF StartSweep
    <3> HIDE DEF w
    <3>3. sweep[s].cur = NoStep
      BY <1>1, <3>2 DEF SweepKnows
    <3>4. SweepKnows(s)'
      BY <1>1, <3>1, <3>2 DEF SweepKnows
    <3>5. QED
      BY <3>1, <3>2, <3>3, <3>4
  <2>2. CASE ReadCandidates(s)
    <3> DEFINE due == {i \in Incidents : ShouldEscalate(incidents[i], sweep[s].at)}
               todo == {[incident |-> i, toLevel |-> incidents[i].escalationLevel + 1] : i \in due}
               w == IF due = {} THEN Resting ELSE [sweep[s] EXCEPT !.pc = "walk", !.todo = todo]
    <3>1. /\ sweep[s].pc = "read" /\ sweep' = [sweep EXCEPT ![s] = w]
          /\ sweepStale' = sweepStale \ ({s} \X Incidents)
      BY <2>2 DEF ReadCandidates
    <3>2. ASSUME NEW i \in due
          PROVE  /\ [incident |-> i, toLevel |-> incidents[i].escalationLevel + 1] \in Step
                 /\ Exists(i) /\ PastSomeSla(sweep[s].at, incidents[i])
      <4>1. i \in Incidents /\ ShouldEscalate(incidents[i], sweep[s].at) /\ incidents[i] \in Incident
        BY <1>1 DEF TypeOK
      <4>2. Exists(i)
        BY <4>1 DEF ShouldEscalate, Terminal, Exists
      <4>3. incidents[i].severity \in Severity
        BY <4>1, <4>2 DEF EInv, SeverityKnown
      <4>4. incidents[i].escalationLevel < Policy(incidents[i]).chain
        BY <4>1, <4>3, PolicyFacts DEF ShouldEscalate, ChainExhausted, Policy, Incident
      <4>5. incidents[i].escalationLevel + 1 \in 1 .. MaxChain
        BY <4>1, <4>3, <4>4, PolicyFacts DEF Policy, Incident, MaxChain
      <4>6. QED
        BY <4>1, <4>2, <4>3, <4>5 DEF Step, ShouldEscalate, AckSlaBreached, Policy, PastSomeSla
    <3>3. todo \in SUBSET Step
      BY <3>2
    <3>4. \A d \in todo : /\ d.incident \in due
                          /\ d.toLevel = incidents[d.incident].escalationLevel + 1
      OBVIOUS
    <3>5. \A c, d \in todo : c.incident = d.incident => c = d
      OBVIOUS
    <3>6. sweep[s].cur = NoStep
      BY <1>1, <3>1 DEF SweepKnows
    <3> HIDE DEF todo
    <3>7. w \in Sweep /\ w.cur = NoStep /\ w.pc \in {"idle", "walk"} /\ w.at \in Nat
          /\ (w.todo = {} \/ (w.todo = todo /\ w.at = sweep[s].at))
      <4>1. CASE due = {}
        BY <4>1, SweepValues DEF Sweep
      <4>2. CASE due # {}
        BY <1>1, <3>3, <3>6, <4>2 DEF Sweep
      <4>3. QED
        BY <4>1, <4>2
    <3> HIDE DEF w
    <3>8. \A i \in due : Exists(i) /\ PastSomeSla(sweep[s].at, incidents[i])
                         /\ ShouldEscalate(incidents[i], sweep[s].at)
      BY <3>2
    <3> HIDE DEF due
    <3>9. incidents' = incidents /\ sweep'[s] = w
      BY <1>1, <3>1 DEF vars
    <3>10. SweepKnows(s)'
      BY <3>4, <3>5, <3>7, <3>8, <3>9 DEF SweepKnows, Exists
    <3>11. QED
      BY <3>1, <3>6, <3>7, <3>10
  <2>3. CASE AppendEscalated(s)
    <3> DEFINE w == [sweep[s] EXCEPT !.pc = "notify"]
    <3>1. w \in Sweep /\ w.pc = "notify" /\ w.todo = sweep[s].todo /\ w.cur = sweep[s].cur
          /\ w.at = sweep[s].at
      BY <1>1 DEF Sweep
    <3>2. sweep' = [sweep EXCEPT ![s] = w] /\ sweepStale' = sweepStale /\ sweep[s].pc = "timeline"
      BY <2>3 DEF AppendEscalated
    <3> HIDE DEF w
    <3>3. sweep'[s] = w /\ incidents' = incidents
      BY <1>1, <3>2 DEF vars
    <3>4. SweepKnows(s)'
      BY <1>1, <3>1, <3>2, <3>3 DEF SweepKnows, Exists
    <3>5. QED
      BY <3>1, <3>2, <3>4
  <2>4. CASE AuditEscalation(s)
    <3> DEFINE w == IF sweep[s].todo = {} THEN Resting ELSE [sweep[s] EXCEPT !.pc = "walk"]
    <3>1. sweep' = [sweep EXCEPT ![s] = w] /\ sweepStale' = sweepStale /\ sweep[s].pc = "audit"
      BY <2>4 DEF AuditEscalation
    <3>2. sweep[s].cur = NoStep
      BY <1>1, <3>1 DEF SweepKnows
    <3>3. /\ w \in Sweep /\ w.cur = NoStep /\ w.pc \in {"idle", "walk"}
          /\ w.todo = sweep[s].todo /\ (w.todo = {} \/ w.at = sweep[s].at)
      <4>1. CASE sweep[s].todo = {}
        BY <4>1, SweepValues
      <4>2. CASE sweep[s].todo # {}
        BY <1>1, <3>2, <4>2 DEF Sweep
      <4>3. QED
        BY <4>1, <4>2
    <3> HIDE DEF w
    <3>4. sweep'[s] = w /\ incidents' = incidents
      BY <1>1, <3>1 DEF vars
    <3>5. SweepKnows(s)'
      BY <1>1, <3>1, <3>3, <3>4 DEF SweepKnows, Exists
    <3>6. QED
      BY <3>1, <3>2, <3>3, <3>5
  <2>5. QED
    BY <2>1, <2>2, <2>3, <2>4
<1>3. SweepsTyped'
  BY <1>1, <1>2 DEF SweepsTyped
<1>4. \A t \in Sweepers : SweepKnows(t)'
  BY <1>1, <1>2, KnowsKept DEF EInv, SweepsTyped, vars
<1>5. ASSUME NEW i \in Incidents PROVE PagedSoFar(i)'
  <2>1. \A t \in Sweepers : sweep'[t].cur = sweep[t].cur
    BY <1>1, <1>2
  <2>2. Paging(i)' = Paging(i)
    BY <2>1 DEF Paging
  <2>3. PagedSoFar(i) /\ \A t \in Paging(i) : t \in Sweepers
    BY DEF EInv, Paging
  <2>4. QED
    BY <1>1, <2>1, <2>2, <2>3, PagedKept DEF vars
<1>6. QED
  BY <1>1, <1>3, <1>4, <1>5, SweepOnly

-----------------------------------------------------------------------------
(* The steps of a sweep that write: an incident, a page, or the end.       *)

\* A write of level and time leaves alone what the requests rely on.
LEMMA LevelWriteInv ==
    ASSUME IInv, SeverityKnown, NEW i \in Incidents, NEW level \in Nat, NEW at \in Nat,
           incidents' = [incidents EXCEPT ![i].escalationLevel = level,
                                          ![i].lastEscalatedAt = at],
           UNCHANGED <<now, alertIncident, rcaApproved, handler, logs, stale, disturbed>>
    PROVE  /\ IInv' /\ SeverityKnown'
           /\ incidents'[i].escalationLevel = level /\ incidents'[i].lastEscalatedAt = at
           /\ \A j \in Incidents : /\ incidents'[j].status = incidents[j].status
                                   /\ incidents'[j].openedAt = incidents[j].openedAt
                                   /\ j # i => incidents'[j] = incidents[j]
<1>1. TypeOK /\ incidents[i] \in Incident
  BY DEF IInv, TypeOK
<1>2. incidents' = [incidents EXCEPT ![i] = [incidents[i] EXCEPT !.escalationLevel = level,
                                                                 !.lastEscalatedAt = at]]
  BY <1>1 DEF TypeOK, Incident
<1> DEFINE row == [incidents[i] EXCEPT !.escalationLevel = level, !.lastEscalatedAt = at]
<1>3. /\ row \in Incident /\ row.status = incidents[i].status
      /\ row.openedAt = incidents[i].openedAt /\ row.severity = incidents[i].severity
      /\ row.escalationLevel = level /\ row.lastEscalatedAt = at
      /\ (row.acknowledged <=> incidents[i].acknowledged)
      /\ (row.resolved <=> incidents[i].resolved) /\ (row.closed <=> incidents[i].closed)
  BY <1>1 DEF Incident
<1> HIDE DEF row
<1>4. incidents' = [incidents EXCEPT ![i] = row]
  BY <1>2 DEF row
<1>5. \A j \in Incidents : incidents'[j] = IF j = i THEN row ELSE incidents[j]
  BY <1>1, <1>4 DEF TypeOK
<1>6. TypeOK'
  BY ZenonT(40), <1>1, <1>3, <1>4 DEF TypeOK, InFlightOn, logs
<1>7. ASSUME NEW j \in Incidents PROVE Stamped(incidents'[j])
  <2>1. Stamped(incidents[i]) /\ Stamped(incidents[j])
    BY DEF IInv
  <2>2. Stamped(row)
    BY <1>3, <2>1 DEF Stamped
  <2>3. incidents'[j] = row \/ incidents'[j] = incidents[j]
    BY <1>5
  <2>4. QED
    BY <2>1, <2>2, <2>3
<1>8. ASSUME NEW j \in Incidents PROVE /\ incidents'[j].status = incidents[j].status
                                       /\ incidents'[j].severity = incidents[j].severity
                                       /\ incidents'[j].openedAt = incidents[j].openedAt
  BY <1>3, <1>5
<1>9. ASSUME NEW h \in Handlers PROVE InFlight(h)' /\ Current(h)'
  <2>1. InFlight(h) /\ Current(h)
    BY DEF IInv
  <2>2. CASE handler[h].incident \in Incidents
    BY <1>8, <2>1, <2>2 DEF InFlight, Current, Exists
  <2>3. CASE handler[h].incident \notin Incidents
    <3>1. handler[h].pc = "idle"
      BY <2>1, <2>3 DEF InFlight
    <3>2. QED
      BY <2>1, <3>1 DEF InFlight, Current
  <2>4. QED
    BY <2>2, <2>3
<1>10. SeverityKnown'
  BY <1>8 DEF SeverityKnown, Exists
<1>11. QED
  BY <1>3, <1>5, <1>6, <1>7, <1>8, <1>9, <1>10 DEF IInv

LEMMA RecordInv ==
    ASSUME EInv, NEW s \in Sweepers, RecordEscalation(s)
    PROVE  EInv'
<1>1. /\ IInv /\ SeverityKnown /\ SweepsTyped /\ SweepKnows(s) /\ sweep[s] \in Sweep /\ TypeOK
  BY DEF EInv, SweepsTyped, IInv
<1>2. PICK d \in sweep[s].todo :
        /\ sweep[s].pc = "walk"
        /\ incidents' = [incidents EXCEPT ![d.incident].escalationLevel = d.toLevel,
                                          ![d.incident].lastEscalatedAt = sweep[s].at]
        /\ sweep' = [sweep EXCEPT ![s].pc = "timeline", ![s].todo = @ \ {d}, ![s].cur = d]
        /\ sweepStale' = (sweepStale \cup (Holding(d.incident) \X {d.incident}))
                           \ {<<s, d.incident>>}
        /\ sweepDisturbed' = IF <<s, d.incident>> \in sweepStale
                             THEN sweepDisturbed \cup {d.incident} ELSE sweepDisturbed
        /\ UNCHANGED <<now, alertIncident, rcaApproved, handler, logs, stale, disturbed, pages>>
  BY DEF RecordEscalation
<1> DEFINE i == d.incident
           w == [sweep[s] EXCEPT !.pc = "timeline", !.todo = sweep[s].todo \ {d}, !.cur = d]
<1>3. /\ i \in Incidents /\ d \in Step /\ d.toLevel \in 1 .. MaxChain /\ d.toLevel \in Nat
      /\ sweep[s].at \in Nat /\ sweep[s].cur = NoStep
  BY <1>1, <1>2, SweepValues DEF Sweep, SweepKnows, MaxChain
<1>4. w \in Sweep /\ w.pc = "timeline" /\ w.todo = sweep[s].todo \ {d} /\ w.cur = d
      /\ w.at = sweep[s].at
  BY <1>1, <1>3 DEF Sweep
<1>5. sweep' = [sweep EXCEPT ![s] = w] /\ DOMAIN sweep = Sweepers
  BY <1>1, <1>2 DEF SweepsTyped, Sweep
<1> HIDE DEF w
<1>6. /\ IInv' /\ SeverityKnown'
      /\ incidents'[i].escalationLevel = d.toLevel /\ incidents'[i].lastEscalatedAt = sweep[s].at
      /\ \A j \in Incidents : /\ incidents'[j].status = incidents[j].status
                              /\ incidents'[j].openedAt = incidents[j].openedAt
                              /\ j # i => incidents'[j] = incidents[j]
  BY <1>1, <1>2, <1>3, LevelWriteInv
<1>7. SweepsTyped'
  <2>1. pages' = pages
    BY <1>2
  <2>2. sweep' \in [Sweepers -> Sweep]
    <3>1. sweep \in [Sweepers -> Sweep]
      BY <1>1 DEF SweepsTyped
    <3>2. QED
      BY <1>4, <1>5, <3>1
  <2>3. pages \in [Incidents -> [1 .. MaxChain -> 0 .. 2]]
    BY <1>1 DEF SweepsTyped
  <2>4. QED
    BY <2>1, <2>2, <2>3 DEF SweepsTyped
<1>8. Exists(i) /\ PastSomeSla(sweep[s].at, incidents[i])
  BY <1>1, <1>2 DEF SweepKnows
<1>9. ASSUME NEW j \in Incidents PROVE Paced(incidents'[j])
  <2>1. CASE j = i
    <3>1. incidents'[j].status # "NONE" /\ PastSomeSla(sweep[s].at, incidents'[j])
      BY <1>6, <1>8, <2>1 DEF Exists, PastSomeSla
    <3>2. sweep[s].at # Null
      BY <1>3, IncidentsAssumption
    <3>3. QED
      BY <1>3, <1>6, <2>1, <3>1, <3>2 DEF Paced, MaxChain
  <2>2. CASE j # i
    BY <1>6, <2>2 DEF EInv
  <2>3. QED
    BY <2>1, <2>2
<1>10. ASSUME NEW t \in Sweepers PROVE SweepKnows(t)'
  <2>1. SweepKnows(t) /\ sweep[t] \in Sweep /\ sweep'[t] \in Sweep
    BY <1>7 DEF EInv, SweepsTyped
  <2>2. \A j \in Incidents : (Exists(j) <=> Exists(j)')
    BY <1>6 DEF Exists
  <2>3. /\ sweep'[t].todo \subseteq sweep[t].todo /\ sweep'[t].at = sweep[t].at
        /\ t = s => d \notin sweep'[t].todo
    BY <1>4, <1>5
  <2>4. ASSUME NEW c \in sweep'[t].todo
        PROVE  /\ Exists(c.incident)' /\ PastSomeSla(sweep'[t].at, incidents'[c.incident])
               /\ <<t, c.incident>> \notin sweepStale' =>
                    /\ ShouldEscalate(incidents'[c.incident], sweep'[t].at)
                    /\ c.toLevel = incidents'[c.incident].escalationLevel + 1
    <3>1. c.incident \in Incidents /\ c \in sweep[t].todo
      BY <2>1, <2>3, SweepValues DEF Sweep
    <3>2. Exists(c.incident)' /\ PastSomeSla(sweep'[t].at, incidents'[c.incident])
      BY <1>6, <2>1, <2>2, <2>3, <3>1 DEF SweepKnows, PastSomeSla
    <3>3. CASE c.incident = i
      <4>1. t # s
        BY <1>1, <1>2, <2>3, <3>1, <3>3 DEF SweepKnows
      <4>2. <<t, c.incident>> \in sweepStale'
        BY <1>2, <3>1, <3>3, <4>1 DEF Holding
      <4>3. QED
        BY <3>2, <4>2
    <3>4. CASE c.incident # i
      <4>1. incidents'[c.incident] = incidents[c.incident]
            /\ (<<t, c.incident>> \in sweepStale => <<t, c.incident>> \in sweepStale')
        BY <1>2, <1>6, <3>1, <3>4
      <4>2. QED
        BY <2>1, <2>3, <3>1, <3>2, <4>1 DEF SweepKnows
    <3>5. QED
      BY <3>3, <3>4
  <2>5. \A b, c \in sweep'[t].todo : b.incident = c.incident => b = c
    BY <2>1, <2>3 DEF SweepKnows
  <2>6. /\ sweep'[t].cur # NoStep => Exists(sweep[t].cur.incident)'
        /\ sweep'[t].pc \in {"timeline", "notify"} <=> sweep'[t].cur # NoStep
    <3>1. CASE t = s
      <4>1. sweep'[t] = w
        BY <1>5, <3>1
      <4>2. d # NoStep
        BY <1>3, SweepValues
      <4>3. Exists(i)'
        BY <1>3, <1>8, <2>2
      <4>4. QED
        BY <1>4, <4>1, <4>2, <4>3 DEF Exists
    <3>2. CASE t # s
      <4>1. sweep'[t] = sweep[t]
        BY <1>5, <3>2
      <4>2. sweep[t].cur # NoStep => sweep[t].cur.incident \in Incidents
        BY <2>1, SweepValues DEF Sweep
      <4>3. QED
        BY <2>1, <2>2, <4>1, <4>2 DEF SweepKnows, Exists
    <3>3. QED
      BY <3>1, <3>2
  <2>7. QED
    BY <2>4, <2>5, <2>6 DEF SweepKnows
<1>11. ASSUME NEW j \in Incidents, j \notin sweepDisturbed' PROVE PagedSoFar(j)'
  <2>1. PagedSoFar(j) /\ j \notin sweepDisturbed
    BY <1>2, <1>11 DEF EInv
  <2>2. \A t \in Sweepers : sweep'[t].cur = IF t = s THEN d ELSE sweep[t].cur
    BY <1>4, <1>5
  <2>3. s \notin Paging(j)
    BY <1>3, SweepValues DEF Paging
  <2>4. CASE j # i
    <3>1. Paging(j)' = Paging(j)
      BY <2>2, <2>3, <2>4 DEF Paging
    <3>2. pages'[j] = pages[j] /\ incidents'[j] = incidents[j]
          /\ \A t \in Paging(j) : sweep'[t].cur = sweep[t].cur
      BY <1>2, <1>6, <2>2, <2>3, <2>4 DEF Paging
    <3>3. QED
      BY <2>1, <3>1, <3>2 DEF PagedSoFar
  <2>5. CASE j = i
    <3>1. <<s, i>> \notin sweepStale
      BY <1>2, <1>11, <2>5
    <3>2. d.toLevel = incidents[i].escalationLevel + 1 /\ incidents[i].escalationLevel \in Nat
      BY <1>1, <1>2, <1>3, <3>1 DEF SweepKnows, TypeOK, Incident
    <3>3. Paging(j)' = Paging(j) \cup {s}
      BY <2>2, <2>5 DEF Paging
    <3>4. \A t \in Paging(j) : /\ t # s /\ sweep'[t].cur = sweep[t].cur
                               /\ sweep[t].cur.toLevel \in Nat
                               /\ sweep[t].cur.toLevel <= incidents[i].escalationLevel
      <4>1. \A t \in Paging(j) : sweep[t].cur \in Step
        BY <1>1, <2>5, SweepValues DEF Paging, SweepsTyped, Sweep
      <4>2. QED
        BY <2>1, <2>2, <2>3, <2>5, <4>1, SweepValues DEF Paging, PagedSoFar, MaxChain
    <3>5. sweep'[s].cur = d /\ pages'[j] = pages[j] /\ incidents'[j].escalationLevel = d.toLevel
      BY <1>2, <1>6, <2>2, <2>5
    <3>6. ASSUME NEW l \in 1 .. MaxChain
          PROVE  pages'[j][l] = IF /\ l <= incidents'[j].escalationLevel
                                   /\ \A t \in Paging(j)' : sweep'[t].cur.toLevel # l
                                THEN 1 ELSE 0
      <4>1. pages[j][l] = IF /\ l <= incidents[j].escalationLevel
                             /\ \A t \in Paging(j) : sweep[t].cur.toLevel # l
                          THEN 1 ELSE 0
        BY <2>1 DEF PagedSoFar
      <4>2. l \in Nat
        BY DEF MaxChain
      <4>3. CASE l = d.toLevel
        BY <2>5, <3>2, <3>3, <3>5, <4>1, <4>2, <4>3
      <4>4. CASE l # d.toLevel
        BY <2>5, <3>2, <3>3, <3>4, <3>5, <4>1, <4>2, <4>4
      <4>5. QED
        BY <4>3, <4>4
    <3>7. \A t, x \in Paging(j)' : sweep'[t].cur.toLevel = sweep'[x].cur.toLevel => t = x
      BY <2>1, <2>5, <3>2, <3>3, <3>4, <3>5 DEF PagedSoFar
    <3>8. \A t \in Paging(j)' : sweep'[t].cur.toLevel <= incidents'[j].escalationLevel
      BY <3>2, <3>3, <3>4, <3>5
    <3>9. QED
      BY <3>6, <3>7, <3>8 DEF PagedSoFar
  <2>6. QED
    BY <2>4, <2>5
<1>12. QED
  BY <1>6, <1>7, <1>9, <1>10, <1>11 DEF EInv, PagedSoFar

\* A page counts one more of its level, up to two.
LEMMA OnePage ==
    ASSUME SweepsTyped, NEW s \in Sweepers, NotifyEscalation(s), sweep[s].cur \in Step
    PROVE  LET i == sweep[s].cur.incident
               l == sweep[s].cur.toLevel
           IN
           /\ pages' \in [Incidents -> [1 .. MaxChain -> 0 .. 2]]
           /\ pages[i][l] = 0 => pages'[i][l] = 1
           /\ \A k \in 1 .. MaxChain : k # l => pages'[i][k] = pages[i][k]
<1> DEFINE i == sweep[s].cur.incident
           l == sweep[s].cur.toLevel
           n == IF pages[i][l] = 2 THEN 2 ELSE pages[i][l] + 1
           row == [pages[i] EXCEPT ![l] = n]
<1>1. i \in Incidents /\ l \in 1 .. MaxChain
  BY SweepValues
<1>2. pages[i] \in [1 .. MaxChain -> 0 .. 2] /\ pages[i][l] \in 0 .. 2
  BY <1>1 DEF SweepsTyped
<1>3. n \in 0 .. 2 /\ (pages[i][l] = 0 => n = 1)
  BY <1>2
<1>4. pages' = [pages EXCEPT ![i] = row]
  BY <1>1, <1>2 DEF NotifyEscalation, SweepsTyped
<1> HIDE DEF n
<1>5. row \in [1 .. MaxChain -> 0 .. 2] /\ row[l] = n
      /\ \A k \in 1 .. MaxChain : k # l => row[k] = pages[i][k]
  BY <1>1, <1>2, <1>3
<1> HIDE DEF row
<1>6. QED
  BY <1>1, <1>3, <1>4, <1>5 DEF SweepsTyped

\* The page, or the end of a sweep that was cut off.
LEMMA PageInv ==
    ASSUME EInv, NEW s \in Sweepers, NotifyEscalation(s) \/ AbortSweep(s)
    PROVE  EInv'
<1>1. /\ SweepsTyped /\ SweepKnows(s) /\ sweep[s] \in Sweep /\ TypeOK /\ DOMAIN sweep = Sweepers
      /\ UNCHANGED vars
  BY DEF EInv, SweepsTyped, IInv, NotifyEscalation, AbortSweep
<1>2. PICK w \in Sweep :
        /\ sweep' = [sweep EXCEPT ![s] = w]
        /\ w.cur = NoStep /\ w.pc \notin {"timeline", "notify"}
        /\ \/ w.todo = {}
           \/ w.todo = sweep[s].todo /\ w.at = sweep[s].at /\ sweepStale' = sweepStale
        /\ \A t \in Sweepers, i \in Incidents :
             t # s /\ <<t, i>> \in sweepStale => <<t, i>> \in sweepStale'
  <2>1. CASE NotifyEscalation(s)
    <3> DEFINE w == [sweep[s] EXCEPT !.pc = "audit", !.cur = NoStep]
    <3>1. w \in Sweep /\ w.cur = NoStep /\ w.pc = "audit" /\ w.todo = sweep[s].todo
          /\ w.at = sweep[s].at
      BY <1>1 DEF Sweep
    <3>2. sweep' = [sweep EXCEPT ![s] = w] /\ sweepStale' = sweepStale
      BY <2>1 DEF NotifyEscalation
    <3> HIDE DEF w
    <3>3. QED
      BY <3>1, <3>2
  <2>2. CASE AbortSweep(s)
    BY <2>2, SweepValues DEF AbortSweep
  <2>3. QED
    BY <2>1, <2>2
<1>3. SweepsTyped'
  <2>1. pages' \in [Incidents -> [1 .. MaxChain -> 0 .. 2]]
    <3>1. CASE NotifyEscalation(s)
      <4>1. sweep[s].cur # NoStep /\ sweep[s].cur \in Step
        BY <1>1, <3>1 DEF NotifyEscalation, SweepKnows, Sweep
      <4>2. QED
        BY <1>1, <3>1, <4>1, OnePage
    <3>2. CASE AbortSweep(s)
      BY <1>1, <3>2 DEF AbortSweep, SweepsTyped
    <3>3. QED
      BY <3>1, <3>2
  <2>2. QED
    BY <1>1, <1>2, <2>1 DEF SweepsTyped
<1>4. ASSUME NEW t \in Sweepers PROVE SweepKnows(t)'
  <2>1. CASE t = s
    BY <1>1, <1>2, <2>1 DEF SweepKnows, Exists, vars
  <2>2. CASE t # s
    BY <1>1, <1>2, <2>2, KnowsKept DEF EInv, SweepsTyped, vars
  <2>3. QED
    BY <2>1, <2>2
<1>5. ASSUME NEW i \in Incidents, i \notin sweepDisturbed' PROVE PagedSoFar(i)'
  <2>1. \A t \in Sweepers : sweep'[t].cur = IF t = s THEN NoStep ELSE sweep[t].cur
    BY <1>1, <1>2
  <2>2. PagedSoFar(i) /\ i \notin sweepDisturbed /\ sweepDisturbed \subseteq sweepDisturbed'
    BY <1>5 DEF EInv, NotifyEscalation, AbortSweep
  <2>3. Paging(i)' = Paging(i) \ {s}
    BY <2>1, SweepValues DEF Paging
  <2>4. CASE s \notin Paging(i)
    <3>1. Paging(i)' = Paging(i) /\ \A t \in Paging(i) : sweep'[t].cur = sweep[t].cur
      BY <2>1, <2>3, <2>4 DEF Paging
    <3>2. pages'[i] = pages[i]
      BY <1>1, <2>4 DEF NotifyEscalation, AbortSweep, Paging, SweepsTyped
    <3>3. QED
      BY <1>1, <2>2, <3>1, <3>2 DEF PagedSoFar, vars
  <2>5. CASE s \in Paging(i)
    <3>1. sweep[s].cur.incident = i
      BY <2>5 DEF Paging
    <3>2. NotifyEscalation(s)
      BY <1>5, <3>1, IncidentsAssumption DEF AbortSweep
    <3> DEFINE l == sweep[s].cur.toLevel
    <3>3. sweep[s].cur \in Step /\ l \in 1 .. MaxChain
      BY <1>1, <3>1, SweepValues DEF Sweep
    <3>5. pages[i][l] = 0 /\ l <= incidents[i].escalationLevel
      BY <2>2, <2>5, <3>3 DEF PagedSoFar
    <3> HIDE DEF l
    <3>6. pages'[i][l] = 1 /\ \A k \in 1 .. MaxChain : k # l => pages'[i][k] = pages[i][k]
      BY <1>1, <3>1, <3>2, <3>3, <3>5, OnePage DEF l
    <3>7. \A t \in Paging(i)' : sweep'[t].cur = sweep[t].cur /\ sweep[t].cur.toLevel # l
      BY <2>1, <2>2, <2>3, <2>5 DEF Paging, PagedSoFar, l
    <3>8. ASSUME NEW k \in 1 .. MaxChain
          PROVE  pages'[i][k] = IF /\ k <= incidents'[i].escalationLevel
                                   /\ \A t \in Paging(i)' : sweep'[t].cur.toLevel # k
                                THEN 1 ELSE 0
      <4>1. pages[i][k] = IF /\ k <= incidents[i].escalationLevel
                             /\ \A t \in Paging(i) : sweep[t].cur.toLevel # k
                          THEN 1 ELSE 0
        BY <2>2 DEF PagedSoFar
      <4>2. incidents' = incidents
        BY <1>1 DEF vars
      <4>3. CASE k = l
        BY <3>5, <3>6, <3>7, <4>2, <4>3
      <4>4. CASE k # l
        BY <2>3, <3>6, <3>7, <4>1, <4>2, <4>4 DEF l
      <4>5. QED
        BY <4>3, <4>4
    <3>9. QED
      BY <1>1, <2>2, <2>3, <3>7, <3>8 DEF PagedSoFar, vars
  <2>6. QED
    BY <2>4, <2>5
<1>6. QED
  BY <1>1, <1>3, <1>4, <1>5, SweepOnly DEF PagedSoFar

LEMMA EscalationNextInv == EInv /\ [EscalationNext]_allVars => EInv'
<1> SUFFICES ASSUME EInv, [EscalationNext]_allVars PROVE EInv'
  OBVIOUS
<1>1. ASSUME NEW s \in Sweepers, SweepStep(s) \/ AbortSweep(s) PROVE EInv'
  BY <1>1, ReadingStepInv, RecordInv, PageInv DEF SweepStep
<1>2. CASE UNCHANGED allVars
  <2>1. UNCHANGED vars /\ UNCHANGED <<sweep, pages, sweepStale, sweepDisturbed>>
    BY <1>2 DEF allVars, sweepVars
  <2>2. SweepsTyped' /\ \A s \in Sweepers : SweepKnows(s)'
    BY <2>1 DEF EInv, SweepsTyped, SweepKnows, Exists, vars
  <2>3. \A i \in Incidents : PagedSoFar(i)'
    BY <2>1 DEF EInv, PagedSoFar, Paging, vars
  <2>4. QED
    BY <2>1, <2>2, <2>3, SweepOnly
<1>3. QED
  BY <1>1, <1>2, LifecycleInv DEF EscalationNext

LEMMA EscalationInvariance == EscalationSpec => []EInv
  BY EscalationInitInv, EscalationNextInv, PTL DEF EscalationSpec

-----------------------------------------------------------------------------
(* The theorems.                                                           *)

\* No page is on record from before the acknowledgement SLA, for any number of
\* overlapping sweeps with snapshots however old, and whatever the requests do
\* to the incident meanwhile: its openedAt is never set a second time.
THEOREM NeverPagedEarly == EscalationSpec => []NeverPagedWithinAckSla
<1>1. EInv => NeverPagedWithinAckSla
  BY DEF EInv, Paced, PastSomeSla, NeverPagedWithinAckSla
<1>2. QED
  BY <1>1, EscalationInvariance, PTL

\* Each level on record was paged exactly once, unless a sweep wrote over
\* another or was cut off before its page.
THEOREM LevelsPagedOnce == EscalationSpec => []EveryLevelPagedOnce
<1>1. EInv => EveryLevelPagedOnce
  <2> SUFFICES ASSUME EInv, NEW i \in Incidents, i \notin sweepDisturbed, Paging(i) = {},
                      NEW l \in 1 .. incidents[i].escalationLevel
               PROVE  pages[i][l] = 1
    BY DEF EveryLevelPagedOnce
  <2>1. PagedSoFar(i) /\ Paced(incidents[i]) /\ incidents[i].escalationLevel \in Nat
    BY DEF EInv, IInv, TypeOK, Incident
  <2>2. l \in 1 .. MaxChain
    BY <2>1 DEF Paced, MaxChain
  <2>3. QED
    BY <2>1, <2>2 DEF PagedSoFar
<1>2. QED
  BY <1>1, EscalationInvariance, PTL

\* Only the UPDATE of a sweep takes it from its snapshot to the timeline.
LEMMA EscalatesIsRecord ==
    ASSUME EInv, [EscalationNext]_allVars, NEW s \in Sweepers, NEW i \in Incidents,
           Escalates(s, i)
    PROVE  RecordEscalation(s)
<1>1. DOMAIN sweep = Sweepers /\ sweep[s] \in Sweep
  BY DEF EInv, SweepsTyped
<1>2. sweep[s].pc = "walk" /\ sweep'[s].pc = "timeline" /\ sweep'[s] # sweep[s]
  BY DEF Escalates
<1>3. ASSUME NEW t \in Sweepers, SweepStep(t) \/ AbortSweep(t) PROVE t = s
  <2>1. \E w : sweep' = [sweep EXCEPT ![t] = w]
    <3>1. ASSUME RecordEscalation(t) PROVE \E w : sweep' = [sweep EXCEPT ![t] = w]
      BY <1>1, <3>1 DEF RecordEscalation
    <3>2. ASSUME NotifyEscalation(t) PROVE \E w : sweep' = [sweep EXCEPT ![t] = w]
      BY <1>1, <3>2 DEF NotifyEscalation
    <3>3. QED
      BY <1>3, <3>1, <3>2 DEF SweepStep, StartSweep, ReadCandidates, AppendEscalated,
         AuditEscalation, AbortSweep
  <2>2. QED
    BY <1>1, <1>2, <2>1
<1>4. ~StartSweep(s) /\ ~ReadCandidates(s) /\ ~AppendEscalated(s) /\ ~NotifyEscalation(s)
      /\ ~AuditEscalation(s)
  BY <1>2 DEF StartSweep, ReadCandidates, AppendEscalated, NotifyEscalation, AuditEscalation
<1>5. ~AbortSweep(s)
  BY <1>1, <1>2, SweepValues DEF AbortSweep
<1>6. ~LifecycleStep /\ ~UNCHANGED allVars
  BY <1>2 DEF LifecycleStep, allVars, sweepVars
<1>7. QED
  BY <1>3, <1>4, <1>5, <1>6 DEF EscalationNext, SweepStep

\* A sweep takes an incident a step too far, too early or when nobody waits for
\* it only if the row was written after the sweep read it.
THEOREM MisfiresOnlyWhenStale == EscalationSpec => OnlyStaleSweepsMisfire
<1> DEFINE A == \A s \in Sweepers, i \in Incidents :
                  Escalates(s, i) =>
                    \/ <<s, i>> \in sweepStale
                    \/ /\ incidents[i].status \notin Terminal
                       /\ ~incidents[i].acknowledged
                       /\ incidents'[i].escalationLevel = incidents[i].escalationLevel + 1
                       /\ incidents'[i].escalationLevel <= Policy(incidents[i]).chain
                       /\ incidents[i].lastEscalatedAt # Null =>
                            incidents'[i].lastEscalatedAt >=
                              incidents[i].lastEscalatedAt + Policy(incidents[i]).escalateAfter
<1>1. EInv /\ [EscalationNext]_allVars => [A]_allVars
  <2> SUFFICES ASSUME EInv, [EscalationNext]_allVars, NEW s \in Sweepers, NEW i \in Incidents,
                      Escalates(s, i), <<s, i>> \notin sweepStale
               PROVE  /\ incidents[i].status \notin Terminal
                      /\ ~incidents[i].acknowledged
                      /\ incidents'[i].escalationLevel = incidents[i].escalationLevel + 1
                      /\ incidents'[i].escalationLevel <= Policy(incidents[i]).chain
                      /\ incidents[i].lastEscalatedAt # Null =>
                           incidents'[i].lastEscalatedAt >=
                             incidents[i].lastEscalatedAt + Policy(incidents[i]).escalateAfter
    OBVIOUS
  <2>1. /\ SweepsTyped /\ sweep[s] \in Sweep /\ SweepKnows(s) /\ incidents[i] \in Incident
        /\ TypeOK /\ Paced(incidents[i])
    BY DEF EInv, SweepsTyped, IInv, TypeOK
  <2>2. PICK d \in sweep[s].todo :
          /\ incidents' = [incidents EXCEPT ![d.incident].escalationLevel = d.toLevel,
                                            ![d.incident].lastEscalatedAt = sweep[s].at]
          /\ sweep' = [sweep EXCEPT ![s].pc = "timeline", ![s].todo = @ \ {d}, ![s].cur = d]
    BY EscalatesIsRecord DEF RecordEscalation
  <2>3. d.incident = i
    BY <2>1, <2>2 DEF Escalates, SweepsTyped, Sweep
  <2>4. /\ incidents'[i].escalationLevel = d.toLevel
        /\ incidents'[i].lastEscalatedAt = sweep[s].at
    BY <2>1, <2>2, <2>3 DEF TypeOK, Incident
  <2>5. ShouldEscalate(incidents[i], sweep[s].at) /\ d.toLevel = incidents[i].escalationLevel + 1
    BY <2>1, <2>2, <2>3 DEF SweepKnows
  <2>6. incidents[i].severity \in Severity
    BY <2>5 DEF EInv, SeverityKnown, ShouldEscalate, Terminal, Exists
  <2>7. d.toLevel <= Policy(incidents[i]).chain
    BY <2>1, <2>5, <2>6, PolicyFacts DEF ShouldEscalate, ChainExhausted, Policy, Incident
  <2>8. incidents[i].lastEscalatedAt # Null =>
          sweep[s].at >= incidents[i].lastEscalatedAt + Policy(incidents[i]).escalateAfter
    BY <2>1, <2>5 DEF ShouldEscalate, WindowElapsed, Paced, Incident
  <2>9. QED
    BY <2>4, <2>5, <2>7, <2>8 DEF ShouldEscalate, AckSlaBreached
<1>2. QED
  BY <1>1, EscalationInvariance, PTL DEF EscalationSpec, OnlyStaleSweepsMisfire

=============================================================================
