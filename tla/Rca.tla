-------------------------------- MODULE Rca --------------------------------
(***************************************************************************)
(* The life of a root-cause-analysis report: drafted for an incident,      *)
(* edited, submitted for review, approved by a second person.              *)
(*                                                                         *)
(* RcaService runs every request as an async handler over one Postgres     *)
(* table and opens no transaction: it awaits a read of the row, checks     *)
(* what it read, awaits an unconditional UPDATE and awaits the audit       *)
(* INSERT.  Any other handler may run at each await, so a handler here is  *)
(* a record that remembers what it is about to write.  The step that reads *)
(* and checks begins the request; a request whose check fails changes      *)
(* nothing and is left out.  Any await may also reject, which ends the     *)
(* handler where it stands (Abort).                                        *)
(*                                                                         *)
(* An incident exists before any report on it, and neither is ever         *)
(* deleted, so a report is identified with its incident.                   *)
(***************************************************************************)
EXTENDS Naturals

CONSTANTS
    Incidents,  \* incident ids, the unique key of the report table
    Users,      \* user ids
    Handlers,   \* requests that can be in flight at once
    Texts,      \* what a report can say (root cause, category, factors)
    Null        \* a NULL column, or a field a request does not use

ASSUME NullAssumption == Null \notin Users

VARIABLES
    reports,    \* rca_reports: one row per incident, status NONE when absent
    handler,    \* what each request in flight has read and is about to do
    auditLog,   \* which audit entries exist for each incident
    stale       \* history: handlers whose row was written since they read it

rcaVars == <<reports, handler, auditLog, stale>>

-----------------------------------------------------------------------------

Status == {"NONE", "DRAFT", "IN_REVIEW", "APPROVED"}

Ops == {"rca.create", "rca.update", "rca.submit", "rca.approve"}

Report == [ status     : Status,
            authoredBy : Users \cup {Null},
            reviewedBy : Users \cup {Null},
            published  : BOOLEAN,
            text       : Texts \cup {Null} ]

\* A request is between its read and its write ("write"), or between its
\* write and its audit entry ("audit").  user is the author of a create and
\* the named reviewer of an approve.
Handler == [ pc       : {"idle", "write", "audit"},
             op       : Ops \cup {Null},
             incident : Incidents \cup {Null},
             user     : Users \cup {Null},
             text     : Texts \cup {Null} ]

NoReport == [status |-> "NONE", authoredBy |-> Null, reviewedBy |-> Null,
             published |-> FALSE, text |-> Null]

Resting == [pc |-> "idle", op |-> Null, incident |-> Null,
            user |-> Null, text |-> Null]

RcaTypeOK ==
    /\ reports \in [Incidents -> Report]
    /\ handler \in [Handlers -> Handler]
    /\ auditLog \in [Incidents -> SUBSET Ops]
    /\ stale \in SUBSET Handlers

RcaInit ==
    /\ reports = [i \in Incidents |-> NoReport]
    /\ handler = [h \in Handlers |-> Resting]
    /\ auditLog = [i \in Incidents |-> {}]
    /\ stale = {}

-----------------------------------------------------------------------------
(* The first half of a request: read the row, check it, go on to the write. *)

BeginRequest(h, op, i, u, t) ==
    /\ handler[h].pc = "idle"
    /\ handler' = [handler EXCEPT ![h] =
                     [pc |-> "write", op |-> op, incident |-> i,
                      user |-> u, text |-> t]]
    /\ stale' = stale \ {h}
    /\ UNCHANGED <<reports, auditLog>>

\* The author is the caller (RcaController.create).
Create(h, i, u, t) ==
    /\ reports[i].status = "NONE"
    /\ BeginRequest(h, "rca.create", i, u, t)

\* The mutated form: an approved report may be edited.
UpdateApproved(h, i, t) ==
    /\ reports[i].status # "NONE"
    /\ BeginRequest(h, "rca.update", i, Null, t)

Update(h, i, t) ==
    /\ reports[i].status \notin {"NONE", "APPROVED"}
    /\ BeginRequest(h, "rca.update", i, Null, t)

SubmitForReview(h, i) ==
    /\ reports[i].status = "DRAFT"
    /\ BeginRequest(h, "rca.submit", i, Null, Null)

\* The mutated form: the author may be named as the reviewer.
ApproveBySelf(h, i, u) ==
    /\ reports[i].status = "IN_REVIEW"
    /\ BeginRequest(h, "rca.approve", i, u, Null)

\* The reviewer is the user the request body names, not the caller.
Approve(h, i, u) ==
    /\ reports[i].status = "IN_REVIEW"
    /\ u # reports[i].authoredBy
    /\ BeginRequest(h, "rca.approve", i, u, Null)

-----------------------------------------------------------------------------
(* The second half: one UPDATE or INSERT keyed by the report, then the     *)
(* audit entry.                                                            *)

\* The handlers that hold a read of the same row and have not written yet.
Overtaken(h) ==
    {k \in Handlers \ {h} : /\ handler[k].pc = "write"
                            /\ handler[k].incident = handler[h].incident}

\* The row is written; the audit entry is next.
Written(h) ==
    /\ handler' = [handler EXCEPT ![h].pc = "audit"]
    /\ stale' = (stale \ {h}) \cup Overtaken(h)
    /\ UNCHANGED auditLog

\* The unique index on incidentId rejects a second INSERT; then the handler
\* throws and its request ends without an audit entry.
InsertReport(h) ==
    LET r == handler[h] IN
    /\ r.pc = "write" /\ r.op = "rca.create"
    /\ \/ /\ reports[r.incident].status = "NONE"
          /\ reports' = [reports EXCEPT ![r.incident] =
                           [status |-> "DRAFT", authoredBy |-> r.user,
                            reviewedBy |-> Null, published |-> FALSE,
                            text |-> r.text]]
          /\ Written(h)
       \/ /\ reports[r.incident].status # "NONE"
          /\ handler' = [handler EXCEPT ![h] = Resting]
          /\ stale' = stale \ {h}
          /\ UNCHANGED <<reports, auditLog>>

\* The mutated form: an edited report is a draft again.
WriteUpdateAsDraft(h) ==
    LET r == handler[h] IN
    /\ r.pc = "write" /\ r.op = "rca.update"
    /\ reports' = [reports EXCEPT ![r.incident].text = r.text,
                                  ![r.incident].status = "DRAFT"]
    /\ Written(h)

WriteUpdate(h) ==
    LET r == handler[h] IN
    /\ r.pc = "write" /\ r.op = "rca.update"
    /\ reports' = [reports EXCEPT ![r.incident].text = r.text]
    /\ Written(h)

WriteSubmit(h) ==
    LET r == handler[h] IN
    /\ r.pc = "write" /\ r.op = "rca.submit"
    /\ reports' = [reports EXCEPT ![r.incident].status = "IN_REVIEW"]
    /\ Written(h)

WriteApprove(h) ==
    LET r == handler[h] IN
    /\ r.pc = "write" /\ r.op = "rca.approve"
    /\ reports' = [reports EXCEPT ![r.incident].status = "APPROVED",
                                  ![r.incident].reviewedBy = r.user,
                                  ![r.incident].published = TRUE]
    /\ Written(h)

RecordAudit(h) ==
    LET r == handler[h] IN
    /\ r.pc = "audit"
    /\ auditLog' = [auditLog EXCEPT ![r.incident] = @ \cup {r.op}]
    /\ handler' = [handler EXCEPT ![h] = Resting]
    /\ UNCHANGED <<reports, stale>>

\* An await rejects (lost connection, statement timeout) or the process dies:
\* what was written stays, what was to come does not happen.
Abort(h) ==
    /\ handler[h].pc # "idle"
    /\ handler' = [handler EXCEPT ![h] = Resting]
    /\ stale' = stale \ {h}
    /\ UNCHANGED <<reports, auditLog>>

RcaNext ==
    \E h \in Handlers :
      \/ \E i \in Incidents :
           \/ \E u \in Users, t \in Texts : Create(h, i, u, t)
           \/ \E t \in Texts : Update(h, i, t)
           \/ SubmitForReview(h, i)
           \/ \E u \in Users : Approve(h, i, u)
      \/ InsertReport(h)
      \/ WriteUpdate(h)
      \/ WriteSubmit(h)
      \/ WriteApprove(h)
      \/ RecordAudit(h)
      \/ Abort(h)

RcaSpec == RcaInit /\ [][RcaNext]_rcaVars

-----------------------------------------------------------------------------
(* What must hold, whatever the interleaving.                              *)

\* The four-eyes principle (rca.service.ts, approve; schema.prisma, model
\* RcaReport): a report carries a reviewer exactly when it was published,
\* the reviewer is never its author, and no report is APPROVED unsigned.
\* The check reads a row that other requests may rewrite before the write.
FourEyes ==
    \A i \in Incidents :
      /\ reports[i].published <=> reports[i].reviewedBy # Null
      /\ reports[i].status = "APPROVED" => reports[i].published
      /\ reports[i].published => reports[i].reviewedBy # reports[i].authoredBy

\* One incident has one report, and whoever created it stays its author: of
\* two creates that both found none, the unique index refuses the later
\* (rca.service.ts, create).
AuthorIsForever ==
    [][\A i \in Incidents :
         reports[i].status # "NONE" =>
           /\ reports'[i].status # "NONE"
           /\ reports'[i].authoredBy = reports[i].authoredBy]_rcaVars

\* The audit trail never tells of something that did not happen: an entry
\* is written after the row it tells of (rca.service.ts, every operation), so
\* a submitted report is never a draft again and an approved one is signed,
\* even when a stale request has meanwhile overwritten the status.
AuditNeverLies ==
    \A i \in Incidents :
      /\ auditLog[i] # {} => reports[i].status # "NONE"
      /\ "rca.submit" \in auditLog[i] => reports[i].status # "DRAFT"
      /\ "rca.approve" \in auditLog[i] => reports[i].published

\* h writes its row in this step.
Writes(h) == handler[h].pc = "write" /\ handler'[h].pc = "audit"

\* An approved report is final (rca.service.ts:70, "Cannot edit an
\* already-approved RCA report"): the only request that can still change
\* one is a request that read the row before it was approved.
OnlyStaleRequestsChangeApproved ==
    [][\A i \in Incidents :
         reports[i].status = "APPROVED" /\ reports'[i] # reports[i] =>
           \E h \in stale : handler[h].incident = i /\ Writes(h)]_rcaVars

\* The status only moves forward one step at a time, unless the request
\* that moves it read the row before another request wrote it.
OnlyStaleRequestsSkipReview ==
    [][\A i \in Incidents :
         reports'[i].status # reports[i].status =>
           \/ <<reports[i].status, reports'[i].status>> \in
                 {<<"NONE", "DRAFT">>, <<"DRAFT", "IN_REVIEW">>,
                  <<"IN_REVIEW", "APPROVED">>}
           \/ \E h \in stale : handler[h].incident = i /\ Writes(h)]_rcaVars

=============================================================================
