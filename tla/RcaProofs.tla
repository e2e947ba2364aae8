----------------------------- MODULE RcaProofs -----------------------------
(***************************************************************************)
(* Theorems about Rca, for any number of incidents, users and requests.    *)
(*                                                                         *)
(* What a request checked is gone by the time it writes, so FourEyes is    *)
(* not inductive: the invariant must also say what is still true of a      *)
(* request in flight (InFlight), and it is true because the author never   *)
(* changes.  The exceptions of the action properties need the other half:  *)
(* what is true of a request whose row nobody has written since (Current). *)
(***************************************************************************)
EXTENDS Rca, TLAPS

\* Nothing is known of a row that does not exist; one that does has an author.
RowsInv ==
    \A i \in Incidents :
      IF reports[i].status = "NONE" THEN reports[i] = NoReport
                                    ELSE reports[i].authoredBy \in Users

\* What a request in flight can still rely on, whatever other requests did.
InFlight(h) ==
    LET r == handler[h] IN
    r.pc # "idle" =>
      /\ r.op \in Ops
      /\ r.incident \in Incidents
      /\ r.op = "rca.create" => r.user \in Users
      /\ r.op = "rca.approve" => /\ r.user \in Users
                                 /\ r.user # reports[r.incident].authoredBy
      /\ r.op # "rca.create" \/ r.pc = "audit" =>
            reports[r.incident].status # "NONE"
      /\ r.pc = "audit" /\ r.op = "rca.submit" =>
            reports[r.incident].status # "DRAFT"
      /\ r.op = "rca.approve" => reports[r.incident].status # "DRAFT"
      /\ r.pc = "audit" /\ r.op = "rca.approve" => reports[r.incident].published

\* What a request knows as long as nobody wrote its row since it read it.
Current(h) ==
    LET r == handler[h]
        s == reports[handler[h].incident].status
    IN r.pc = "write" /\ h \notin stale =>
         /\ r.op = "rca.create" => s = "NONE"
         /\ r.op = "rca.update" => s \notin {"NONE", "APPROVED"}
         /\ r.op = "rca.submit" => s = "DRAFT"
         /\ r.op = "rca.approve" => s = "IN_REVIEW"

IInv ==
    /\ RcaTypeOK
    /\ RowsInv
    /\ FourEyes
    /\ AuditNeverLies
    /\ \A h \in Handlers : InFlight(h) /\ Current(h)

-----------------------------------------------------------------------------

\* Initially there are no reports, no requests and no audit entries.
LEMMA InitInv == RcaInit => IInv
<1> SUFFICES ASSUME RcaInit PROVE IInv
  OBVIOUS
<1> USE DEF RcaInit, NoReport, Resting
<1>1. RcaTypeOK
  BY DEF RcaTypeOK, Report, Handler, Status
<1>2. RowsInv /\ FourEyes /\ AuditNeverLies
  BY DEF RowsInv, FourEyes, AuditNeverLies
<1>3. \A h \in Handlers : InFlight(h) /\ Current(h)
  BY DEF InFlight, Current
<1> QED
  BY <1>1, <1>2, <1>3 DEF IInv

\* The step that reads and checks keeps the invariant: what it checked is
\* what Current asks for, and part of it is what InFlight asks for.
LEMMA BeginInv ==
  ASSUME IInv, NEW h \in Handlers, NEW i \in Incidents,
         NEW u \in Users \cup {Null}, NEW t \in Texts \cup {Null},
         NEW op \in Ops, BeginRequest(h, op, i, u, t),
         op = "rca.create" => u \in Users /\ reports[i].status = "NONE",
         op = "rca.update" => reports[i].status \notin {"NONE", "APPROVED"},
         op = "rca.submit" => reports[i].status = "DRAFT",
         op = "rca.approve" => /\ u \in Users /\ u # reports[i].authoredBy
                               /\ reports[i].status = "IN_REVIEW"
  PROVE  IInv'
<1> USE DEF BeginRequest
<1>1. RcaTypeOK'
  BY DEF IInv, RcaTypeOK, Handler
<1>2. (RowsInv /\ FourEyes /\ AuditNeverLies)'
  BY DEF IInv, RowsInv, FourEyes, AuditNeverLies
<1>3. ASSUME NEW k \in Handlers PROVE (InFlight(k) /\ Current(k))'
  <2>1. CASE k = h
    BY <2>1 DEF IInv, RcaTypeOK, Handler, InFlight, Current, Ops
  <2>2. CASE k # h
    BY <2>2 DEF IInv, RcaTypeOK, Handler, InFlight, Current
  <2> QED
    BY <2>1, <2>2
<1> QED
  BY <1>1, <1>2, <1>3 DEF IInv

\* A request that reads the row and finds what its operation asks for.
LEMMA ReadInv ==
  ASSUME IInv, NEW h \in Handlers, NEW i \in Incidents,
         \/ \E u \in Users, t \in Texts : Create(h, i, u, t)
         \/ \E t \in Texts : Update(h, i, t)
         \/ SubmitForReview(h, i)
         \/ \E u \in Users : Approve(h, i, u)
  PROVE  IInv'
<1>1. ASSUME NEW u \in Users, NEW t \in Texts, Create(h, i, u, t) PROVE IInv'
  BY <1>1, BeginInv DEF Create, Ops
<1>2. ASSUME NEW t \in Texts, Update(h, i, t) PROVE IInv'
  BY <1>2, BeginInv DEF Update, Ops
<1>3. ASSUME SubmitForReview(h, i) PROVE IInv'
  BY <1>3, BeginInv DEF SubmitForReview, Ops
<1>4. ASSUME NEW u \in Users, Approve(h, i, u) PROVE IInv'
  BY <1>4, BeginInv DEF Approve, Ops
<1> QED
  BY <1>1, <1>2, <1>3, <1>4

\* Any UPDATE that leaves the author alone, never takes a row away or back to
\* DRAFT, and never unsigns it, keeps what every other request relies on; the
\* others that read the row are stale after it.
LEMMA WriteInv ==
  ASSUME IInv, NEW h \in Handlers, NEW row \in Report,
         handler[h].pc = "write", Written(h),
         reports' = [reports EXCEPT ![handler[h].incident] = row],
         row.status # "NONE", row.authoredBy \in Users,
         row.published <=> row.reviewedBy # Null,
         row.status = "APPROVED" => row.published,
         row.published => row.reviewedBy # row.authoredBy,
         reports[handler[h].incident].status # "NONE" =>
           /\ row.authoredBy = reports[handler[h].incident].authoredBy
           /\ row.status = "DRAFT" =>
                reports[handler[h].incident].status = "DRAFT",
         reports[handler[h].incident].published => row.published,
         handler[h].op = "rca.submit" => row.status # "DRAFT",
         handler[h].op = "rca.approve" =>
           row.published /\ row.status # "DRAFT"
  PROVE  IInv'
<1> DEFINE i == handler[h].incident
<1>0. i \in Incidents /\ handler[h].op \in Ops
  BY DEF IInv, InFlight
<1>1. RcaTypeOK'
  BY <1>0 DEF IInv, RcaTypeOK, Handler, Written, Overtaken
<1>2. RowsInv' /\ FourEyes'
  BY <1>0 DEF IInv, RcaTypeOK, RowsInv, FourEyes
<1>3. AuditNeverLies'
  BY <1>0 DEF IInv, RcaTypeOK, AuditNeverLies, Written
<1>4. ASSUME NEW k \in Handlers PROVE InFlight(k)'
  <2>1. CASE k = h
    BY <2>1, <1>0 DEF IInv, RcaTypeOK, Handler, InFlight, Written
  <2>2. CASE k # h
    <3>1. handler'[k] = handler[k] /\ InFlight(k)
      BY <2>2 DEF IInv, RcaTypeOK, Written
    <3>2. CASE handler[k].pc = "idle" \/ handler[k].incident # i
      BY <3>1, <3>2, <1>0 DEF IInv, RcaTypeOK, InFlight
    <3>3. CASE handler[k].pc # "idle" /\ handler[k].incident = i
      <4>1. reports'[i] = row
        BY <1>0 DEF IInv, RcaTypeOK
      <4>2. CASE reports[i].status = "NONE"
        BY <4>1, <4>2, <3>1, <3>3 DEF InFlight
      <4>3. CASE reports[i].status # "NONE"
        BY <4>1, <4>3, <3>1, <3>3 DEF InFlight
      <4> QED
        BY <4>2, <4>3
    <3> QED
      BY <3>2, <3>3
  <2> QED
    BY <2>1, <2>2
<1>5. ASSUME NEW k \in Handlers PROVE Current(k)'
  <2>1. CASE k = h
    BY <2>1 DEF IInv, RcaTypeOK, Handler, Current, Written
  <2>2. CASE k # h
    <3>1. handler'[k] = handler[k] /\ Current(k)
      BY <2>2 DEF IInv, RcaTypeOK, Written
    <3>2. CASE handler[k].pc = "write" /\ handler[k].incident = i
      BY <2>2, <3>1, <3>2 DEF Current, Written, Overtaken
    <3>3. CASE handler[k].pc = "write" /\ handler[k].incident # i
      <4>1. reports'[handler[k].incident] = reports[handler[k].incident]
        BY <3>3 DEF IInv, RcaTypeOK, InFlight
      <4>2. k \notin stale' => k \notin stale
        BY <2>2 DEF Written
      <4> QED
        BY <3>1, <4>1, <4>2 DEF Current
    <3>4. CASE handler[k].pc # "write"
      BY <3>1, <3>4 DEF Current
    <3> QED
      BY <3>2, <3>3, <3>4
  <2> QED
    BY <2>1, <2>2
<1> QED
  BY <1>1, <1>2, <1>3, <1>4, <1>5 DEF IInv

\* A handler that ends, rejected or done, takes its claims with it.
LEMMA EndInv ==
  ASSUME IInv, NEW h \in Handlers,
         handler' = [handler EXCEPT ![h] = Resting],
         stale' = stale \/ stale' = stale \ {h},
         UNCHANGED reports,
         (RecordAudit(h) \/ UNCHANGED auditLog)
  PROVE  IInv'
<1> USE DEF Resting
<1>1. auditLog' \in [Incidents -> SUBSET Ops] /\ AuditNeverLies'
  <2>1. CASE UNCHANGED auditLog
    BY <2>1 DEF IInv, RcaTypeOK, AuditNeverLies
  <2>2. CASE RecordAudit(h)
    <3>1. InFlight(h)
      BY DEF IInv
    <3> QED
      BY <2>2, <3>1 DEF IInv, RcaTypeOK, AuditNeverLies, RecordAudit, InFlight, Ops
  <2> QED
    BY <2>1, <2>2
<1>2. RcaTypeOK'
  BY <1>1 DEF IInv, RcaTypeOK, Handler
<1>3. RowsInv' /\ FourEyes'
  BY DEF IInv, RowsInv, FourEyes
<1>4. \A k \in Handlers : (InFlight(k) /\ Current(k))'
  BY DEF IInv, RcaTypeOK, InFlight, Current
<1> QED
  BY <1>1, <1>2, <1>3, <1>4 DEF IInv

-----------------------------------------------------------------------------

LEMMA NextInv == IInv /\ [RcaNext]_rcaVars => IInv'
<1> SUFFICES ASSUME IInv, [RcaNext]_rcaVars PROVE IInv'
  OBVIOUS
<1>1. ASSUME NEW h \in Handlers, NEW i \in Incidents,
             \/ \E u \in Users, t \in Texts : Create(h, i, u, t)
             \/ \E t \in Texts : Update(h, i, t)
             \/ SubmitForReview(h, i)
             \/ \E u \in Users : Approve(h, i, u)
      PROVE  IInv'
  BY <1>1, ReadInv
<1>2. ASSUME NEW h \in Handlers, InsertReport(h) PROVE IInv'
  <2>1. InFlight(h) /\ handler[h] \in Handler /\ RowsInv
    BY DEF IInv, RcaTypeOK
  <2>2. CASE reports[handler[h].incident].status = "NONE"
    <3> DEFINE row == [status |-> "DRAFT", authoredBy |-> handler[h].user,
                       reviewedBy |-> Null, published |-> FALSE,
                       text |-> handler[h].text]
    <3>1. row \in Report
      BY <2>1 DEF Handler, Report, Status
    <3>2. ~reports[handler[h].incident].published
      BY <1>2, <2>1, <2>2 DEF RowsInv, NoReport, InFlight, InsertReport
    <3>3. handler[h].user \in Users /\ handler[h].op = "rca.create"
      BY <1>2, <2>1 DEF InFlight, InsertReport
    <3>4. /\ handler[h].pc = "write"
          /\ Written(h)
          /\ reports' = [reports EXCEPT ![handler[h].incident] = row]
      BY <1>2, <2>2 DEF InsertReport
    <3> HIDE DEF row
    <3>5. /\ row.status = "DRAFT" /\ row.authoredBy = handler[h].user
          /\ row.reviewedBy = Null /\ row.published = FALSE
      BY DEF row
    <3> QED
      BY <3>1, <3>2, <3>3, <3>4, <3>5, <2>2, WriteInv
  <2>3. CASE reports[handler[h].incident].status # "NONE"
    BY <1>2, <2>3, EndInv DEF InsertReport
  <2> QED
    BY <2>2, <2>3
<1>3. ASSUME NEW h \in Handlers,
             WriteUpdate(h) \/ WriteSubmit(h) \/ WriteApprove(h)
      PROVE  IInv'
  <2> DEFINE r == handler[h]
             i == r.incident
  <2>1. /\ i \in Incidents
        /\ InFlight(h) /\ r \in Handler /\ reports[i] \in Report
        /\ reports[i].status # "NONE" /\ reports[i].authoredBy \in Users
    BY <1>3 DEF IInv, RcaTypeOK, InFlight, RowsInv, WriteUpdate, WriteSubmit, WriteApprove
  <2>2. /\ reports[i].published <=> reports[i].reviewedBy # Null
        /\ reports[i].status = "APPROVED" => reports[i].published
        /\ reports[i].published => reports[i].reviewedBy # reports[i].authoredBy
    BY <2>1 DEF IInv, FourEyes
  <2>3. CASE WriteUpdate(h)
    <3> DEFINE row == [reports[i] EXCEPT !.text = r.text]
    <3>1. row \in Report /\ row.status = reports[i].status
          /\ row.authoredBy = reports[i].authoredBy
          /\ row.reviewedBy = reports[i].reviewedBy
          /\ row.published = reports[i].published
      BY <2>1 DEF Report, Handler
    <3>2. reports' = [reports EXCEPT ![i] = row] /\ Written(h)
          /\ r.pc = "write" /\ r.op = "rca.update"
      BY <2>3 DEF WriteUpdate
    <3> HIDE DEF row
    <3> QED
      BY <2>1, <2>2, <3>1, <3>2, WriteInv
  <2>4. CASE WriteSubmit(h)
    <3> DEFINE row == [reports[i] EXCEPT !.status = "IN_REVIEW"]
    <3>1. row \in Report /\ row.status = "IN_REVIEW"
          /\ row.authoredBy = reports[i].authoredBy
          /\ row.reviewedBy = reports[i].reviewedBy
          /\ row.published = reports[i].published
      BY <2>1 DEF Report, Status
    <3>2. reports' = [reports EXCEPT ![i] = row] /\ Written(h)
          /\ r.pc = "write" /\ r.op = "rca.submit"
      BY <2>4 DEF WriteSubmit
    <3> HIDE DEF row
    <3> QED
      BY <2>1, <2>2, <3>1, <3>2, WriteInv
  <2>5. CASE WriteApprove(h)
    <3> DEFINE row == [reports[i] EXCEPT !.status = "APPROVED",
                                         !.reviewedBy = r.user,
                                         !.published = TRUE]
    <3>1. r.pc = "write" /\ r.op = "rca.approve" /\ Written(h)
      BY <2>5 DEF WriteApprove
    <3>2. r.user \in Users /\ r.user # reports[i].authoredBy /\ r.user # Null
      BY <2>1, <3>1, NullAssumption DEF InFlight
    <3>3. row \in Report /\ row.status = "APPROVED"
          /\ row.authoredBy = reports[i].authoredBy
          /\ row.reviewedBy = r.user
          /\ row.published = TRUE
      BY <2>1, <3>2 DEF Report, Status
    <3>4. reports' = [reports EXCEPT ![i] = row]
      BY <2>5 DEF WriteApprove
    <3> HIDE DEF row
    <3> QED
      BY <2>1, <2>2, <3>1, <3>2, <3>3, <3>4, WriteInv
  <2> QED
    BY <1>3, <2>3, <2>4, <2>5
<1>4. ASSUME NEW h \in Handlers, RecordAudit(h) PROVE IInv'
  BY <1>4, EndInv DEF RecordAudit
<1>5. ASSUME NEW h \in Handlers, Abort(h) PROVE IInv'
  BY <1>5, EndInv DEF Abort
<1>6. CASE UNCHANGED rcaVars
  BY <1>6 DEF rcaVars, IInv, RcaTypeOK, RowsInv, FourEyes, AuditNeverLies, InFlight, Current
<1> QED
  BY <1>1, <1>2, <1>3, <1>4, <1>5, <1>6 DEF RcaNext

\* The inductive invariant holds of every reachable state.
LEMMA Invariance == RcaSpec => []IInv
  BY InitInv, NextInv, PTL DEF RcaSpec

\* A report is signed by someone other than its author before it is APPROVED,
\* in every interleaving of any number of requests (rca.service.ts, approve).
THEOREM FourEyesHolds == RcaSpec => []FourEyes
<1>1. IInv => FourEyes
  BY DEF IInv
<1> QED
  BY <1>1, Invariance, PTL

\* The variables keep their types.
THEOREM TypeCorrect == RcaSpec => []RcaTypeOK
<1>1. IInv => RcaTypeOK
  BY DEF IInv
<1> QED
  BY <1>1, Invariance, PTL

\* Every audit entry tells of a write that happened and was not undone below
\* the status it tells of, although requests overwrite each other's status.
THEOREM AuditNeverLiesHolds == RcaSpec => []AuditNeverLies
<1>1. IInv => AuditNeverLies
  BY DEF IInv
<1> QED
  BY <1>1, Invariance, PTL

-----------------------------------------------------------------------------

\* The only steps that touch the rows are the four writes, and each writes
\* the row of the request that takes it.
LEMMA RowChange ==
  ASSUME IInv, RcaNext, NEW i \in Incidents, reports'[i] # reports[i]
  PROVE  \E h \in Handlers :
           /\ handler[h].incident = i
           /\ Writes(h)
           /\ InsertReport(h) \/ WriteUpdate(h) \/ WriteSubmit(h) \/ WriteApprove(h)
           /\ handler[h].op = "rca.create" => reports[i].status = "NONE"
<1>1. PICK h \in Handlers :
        InsertReport(h) \/ WriteUpdate(h) \/ WriteSubmit(h) \/ WriteApprove(h)
  BY DEF RcaNext, Create, Update, SubmitForReview, Approve, BeginRequest, RecordAudit, Abort
<1>2. handler[h].incident = i
  BY <1>1 DEF IInv, RcaTypeOK, InsertReport, WriteUpdate, WriteSubmit, WriteApprove
<1>3. Written(h) /\ handler[h].pc = "write"
  BY <1>1, <1>2 DEF InsertReport, WriteUpdate, WriteSubmit, WriteApprove
<1>4. Writes(h)
  BY <1>3 DEF IInv, RcaTypeOK, Handler, Written, Writes
<1>5. handler[h].op = "rca.create" => reports[i].status = "NONE"
  BY <1>1, <1>2 DEF InsertReport, WriteUpdate, WriteSubmit, WriteApprove
<1> QED
  BY <1>1, <1>2, <1>4, <1>5

\* Of two creates for one incident the second is refused, so the author who
\* is barred from reviewing is the same person for the life of the report.
THEOREM AuthorIsForeverHolds == RcaSpec => AuthorIsForever
<1> DEFINE Keeps == \A i \in Incidents :
                      reports[i].status # "NONE" =>
                        /\ reports'[i].status # "NONE"
                        /\ reports'[i].authoredBy = reports[i].authoredBy
<1>1. IInv /\ [RcaNext]_rcaVars => [Keeps]_rcaVars
  <2> SUFFICES ASSUME IInv, RcaNext, NEW i \in Incidents,
                      reports[i].status # "NONE", reports'[i] # reports[i]
               PROVE  /\ reports'[i].status # "NONE"
                      /\ reports'[i].authoredBy = reports[i].authoredBy
    OBVIOUS
  <2>1. PICK h \in Handlers :
          /\ handler[h].incident = i
          /\ WriteUpdate(h) \/ WriteSubmit(h) \/ WriteApprove(h)
    BY RowChange DEF InsertReport
  <2>2. reports[i] \in Report
    BY DEF IInv, RcaTypeOK
  <2> QED
    BY <2>1, <2>2 DEF IInv, RcaTypeOK, Report, WriteUpdate, WriteSubmit, WriteApprove
<1> QED
  BY <1>1, Invariance, PTL DEF RcaSpec, AuthorIsForever

\* Nothing but a request that read the report before its approval changes an
\* approved report (rca.service.ts:70): with fresh reads the check suffices.
THEOREM ApprovedChangesOnlyByStale == RcaSpec => OnlyStaleRequestsChangeApproved
<1> DEFINE A == \A i \in Incidents :
                  reports[i].status = "APPROVED" /\ reports'[i] # reports[i] =>
                    \E h \in stale : handler[h].incident = i /\ Writes(h)
<1>1. IInv /\ [RcaNext]_rcaVars => [A]_rcaVars
  <2> SUFFICES ASSUME IInv, RcaNext, NEW i \in Incidents,
                      reports[i].status = "APPROVED", reports'[i] # reports[i]
               PROVE  \E h \in stale : handler[h].incident = i /\ Writes(h)
    OBVIOUS
  <2>1. PICK h \in Handlers :
          /\ handler[h].incident = i
          /\ Writes(h)
          /\ handler[h].op = "rca.create" => reports[i].status = "NONE"
    BY RowChange
  <2>2. InFlight(h) /\ Current(h) /\ handler[h].pc = "write"
    BY <2>1 DEF IInv, Writes
  <2>3. h \in stale
    BY <2>1, <2>2 DEF InFlight, Current, Ops
  <2> QED
    BY <2>1, <2>3
<1> QED
  BY <1>1, Invariance, PTL DEF RcaSpec, OnlyStaleRequestsChangeApproved

\* Review cannot be skipped or undone by a request whose read is fresh.
THEOREM ReviewSkippedOnlyByStale == RcaSpec => OnlyStaleRequestsSkipReview
<1> DEFINE A ==
      \A i \in Incidents :
        reports'[i].status # reports[i].status =>
          \/ <<reports[i].status, reports'[i].status>> \in
                {<<"NONE", "DRAFT">>, <<"DRAFT", "IN_REVIEW">>,
                 <<"IN_REVIEW", "APPROVED">>}
          \/ \E h \in stale : handler[h].incident = i /\ Writes(h)
<1>1. IInv /\ [RcaNext]_rcaVars => [A]_rcaVars
  <2> SUFFICES ASSUME IInv, RcaNext, NEW i \in Incidents,
                      reports'[i].status # reports[i].status,
                      ~ \E h \in stale : handler[h].incident = i /\ Writes(h)
               PROVE  <<reports[i].status, reports'[i].status>> \in
                        {<<"NONE", "DRAFT">>, <<"DRAFT", "IN_REVIEW">>,
                         <<"IN_REVIEW", "APPROVED">>}
    OBVIOUS
  <2>1. PICK h \in Handlers :
          /\ handler[h].incident = i
          /\ Writes(h)
          /\ InsertReport(h) \/ WriteUpdate(h) \/ WriteSubmit(h) \/ WriteApprove(h)
    BY RowChange
  <2>2. Current(h) /\ handler[h].pc = "write" /\ h \notin stale
        /\ reports[i] \in Report
    BY <2>1 DEF IInv, RcaTypeOK, Writes
  <2>3. CASE InsertReport(h)
    BY <2>1, <2>2, <2>3 DEF IInv, RcaTypeOK, Report, Current, InsertReport
  <2>4. CASE WriteUpdate(h)
    BY <2>1, <2>2, <2>4 DEF IInv, RcaTypeOK, Report, Current, WriteUpdate
  <2>5. CASE WriteSubmit(h)
    BY <2>1, <2>2, <2>5 DEF IInv, RcaTypeOK, Report, Current, WriteSubmit
  <2>6. CASE WriteApprove(h)
    BY <2>1, <2>2, <2>6 DEF IInv, RcaTypeOK, Report, Current, WriteApprove
  <2> QED
    BY <2>1, <2>3, <2>4, <2>5, <2>6
<1> QED
  BY <1>1, Invariance, PTL DEF RcaSpec, OnlyStaleRequestsSkipReview

=============================================================================
