---------------------------- MODULE DemoModeProofs ----------------------------
(***************************************************************************)
(* What demo mode's row keeps for any number of ticks, requests, scenarios *)
(* and phase lengths: its type, what turns a disabled run on again, that   *)
(* it implements the bounded phase machine of module DemoRun, and what a   *)
(* run leaves behind that nothing cut in on.                               *)
(*                                                                         *)
(* The arguments need the same fact: a tick that nobody has overtaken has  *)
(* the row still before it as it read it (SeenIsRow), and a row is only    *)
(* ever acted on when it was read enabled (SeenIsActive).  The last one    *)
(* adds where the run's alert, incident and report are in each phase and   *)
(* after each step of the tick under way (RunInv).                         *)
(***************************************************************************)
EXTENDS DemoMode, TLAPS

\* Where a tick still has to write what it has read.
WillWrite == {"evaluate", "open", "write", "resolve", "create", "submit", "approve", "begin"}

SeenIsRow ==
    \A t \in Ticks : job[t].pc \in WillWrite /\ t \notin stale => job[t].seen = row

SeenIsActive ==
    \A t \in Ticks : job[t].pc # "off" =>
      /\ job[t].seen.enabled
      /\ job[t].seen.phase = "IDLE" => job[t].pc = "begin"
      /\ job[t].pc = "open" => job[t].found.alert \in Alerts

RequestNames ==
    \A h \in Requests : request[h].pc = "begin" => request[h].scenario \in Scenarios

IInv == TypeOK /\ SeenIsRow /\ SeenIsActive /\ RequestNames

-----------------------------------------------------------------------------
(* The row's columns.                                                      *)

LEMMA Bounds ==
    /\ MaxTarget \in Nat /\ 0 \in 0 .. MaxTarget /\ 1 \in 0 .. MaxTarget
    /\ Targets \subseteq 0 .. MaxTarget
  BY DemoAssumption DEF Targets

\* beginScenario resets every column of the run to one of its values.
LEMMA BeginRunType ==
    ASSUME NEW s \in Scenarios, NEW autoLoop \in BOOLEAN, NEW target \in Targets
    PROVE  /\ BeginRun(s, autoLoop, target) \in Row
           /\ BeginRun(s, autoLoop, target).enabled
           /\ BeginRun(s, autoLoop, target).phase = "BASELINE"
  BY Bounds DEF BeginRun, Row, Phase

LEMMA EntersFacts ==
    ASSUME row \in Row, NEW phase \in Phase, NEW target \in 0 .. MaxTarget
    PROVE  /\ Enters(phase, target) \in Row
           /\ Enters(phase, target).enabled = row.enabled
           /\ Enters(phase, target).phase = phase
           /\ \A a \in Alerts \cup {Null} :
                /\ [Enters(phase, target) EXCEPT !.alert = a] \in Row
                /\ [Enters(phase, target) EXCEPT !.alert = a].enabled = row.enabled
                /\ [Enters(phase, target) EXCEPT !.alert = a].phase = phase
  BY Bounds DEF Enters, Row

LEMMA CountsFacts ==
    ASSUME row \in Row, NEW seen \in Row, ~Final(seen)
    PROVE  /\ Counts(seen) \in Row
           /\ Counts(seen).enabled = row.enabled
           /\ Counts(seen).phase = row.phase
  <1>1. seen.ticks \in 0 .. MaxTarget /\ seen.target \in 0 .. MaxTarget
    BY DEF Row
  <1>2. seen.ticks + 1 \in 0 .. MaxTarget
    BY <1>1, Bounds DEF Final
  <1> QED
    BY <1>2 DEF Counts, Row

LEMMA HoldsFacts ==
    ASSUME row \in Row, NEW seen \in Row
    PROVE  /\ [row EXCEPT !.ticks = seen.ticks] \in Row
           /\ [row EXCEPT !.ticks = seen.ticks].enabled = row.enabled
           /\ [row EXCEPT !.ticks = seen.ticks].phase = row.phase
  BY DEF Row

\* A patch never names enabled, and moves the phase from the one that was read
\* to the next one or leaves it.
LEMMA PatchedFacts ==
    ASSUME TypeOK, NEW t \in Ticks, NEW target \in Targets, job[t].seen.phase # "IDLE"
    PROVE  /\ Patched(t, target) \in Row
           /\ Patched(t, target).enabled = row.enabled
           /\ \/ Patched(t, target).phase = row.phase
              \/ Patched(t, target).phase = Run!Successor[job[t].seen.phase]
  <1> DEFINE seen == job[t].seen
  <1>1. row \in Row /\ seen \in Row /\ seen.phase \in Phase
        /\ job[t].found.alert \in Alerts \cup {Null}
        /\ target \in 0 .. MaxTarget /\ 0 \in 0 .. MaxTarget /\ 1 \in 0 .. MaxTarget
    BY Bounds DEF TypeOK, Job, Row, Found
  <1>2. {"DEGRADING", "INCIDENT", "REMEDIATING", "RESOLVED", "RCA_REVIEW", "COOLDOWN", "IDLE"}
          \subseteq Phase
    BY DEF Phase
  <1>3. CASE seen.phase = "BASELINE"
    BY <1>1, <1>2, <1>3, EntersFacts, CountsFacts DEF Patched, Run!Successor
  <1>4. CASE seen.phase = "DEGRADING"
    <2>1. CASE job[t].found.hit
      <3>1. Patched(t, target) =
              [Enters("INCIDENT", target) EXCEPT !.alert = job[t].found.alert]
        BY <1>4, <2>1 DEF Patched
      <3>2. "INCIDENT" \in Phase
        BY <1>2
      <3>3. /\ Patched(t, target) \in Row
            /\ Patched(t, target).enabled = row.enabled
            /\ Patched(t, target).phase = "INCIDENT"
        BY <1>1, <3>1, <3>2, EntersFacts
      <3> QED
        BY <1>4, <3>3 DEF Run!Successor
    <2>2. CASE ~job[t].found.hit /\ Final(seen)
      <3>1. Patched(t, target) = [row EXCEPT !.ticks = seen.ticks]
        BY <1>4, <2>2 DEF Patched
      <3> QED
        BY <1>1, <3>1, HoldsFacts
    <2>3. CASE ~job[t].found.hit /\ ~Final(seen)
      <3>1. Patched(t, target) = Counts(seen)
        BY <1>4, <2>3 DEF Patched
      <3> QED
        BY <1>1, <2>3, <3>1, CountsFacts
    <2> QED
      BY <2>1, <2>2, <2>3
  <1>5. CASE seen.phase = "INCIDENT"
    BY <1>1, <1>2, <1>5, EntersFacts, CountsFacts DEF Patched, Run!Successor
  <1>6. CASE seen.phase = "REMEDIATING"
    BY <1>1, <1>2, <1>6, EntersFacts, CountsFacts DEF Patched, Run!Successor
  <1>7. CASE seen.phase = "RESOLVED"
    BY <1>1, <1>2, <1>7, EntersFacts, CountsFacts DEF Patched, Run!Successor
  <1>8. CASE seen.phase = "RCA_REVIEW"
    BY <1>1, <1>2, <1>8, EntersFacts, CountsFacts DEF Patched, Run!Successor
  <1>9. CASE seen.phase = "COOLDOWN"
    BY <1>1, <1>2, <1>9, EntersFacts, CountsFacts DEF Patched, Run!Successor
  <1> QED
    BY <1>1, <1>3, <1>4, <1>5, <1>6, <1>7, <1>8, <1>9 DEF Phase

-----------------------------------------------------------------------------
(* Every step keeps IInv.                                                  *)

LEMMA Idle == Off \in Job /\ Off.pc = "off" /\ NewRow \in Row /\ NoAlert \in Alert
  BY Bounds DEF Off, Job, NewRow, Row, Phase, Nothing, Found, NoAlert, Alert

LEMMA InitInv == Init => IInv
<1> SUFFICES ASSUME Init PROVE IInv
  OBVIOUS
<1>1. TypeOK
  BY Idle DEF Init, TypeOK, Request, NoRequest
<1>2. SeenIsRow /\ SeenIsActive /\ RequestNames
  BY Idle DEF Init, NoRequest, SeenIsRow, SeenIsActive, RequestNames, WillWrite
<1> QED
  BY <1>1, <1>2 DEF IInv

\* Whoever writes the row makes all others stale that have read it.
LEMMA RowWritten ==
    ASSUME IInv, NEW who \in Ticks \cup Requests, NEW new \in Row, WriteRow(who, new),
           \A t \in Ticks \ {who} : job'[t] = job[t],
           who \in Ticks => job'[who].pc \notin WillWrite
    PROVE  SeenIsRow' /\ row' \in Row /\ stale' \in SUBSET (Ticks \cup Requests)
<1>1. row' \in Row /\ stale' = (stale \cup Busy) \ {who}
  BY DEF WriteRow
<1>2. stale' \in SUBSET (Ticks \cup Requests)
  BY <1>1 DEF IInv, TypeOK, Busy
<1>3. ASSUME NEW t \in Ticks, job'[t].pc \in WillWrite PROVE t \in stale'
  <2>1. t # who /\ job[t].pc \in WillWrite
    BY <1>3
  <2> QED
    BY <1>1, <2>1 DEF Busy, WillWrite
<1> QED
  BY <1>1, <1>2, <1>3 DEF SeenIsRow

\* A step of one tick that leaves the row alone and keeps what it has read.
LEMMA JobStep ==
    ASSUME IInv, NEW t \in Ticks, UNCHANGED <<row, stale, request>>,
           alerts' \in [Alerts -> Alert], disturbed' \in BOOLEAN, overwritten' = overwritten,
           NEW j \in Job, job' = [job EXCEPT ![t] = j],
           \/ j.pc = "off"
           \/ /\ j.seen = job[t].seen
              /\ job[t].pc # "off"
              /\ j.pc \in WillWrite => job[t].pc \in WillWrite
              /\ j.pc # "begin" /\ job[t].pc # "begin"
              /\ j.pc = "open" => j.found.alert \in Alerts
    PROVE  IInv'
<1>0. TypeOK /\ SeenIsRow /\ SeenIsActive /\ RequestNames
  BY DEF IInv
<1>1. job' \in [Ticks -> Job] /\ job'[t] = j /\ \A u \in Ticks \ {t} : job'[u] = job[u]
  BY <1>0 DEF TypeOK
<1>2. TypeOK'
  BY <1>0, <1>1 DEF TypeOK
<1>3. SeenIsRow'
  BY <1>0, <1>1 DEF SeenIsRow, WillWrite
<1>4. SeenIsActive' /\ RequestNames'
  BY <1>0, <1>1 DEF SeenIsActive, RequestNames
<1> QED
  BY <1>2, <1>3, <1>4 DEF IInv

\* What only touches alerts and history.
LEMMA OthersStep ==
    ASSUME IInv, UNCHANGED <<row, job, request, stale, overwritten>>,
           alerts' \in [Alerts -> Alert], disturbed' \in BOOLEAN
    PROVE  IInv'
  BY DEF IInv, TypeOK, SeenIsRow, SeenIsActive, RequestNames

LEMMA RequestInv ==
    ASSUME IInv, NEW h \in Requests, Enable(h) \/ BeginByRequest(h) \/ Disable(h)
    PROVE  IInv'
<1>0. TypeOK /\ SeenIsRow /\ SeenIsActive /\ RequestNames /\ h \notin Ticks
  BY DemoAssumption DEF IInv
<1>1. CASE Enable(h)
  <2>1. PICK s \in Scenarios :
          request' = [request EXCEPT ![h] = [pc |-> "begin", scenario |-> s]]
    BY <1>1 DEF Enable
  <2>2. TypeOK'
    BY <1>0, <1>1, <2>1 DEF Enable, TypeOK, Request
  <2>3. SeenIsRow' /\ SeenIsActive' /\ RequestNames'
    BY <1>0, <1>1, <2>1 DEF Enable, TypeOK, SeenIsRow, SeenIsActive, RequestNames
  <2> QED
    BY <2>2, <2>3 DEF IInv
<1>2. ASSUME NEW new \in Row, WriteRow(h, new), UNCHANGED <<alerts, job>>,
             overwritten' \in BOOLEAN, disturbed' \in BOOLEAN,
             request' \in {request, [request EXCEPT ![h] = NoRequest]}
      PROVE  IInv'
  <2>1. SeenIsRow' /\ row' \in Row /\ stale' \in SUBSET (Ticks \cup Requests)
    BY <1>0, <1>2, RowWritten
  <2>2. request' \in [Requests -> Request]
    BY <1>0, <1>2 DEF TypeOK, Request, NoRequest
  <2>3. TypeOK'
    BY <1>0, <1>2, <2>1, <2>2 DEF TypeOK
  <2>4. SeenIsActive' /\ RequestNames'
    BY <1>0, <1>2 DEF TypeOK, Request, NoRequest, SeenIsActive, RequestNames
  <2> QED
    BY <2>1, <2>3, <2>4 DEF IInv
<1>3. CASE BeginByRequest(h)
  <2>1. PICK target \in Targets, autoLoop \in BOOLEAN :
          WriteRow(h, BeginRun(request[h].scenario, autoLoop, target))
    BY <1>3 DEF BeginByRequest
  <2>2. BeginRun(request[h].scenario, autoLoop, target) \in Row
    BY <1>0, <1>3, BeginRunType DEF BeginByRequest, RequestNames
  <2>3. overwritten' \in BOOLEAN /\ disturbed' \in BOOLEAN
    BY <1>3 DEF BeginByRequest
  <2> QED
    BY <1>2, <1>3, <2>1, <2>2, <2>3 DEF BeginByRequest
<1>4. CASE Disable(h)
  <2>1. [row EXCEPT !.enabled = FALSE, !.phase = "IDLE"] \in Row
    BY <1>0 DEF TypeOK, Row, Phase
  <2> QED
    BY <1>0, <1>2, <1>4, <2>1 DEF Disable, TypeOK
<1> QED
  BY <1>1, <1>3, <1>4

LEMMA ReadRowInv == ASSUME IInv, NEW t \in Ticks, ReadRow(t) PROVE IInv'
<1> DEFINE j == [pc |-> FirstStep(row), seen |-> row, found |-> Nothing]
<1>0. TypeOK /\ SeenIsRow /\ SeenIsActive /\ RequestNames
  BY DEF IInv
<1>1. /\ FirstStep(row) \in {"evaluate", "resolve", "create", "begin", "write"}
      /\ row.phase = "IDLE" => FirstStep(row) = "begin"
  BY DEF FirstStep
<1>2. j \in Job
  BY <1>0, <1>1 DEF TypeOK, Job, Nothing, Found
<1>3. /\ job' = [job EXCEPT ![t] = j] /\ row.enabled /\ stale' = stale \ {t}
      /\ UNCHANGED <<row, alerts, request, overwritten>> /\ disturbed' \in BOOLEAN
  BY <1>0 DEF ReadRow, TypeOK
<1>4. TypeOK'
  BY <1>0, <1>2, <1>3 DEF TypeOK
<1>5. SeenIsRow' /\ SeenIsActive' /\ RequestNames'
  BY <1>0, <1>1, <1>3 DEF TypeOK, SeenIsRow, SeenIsActive, RequestNames
<1> QED
  BY <1>4, <1>5 DEF IInv

LEMMA FreshType == Unused # {} => Fresh \in Alerts
  BY DEF Fresh, Unused

LEMMA FiredType ==
    ASSUME NEW s \in Scenarios \cup {Null}, NEW level
    PROVE  /\ Fired(s, level) \in Alert
           /\ [Fired(s, level) EXCEPT !.incident =
                 IF level \in OpensIncident THEN "OPEN" ELSE "NONE"] \in Alert
  BY Idle DEF Fired, NoAlert, Alert

LEMMA EvaluateInv == ASSUME IInv, NEW t \in Ticks, Evaluate(t) PROVE IInv'
<1> DEFINE Result(a, hit, resolved, pc) ==
             [job[t] EXCEPT !.pc = pc,
                            !.found = [alert |-> a, hit |-> hit, resolved |-> resolved]]
<1>0. /\ TypeOK /\ job[t] \in Job /\ job[t].pc = "evaluate"
      /\ job[t].seen.scenario \in Scenarios \cup {Null}
  BY DEF IInv, TypeOK, Job, Row, Evaluate
<1>1. PICK a \in Alerts \cup {Null}, hit \in BOOLEAN, resolved \in BOOLEAN,
           pc \in {"write", "open"} :
        /\ alerts' \in [Alerts -> Alert]
        /\ pc = "open" => a \in Alerts
        /\ job' = [job EXCEPT ![t].pc = pc,
                     ![t].found = [alert |-> a, hit |-> hit, resolved |-> resolved]]
  <2> DEFINE scenario == job[t].seen.scenario
             Goal == \E a \in Alerts \cup {Null}, hit \in BOOLEAN, resolved \in BOOLEAN,
                        pc \in {"write", "open"} :
                       /\ alerts' \in [Alerts -> Alert]
                       /\ pc = "open" => a \in Alerts
                       /\ job' = [job EXCEPT ![t].pc = pc, ![t].found =
                                   [alert |-> a, hit |-> hit, resolved |-> resolved]]
  <2>0. alerts \in [Alerts -> Alert] /\ FiringOf(scenario) \subseteq Alerts
    BY <1>0 DEF TypeOK, FiringOf
  <2>1. PICK level \in Level(job[t].seen) :
          \/ /\ UNCHANGED alerts
             /\ job' = [job EXCEPT ![t].pc = "write", ![t].found =
                          [alert |-> Null, hit |-> FALSE, resolved |-> FALSE]]
          \/ \E a \in FiringOf(scenario) :
               /\ alerts' = [alerts EXCEPT ![a].state = "RESOLVED"]
               /\ job' = [job EXCEPT ![t].pc = "write", ![t].found =
                            [alert |-> a, resolved |-> TRUE,
                             hit |-> alerts[a].severe /\ alerts[a].incident # "NONE"]]
          \/ \E a \in FiringOf(scenario) :
               /\ alerts' = [alerts EXCEPT ![a].severe = (level = "critical")]
               /\ job' = [job EXCEPT ![t].pc = "write", ![t].found =
                            [alert |-> a, resolved |-> FALSE,
                             hit |-> level = "critical" /\ alerts[a].incident # "NONE"]]
          \/ /\ Unused # {}
             /\ alerts' = [alerts EXCEPT ![Fresh] = Fired(scenario, level)]
             /\ job' = [job EXCEPT ![t].pc = IF level \in OpensIncident THEN "open" ELSE "write",
                                   ![t].found =
                            [alert |-> Fresh, hit |-> FALSE, resolved |-> FALSE]]
    BY DEF Evaluate
  <2>2. CASE /\ UNCHANGED alerts
             /\ job' = [job EXCEPT ![t].pc = "write", ![t].found =
                          [alert |-> Null, hit |-> FALSE, resolved |-> FALSE]]
    BY <2>0, <2>2
  <2>3. ASSUME NEW a \in FiringOf(scenario),
               alerts' = [alerts EXCEPT ![a].state = "RESOLVED"],
               job' = [job EXCEPT ![t].pc = "write", ![t].found =
                            [alert |-> a, resolved |-> TRUE,
                             hit |-> alerts[a].severe /\ alerts[a].incident # "NONE"]]
        PROVE  Goal
    <3>1. alerts' \in [Alerts -> Alert]
      BY <2>0, <2>3 DEF Alert
    <3>2. (alerts[a].severe /\ alerts[a].incident # "NONE") \in BOOLEAN /\ a \in Alerts
      BY <2>0
    <3> QED
      BY <2>3, <3>1, <3>2
  <2>4. ASSUME NEW a \in FiringOf(scenario),
               alerts' = [alerts EXCEPT ![a].severe = (level = "critical")],
               job' = [job EXCEPT ![t].pc = "write", ![t].found =
                            [alert |-> a, resolved |-> FALSE,
                             hit |-> level = "critical" /\ alerts[a].incident # "NONE"]]
        PROVE  Goal
    <3>0. (level = "critical") \in BOOLEAN
      OBVIOUS
    <3>1. ASSUME NEW severe \in BOOLEAN
          PROVE  [alerts EXCEPT ![a].severe = severe] \in [Alerts -> Alert]
      BY <2>0 DEF Alert
    <3>2. alerts' \in [Alerts -> Alert]
      BY <2>4, <3>0, <3>1, Zenon
    <3>3. (level = "critical" /\ alerts[a].incident # "NONE") \in BOOLEAN /\ a \in Alerts
      BY <2>0
    <3> QED
      BY <2>4, <3>2, <3>3
  <2>5. CASE /\ Unused # {}
             /\ alerts' = [alerts EXCEPT ![Fresh] = Fired(scenario, level)]
             /\ job' = [job EXCEPT ![t].pc = IF level \in OpensIncident THEN "open" ELSE "write",
                                   ![t].found =
                            [alert |-> Fresh, hit |-> FALSE, resolved |-> FALSE]]
    <3>1. Fresh \in Alerts /\ Fired(scenario, level) \in Alert
      BY <1>0, <2>5, FreshType, FiredType
    <3>2. alerts' \in [Alerts -> Alert]
      BY <2>0, <2>5, <3>1
    <3>3. (IF level \in OpensIncident THEN "open" ELSE "write") \in {"write", "open"}
      OBVIOUS
    <3> QED
      BY <2>5, <3>1, <3>2, <3>3
  <2> QED
    BY <2>1, <2>2, <2>3, <2>4, <2>5
<1>2. Result(a, hit, resolved, pc) \in Job
  BY <1>0, <1>1 DEF Job, Found
<1>3. job' = [job EXCEPT ![t] = Result(a, hit, resolved, pc)]
  BY <1>0, <1>1 DEF TypeOK
<1>4. /\ UNCHANGED <<row, stale, request>> /\ overwritten' = overwritten
      /\ disturbed' \in BOOLEAN
  BY <1>0 DEF Evaluate, TypeOK
<1>5. /\ Result(a, hit, resolved, pc).seen = job[t].seen
      /\ Result(a, hit, resolved, pc).pc = pc
      /\ Result(a, hit, resolved, pc).found.alert = a
  BY <1>0 DEF Job
<1> HIDE DEF Result
<1> QED
  BY <1>0, <1>1, <1>2, <1>3, <1>4, <1>5, JobStep DEF WillWrite

\* A tick ends, whatever it does to the alerts with its last step.
LEMMA EndInv ==
    ASSUME IInv, NEW t \in Ticks, Done(t), UNCHANGED <<row, request, stale, overwritten>>,
           alerts' \in [Alerts -> Alert], disturbed' \in BOOLEAN
    PROVE  IInv'
  BY Idle, JobStep DEF Done

\* A tick goes on with what it has read.
LEMMA GoesOnInv ==
    ASSUME IInv, NEW t \in Ticks, UNCHANGED <<row, request, stale, overwritten>>,
           NEW next \in {"write", "submit", "approve"},
           job[t].pc \in {"open", "resolve", "create", "submit", "approve"},
           \/ job' = [job EXCEPT ![t].pc = next]
           \/ \E hit \in BOOLEAN : job' = [job EXCEPT ![t].pc = next, ![t].found.hit = hit],
           alerts' \in [Alerts -> Alert], disturbed' \in BOOLEAN
    PROVE  IInv'
<1>0. job \in [Ticks -> Job] /\ job[t] \in Job
  BY DEF IInv, TypeOK
<1>1. PICK j \in Job : /\ job' = [job EXCEPT ![t] = j]
                       /\ j.pc = next /\ j.seen = job[t].seen
  <2>1. CASE job' = [job EXCEPT ![t].pc = next]
    <3> DEFINE j == [job[t] EXCEPT !.pc = next]
    <3>1. j \in Job /\ j.pc = next /\ j.seen = job[t].seen /\ job' = [job EXCEPT ![t] = j]
      BY <1>0, <2>1 DEF Job
    <3> QED
      BY <3>1
  <2>2. ASSUME NEW hit \in BOOLEAN,
               job' = [job EXCEPT ![t].pc = next, ![t].found.hit = hit]
        PROVE  \E j \in Job : /\ job' = [job EXCEPT ![t] = j]
                              /\ j.pc = next /\ j.seen = job[t].seen
    <3> DEFINE j == [job[t] EXCEPT !.pc = next, !.found.hit = hit]
    <3>1. j \in Job /\ j.pc = next /\ j.seen = job[t].seen /\ job' = [job EXCEPT ![t] = j]
      BY <1>0, <2>2 DEF Job, Found
    <3> QED
      BY <3>1
  <2> QED
    BY <2>1, <2>2
<1> QED
  BY <1>1, JobStep DEF WillWrite

LEMMA WritePhaseInv == ASSUME IInv, NEW t \in Ticks, WritePhase(t) PROVE IInv'
<1>0. /\ TypeOK /\ SeenIsRow /\ SeenIsActive /\ RequestNames /\ job[t] \in Job
      /\ job[t].seen.phase # "IDLE"
  BY DEF IInv, TypeOK, SeenIsActive, WritePhase
<1>1. PICK target \in Targets : WriteRow(t, Patched(t, target))
  BY DEF WritePhase
<1>2. Patched(t, target) \in Row
  BY <1>0, PatchedFacts
<1>3. NextStep(t) \in {"acknowledge", "mitigate", "off"}
  BY DEF NextStep
<1>4. PICK j \in Job : /\ job' = [job EXCEPT ![t] = j] /\ j.pc = NextStep(t)
                       /\ j.pc # "off" => j.seen = job[t].seen
  <2>1. CASE NextStep(t) = "off"
    BY <2>1, Idle DEF WritePhase, Done
  <2>2. CASE NextStep(t) # "off"
    <3> DEFINE j == [job[t] EXCEPT !.pc = NextStep(t)]
    <3>1. j \in Job /\ j.pc = NextStep(t) /\ j.seen = job[t].seen
          /\ job' = [job EXCEPT ![t] = j]
      BY <1>0, <1>3, <2>2 DEF WritePhase, Job, TypeOK
    <3> QED
      BY <3>1
  <2> QED
    BY <2>1, <2>2
<1>5. job' \in [Ticks -> Job] /\ job'[t] = j /\ \A u \in Ticks \ {t} : job'[u] = job[u]
  BY <1>0, <1>4 DEF TypeOK
<1>6. SeenIsRow' /\ row' \in Row /\ stale' \in SUBSET (Ticks \cup Requests)
  BY <1>1, <1>2, <1>3, <1>4, <1>5, RowWritten DEF WillWrite
<1>7. TypeOK'
  BY <1>0, <1>5, <1>6 DEF WritePhase, TypeOK
<1>8. SeenIsActive' /\ RequestNames'
  BY <1>0, <1>3, <1>4, <1>5 DEF WritePhase, SeenIsActive, RequestNames
<1> QED
  BY <1>6, <1>7, <1>8 DEF IInv

LEMMA BeginByTickInv == ASSUME IInv, NEW t \in Ticks, BeginByTick(t) PROVE IInv'
<1>0. TypeOK /\ SeenIsActive /\ RequestNames /\ job[t].seen.autoLoop \in BOOLEAN
  BY DEF IInv, TypeOK, Job, Row
<1>1. PICK s \in Candidates(job[t].seen), target \in Targets :
        WriteRow(t, BeginRun(s, job[t].seen.autoLoop, target))
  BY DEF BeginByTick
<1>2. BeginRun(s, job[t].seen.autoLoop, target) \in Row
  BY <1>0, <1>1, BeginRunType DEF Candidates
<1>3. job' = [job EXCEPT ![t] = Off] /\ UNCHANGED <<alerts, request>>
      /\ overwritten' \in BOOLEAN /\ disturbed' \in BOOLEAN
  BY DEF BeginByTick, Done
<1>4. job' \in [Ticks -> Job] /\ job'[t].pc = "off" /\ \A u \in Ticks \ {t} : job'[u] = job[u]
  BY <1>0, <1>3, Idle DEF TypeOK
<1>5. SeenIsRow' /\ row' \in Row /\ stale' \in SUBSET (Ticks \cup Requests)
  BY <1>1, <1>2, <1>4, RowWritten DEF WillWrite
<1>6. TypeOK' /\ SeenIsActive' /\ RequestNames'
  BY <1>0, <1>3, <1>4, <1>5 DEF TypeOK, SeenIsActive, RequestNames
<1> QED
  BY <1>5, <1>6 DEF IInv

LEMMA MoveIncidentType ==
    ASSUME IInv, NEW a, NEW status \in {"ACKNOWLEDGED", "MITIGATED", "RESOLVED"},
           MoveIncident(a, status)
    PROVE  alerts' \in [Alerts -> Alert]
<1>1. \/ alerts' = [alerts EXCEPT ![a].incident = status]
      \/ alerts' = [alerts EXCEPT ![a].incident = alerts[a].incident]
  BY DEF MoveIncident
<1>2. alerts \in [Alerts -> Alert]
  BY DEF IInv, TypeOK
<1> QED
  BY <1>1, <1>2 DEF Alert

LEMMA ReviewInv ==
    ASSUME IInv, NEW t \in Ticks, CreateRca(t) \/ SubmitForReview(t) \/ Approve(t)
    PROVE  IInv'
<1>1. ASSUME NEW pc \in {"create", "submit", "approve"}, NEW from,
             NEW to \in {"DRAFT", "IN_REVIEW", "APPROVED"},
             NEW next \in {"write", "submit", "approve"}, Review(t, pc, from, to, next)
      PROVE  IInv'
  <2>1. \/ alerts' = [alerts EXCEPT ![job[t].seen.alert].rca = to]
        \/ alerts' = alerts
    BY <1>1 DEF Review
  <2>2. alerts \in [Alerts -> Alert] /\ disturbed' \in BOOLEAN
    BY <1>1 DEF Review, IInv, TypeOK
  <2>3. alerts' \in [Alerts -> Alert]
    BY <2>1, <2>2 DEF Alert
  <2>4. \/ job' = [job EXCEPT ![t].pc = next]
        \/ job' = [job EXCEPT ![t].pc = "write"]
    BY <1>1 DEF Review
  <2> QED
    BY <1>1, <2>2, <2>3, <2>4, GoesOnInv DEF Review
<1>2. (IF Reviewer THEN "approve" ELSE "write") \in {"write", "submit", "approve"}
  OBVIOUS
<1> QED
  BY <1>1, <1>2 DEF CreateRca, SubmitForReview, Approve

LEMMA TickInv ==
    ASSUME IInv, NEW t \in Ticks, Advance(t) \/ StepFails(t) \/ FailTick(t)
    PROVE  IInv'
<1>0. alerts \in [Alerts -> Alert] /\ disturbed \in BOOLEAN
  BY DEF IInv, TypeOK
<1>1. CASE OpenIncident(t)
  <2> DEFINE hit == alerts[job[t].found.alert].severe
  <2>1. job[t].found.alert \in Alerts
    BY <1>1 DEF OpenIncident, IInv, SeenIsActive
  <2>2. hit \in BOOLEAN /\ alerts' \in [Alerts -> Alert]
    BY <1>0, <1>1, <2>1 DEF OpenIncident, Alert
  <2>3. job' = [job EXCEPT ![t].pc = "write", ![t].found.hit = hit]
    BY <1>1 DEF OpenIncident
  <2> HIDE DEF hit
  <2> QED
    BY <1>0, <1>1, <2>2, <2>3, GoesOnInv DEF OpenIncident
<1>2. CASE Acknowledge(t)
  BY <1>0, <1>2, MoveIncidentType, EndInv DEF Acknowledge
<1>3. CASE Mitigate(t)
  BY <1>0, <1>3, MoveIncidentType, EndInv DEF Mitigate
<1>4. CASE Resolve(t)
  BY <1>0, <1>4, MoveIncidentType, GoesOnInv DEF Resolve
<1>5. CASE StepFails(t)
  BY <1>0, <1>5, EndInv, GoesOnInv DEF StepFails, Tried
<1>6. CASE FailTick(t)
  BY <1>0, <1>6, EndInv DEF FailTick
<1> QED
  BY <1>1, <1>2, <1>3, <1>4, <1>5, <1>6, ReadRowInv, EvaluateInv, WritePhaseInv,
     BeginByTickInv, ReviewInv DEF Advance

LEMMA SurroundingsInv == ASSUME IInv, Surroundings PROVE IInv'
<1>0. alerts \in [Alerts -> Alert]
  BY DEF IInv, TypeOK
<1>1. ASSUME NEW a \in Alerts, NEW status \in {"ACKNOWLEDGED", "RESOLVED"},
             PersonMovesIncident(a, status)
      PROVE  IInv'
  <2>1. alerts' \in [Alerts -> Alert]
    BY <1>1, MoveIncidentType DEF PersonMovesIncident
  <2> QED
    BY <1>1, <2>1, OthersStep DEF PersonMovesIncident
<1>2. ASSUME NEW a \in Alerts, PersonTakesAlert(a) PROVE IInv'
  <2>1. alerts' \in [Alerts -> Alert]
    BY <1>0, <1>2 DEF PersonTakesAlert, Alert
  <2> QED
    BY <1>2, <2>1, OthersStep DEF PersonTakesAlert
<1>3. ASSUME NEW s \in Scenarios, NEW level \in Breach, OtherSample(s, level)
      PROVE  IInv'
  <2>1. Fresh \in Alerts
    BY <1>3, FreshType DEF OtherSample
  <2>2. alerts' \in [Alerts -> Alert]
    BY <1>0, <1>3, <2>1, FiredType DEF OtherSample
  <2> QED
    BY <1>3, <2>2, OthersStep DEF OtherSample
<1> QED
  BY <1>1, <1>2, <1>3 DEF Surroundings

LEMMA StepInv == IInv /\ [Next]_vars => IInv'
<1> SUFFICES ASSUME IInv, [Next]_vars PROVE IInv'
  OBVIOUS
<1>1. CASE UNCHANGED vars
  BY <1>1 DEF vars, IInv, TypeOK, SeenIsRow, SeenIsActive, RequestNames
<1> QED
  BY <1>1, RequestInv, TickInv, SurroundingsInv DEF Next

LEMMA Inductive == Spec => []IInv
  BY InitInv, StepInv, PTL DEF Spec

-----------------------------------------------------------------------------

\* The row, the alerts and everything under way keep their types, for any number
\* of ticks and requests; ticksInPhase never passes the longest phase.
THEOREM TypeCorrect == Spec => []TypeOK
  BY Inductive, PTL DEF IInv

\* What DisableHolds allows to turn a run on.
TurnedOn ==
    \/ \E h \in Requests : request[h].pc = "begin" /\ request'[h].pc = "idle"
    \/ \E t \in Ticks \cap stale : job[t].pc = "begin" /\ job'[t].pc = "off"

LEMMA EnabledStep ==
    ASSUME IInv, [Next]_vars, ~row.enabled, row'.enabled
    PROVE  TurnedOn
<1>0. TypeOK /\ SeenIsRow /\ SeenIsActive
  BY DEF IInv
<1>1. ASSUME NEW h \in Requests, BeginByRequest(h) PROVE TurnedOn
  BY <1>0, <1>1 DEF BeginByRequest, TurnedOn, TypeOK, Request, NoRequest
<1>2. ASSUME NEW h \in Requests, Disable(h) PROVE FALSE
  BY <1>0, <1>2 DEF Disable, WriteRow, TypeOK, Row
<1>3. ASSUME NEW t \in Ticks, WritePhase(t) PROVE FALSE
  <2>1. job[t].seen.phase # "IDLE"
    BY <1>0, <1>3 DEF SeenIsActive, WritePhase
  <2>2. PICK target \in Targets : row' = Patched(t, target)
    BY <1>3 DEF WritePhase, WriteRow
  <2> QED
    BY <1>0, <2>1, <2>2, PatchedFacts
<1>4. ASSUME NEW t \in Ticks, BeginByTick(t) PROVE TurnedOn
  <2>1. t \in stale
    BY <1>0, <1>4 DEF SeenIsRow, SeenIsActive, BeginByTick, WillWrite
  <2>2. job'[t].pc = "off"
    BY <1>0, <1>4, Idle DEF BeginByTick, Done, TypeOK
  <2> QED
    BY <1>4, <2>1, <2>2 DEF BeginByTick, TurnedOn
<1>5. ASSUME UNCHANGED row PROVE FALSE
  BY <1>5
<1> QED
  BY <1>1, <1>2, <1>3, <1>4, <1>5
     DEF Next, vars, Enable, Advance, ReadRow, Evaluate, OpenIncident, Acknowledge, Mitigate,
         Resolve, CreateRca, SubmitForReview, Approve, Review, StepFails, FailTick,
         Surroundings, PersonMovesIncident, PersonTakesAlert, OtherSample

\* Only a request, or a tick of the auto-loop that has read the row before it was
\* turned off, turns demo mode on again (DemoModeService.disable).
THEOREM DisableHoldsAlways == Spec => DisableHolds
<1>1. IInv /\ [Next]_vars => [~row.enabled /\ row'.enabled => TurnedOn]_vars
  BY EnabledStep
<1> QED
  BY <1>1, Inductive, PTL DEF Spec, DisableHolds, TurnedOn

-----------------------------------------------------------------------------
(* The refinement.                                                         *)

LEMMA PhaseStep ==
    ASSUME IInv, NEW t \in Ticks, WritePhase(t)
    PROVE  [Run!Next]_(Run!vars)
<1>0. TypeOK /\ SeenIsRow /\ SeenIsActive /\ job[t].pc = "write"
  BY DEF IInv, WritePhase
<1>1. job[t].seen.phase # "IDLE" /\ job[t].seen.enabled
  BY <1>0 DEF SeenIsActive
<1>2. PICK target \in Targets : row' = Patched(t, target)
  BY DEF WritePhase, WriteRow
<1>3. /\ row'.enabled = row.enabled /\ row'.phase \in Phase
      /\ row'.phase = row.phase \/ row'.phase = Run!Successor[job[t].seen.phase]
  BY <1>0, <1>1, <1>2, PatchedFacts DEF Row
<1>4. CASE overwritten'
  BY <1>3, <1>4 DEF Run!Next, Run!Tear, Run!Phase, Phase
<1>5. CASE ~overwritten'
  <2>1. t \notin stale /\ ~overwritten /\ overwritten' = overwritten
    BY <1>0, <1>5 DEF WritePhase, TypeOK
  <2>2. job[t].seen = row
    BY <1>0, <2>1 DEF SeenIsRow, WillWrite
  <2> QED
    BY <1>1, <1>3, <2>1, <2>2 DEF Run!Next, Run!Advance, Run!vars
<1> QED
  BY <1>4, <1>5

LEMMA StepImplements == IInv /\ [Next]_vars => [Run!Next]_(Run!vars)
<1> SUFFICES ASSUME IInv, [Next]_vars PROVE [Run!Next]_(Run!vars)
  OBVIOUS
<1>0. TypeOK /\ RequestNames
  BY DEF IInv
<1>1. ASSUME NEW h \in Requests, BeginByRequest(h) PROVE Run!Begin
  <2>1. PICK target \in Targets, autoLoop \in BOOLEAN :
          row' = BeginRun(request[h].scenario, autoLoop, target)
    BY <1>1 DEF BeginByRequest, WriteRow
  <2> QED
    BY <1>0, <1>1, <2>1, BeginRunType DEF BeginByRequest, RequestNames, Run!Begin
<1>2. ASSUME NEW h \in Requests, Disable(h) PROVE Run!Disable
  BY <1>0, <1>2 DEF Disable, WriteRow, TypeOK, Row, Run!Disable
<1>3. ASSUME NEW t \in Ticks, BeginByTick(t) PROVE Run!Begin
  <2>1. PICK s \in Candidates(job[t].seen), target \in Targets :
          row' = BeginRun(s, job[t].seen.autoLoop, target)
    BY <1>3 DEF BeginByTick, WriteRow
  <2>2. s \in Scenarios /\ job[t].seen.autoLoop \in BOOLEAN
    BY <1>0 DEF Candidates, TypeOK, Job, Row
  <2> QED
    BY <1>3, <2>1, <2>2, BeginRunType DEF BeginByTick, Run!Begin
<1>4. ASSUME UNCHANGED <<row, overwritten>> PROVE UNCHANGED Run!vars
  BY <1>4 DEF Run!vars
<1> QED
  BY <1>1, <1>2, <1>3, <1>4, PhaseStep
     DEF Next, vars, Enable, Advance, ReadRow, Evaluate, OpenIncident, Acknowledge, Mitigate,
         Resolve, CreateRca, SubmitForReview, Approve, Review, StepFails, FailTick,
         Surroundings, PersonMovesIncident, PersonTakesAlert, OtherSample, Run!Next

\* Demo mode implements the bounded phase machine it promises: however ticks,
\* requests and failures interleave, phases are taken in order until a stale tick
\* writes.
THEOREM RunImplemented == Spec => ImplementsRun
<1>1. Init => Run!Init
  BY DEF Init, NewRow, Run!Init
<1> QED
  BY <1>1, StepImplements, Inductive, PTL DEF Spec, ImplementsRun, Run!Spec


-----------------------------------------------------------------------------
(* The run that nothing disturbs.  Its one tick at a time is the only      *)
(* actor: what its alert, incident and report are at follows from the      *)
(* phase, and from how far the tick under way has come.                    *)

OneTick ==
    \A t, u \in Ticks : job[t].pc # "off" /\ job[u].pc # "off" => t = u

\* Every sample reads the alert that fires at its rule before it starts one.
OneFiring ==
    \A a, b \in Alerts :
      /\ alerts[a].state = "FIRING" /\ alerts[b].state = "FIRING"
      /\ alerts[a].scenario = alerts[b].scenario
      => a = b

Silent(scenario) ==
    \A a \in Alerts : ~(alerts[a].state = "FIRING" /\ alerts[a].scenario = scenario)

\* Alert a is one of the run's rule, with these statuses.
Has(a, state, incident, rca) ==
    /\ a \in Alerts
    /\ alerts[a].scenario = row.scenario
    /\ alerts[a].state = state
    /\ alerts[a].incident = incident
    /\ alerts[a].rca = rca

\* The report as far as it gets: without a second commander nobody approves it.
Reviewed == IF Reviewer THEN "APPROVED" ELSE "IN_REVIEW"

\* Before the tick of a phase has done anything.
Between ==
    /\ row.phase = "DEGRADING" => Silent(row.scenario)
    /\ row.phase = "INCIDENT" => Has(row.alert, "FIRING", "ACKNOWLEDGED", "NONE")
    /\ row.phase = "REMEDIATING" => Has(row.alert, "FIRING", "MITIGATED", "NONE")
    /\ row.phase = "RESOLVED" => Has(row.alert, "RESOLVED", "MITIGATED", "NONE")
    /\ row.phase = "RCA_REVIEW" => Has(row.alert, "RESOLVED", "RESOLVED", "NONE")
    /\ row.phase = "COOLDOWN" => Has(row.alert, "RESOLVED", "RESOLVED", Reviewed)

\* Tick t, at pc, has taken its sample.
Sampled(pc, found) ==
    \/ /\ row.phase = "BASELINE" /\ pc = "write"
       /\ Silent(row.scenario)
    \/ /\ row.phase = "DEGRADING" /\ pc = "open"
       /\ Has(found.alert, "FIRING", "NONE", "NONE") /\ alerts[found.alert].severe
    \/ /\ row.phase = "DEGRADING" /\ pc = "write" /\ found.hit
       /\ Has(found.alert, "FIRING", "OPEN", "NONE")
    \/ /\ row.phase = "DEGRADING" /\ pc = "write" /\ ~found.hit
       /\ Silent(row.scenario)
    \/ /\ row.phase = "INCIDENT" /\ pc = "write"
       /\ Has(row.alert, "FIRING", "ACKNOWLEDGED", "NONE")
    \/ /\ row.phase = "REMEDIATING" /\ pc = "write"
       /\ found.resolved /\ found.alert = row.alert
       /\ Has(row.alert, "RESOLVED", "MITIGATED", "NONE")
    \/ /\ row.phase = "REMEDIATING" /\ pc = "write"
       /\ ~found.resolved /\ ~Final(row)
       /\ Has(row.alert, "FIRING", "MITIGATED", "NONE")

\* It has resolved the incident, or is drafting the report.
Handled(pc) ==
    \/ /\ row.phase = "RESOLVED" /\ pc = "write"
       /\ Has(row.alert, "RESOLVED", "RESOLVED", "NONE")
    \/ /\ row.phase = "RCA_REVIEW" /\ Final(row) /\ pc = "submit"
       /\ Has(row.alert, "RESOLVED", "RESOLVED", "DRAFT")
    \/ /\ row.phase = "RCA_REVIEW" /\ Final(row) /\ pc = "approve" /\ Reviewer
       /\ Has(row.alert, "RESOLVED", "RESOLVED", "IN_REVIEW")
    \/ /\ row.phase = "RCA_REVIEW" /\ Final(row) /\ pc = "write"
       /\ Has(row.alert, "RESOLVED", "RESOLVED", Reviewed)

\* It has moved the row on, and the incident is to follow.
Following(t) ==
    \/ /\ row.phase = "INCIDENT" /\ job[t].pc = "acknowledge"
       /\ job[t].found.alert = row.alert
       /\ Has(row.alert, "FIRING", "OPEN", "NONE")
    \/ /\ row.phase = "REMEDIATING" /\ job[t].pc = "mitigate"
       /\ job[t].seen.alert = row.alert
       /\ Has(row.alert, "FIRING", "ACKNOWLEDGED", "NONE")

\* It is where it got to with the row as it is.
UnderWay(t) ==
    /\ t \notin stale /\ job[t].seen = row
    /\ \/ job[t].pc = FirstStep(row) /\ Between
       \/ Sampled(job[t].pc, job[t].found)
       \/ Handled(job[t].pc)

AllOff == \A t \in Ticks : job[t].pc = "off"

OnCourse ==
    /\ AllOff => Between
    /\ \A t \in Ticks : job[t].pc # "off" => Following(t) \/ UnderWay(t)

Undisturbed == ~disturbed => OneTick /\ (row.phase # "IDLE" => OnCourse)

RunInv == OneFiring /\ Undisturbed

-----------------------------------------------------------------------------
(* What may fire.                                                          *)

\* No alert is set firing that was not.
NothingFires ==
    \A a \in Alerts : alerts'[a].state = "FIRING" =>
      alerts[a].state = "FIRING" /\ alerts'[a].scenario = alerts[a].scenario

\* An alert is set firing at a rule at which none was.
OneFires(s, x) ==
    /\ Silent(s)
    /\ \A a \in Alerts : a # x /\ alerts'[a].state = "FIRING" =>
         alerts[a].state = "FIRING" /\ alerts'[a].scenario = alerts[a].scenario
    /\ alerts'[x].scenario = s

LEMMA OneFiringKept ==
    ASSUME OneFiring, \/ NothingFires
                      \/ \E s, x : OneFires(s, x)
    PROVE  OneFiring'
  BY DEF OneFiring, NothingFires, OneFires, Silent

\* The alerts but x are as they were; of x, what a step leaves alone.
Others(x) == \A a \in Alerts \ {x} : alerts'[a] = alerts[a]

LEMMA MoveFacts ==
    ASSUME TypeOK, NEW x \in Alerts, NEW status, MoveIncident(x, status)
    PROVE  /\ Others(x)
           /\ alerts'[x].state = alerts[x].state
           /\ alerts'[x].scenario = alerts[x].scenario
           /\ alerts'[x].rca = alerts[x].rca
           /\ <<alerts[x].incident, status>> \in Moves => alerts'[x].incident = status
<1>1. \/ /\ <<alerts[x].incident, status>> \in Moves
         /\ alerts' = [alerts EXCEPT ![x].incident = status]
      \/ /\ <<alerts[x].incident, status>> \notin Moves
         /\ alerts' = [alerts EXCEPT ![x].incident = alerts[x].incident]
  BY DEF MoveIncident
<1>2. alerts \in [Alerts -> Alert]
  BY DEF TypeOK
<1> QED
  BY <1>1, <1>2 DEF Others, Alert

\* One of two moves keeps every alert but the incident's status.
LEMMA MoveFires ==
    ASSUME TypeOK, NEW x, NEW status, MoveIncident(x, status)
    PROVE  NothingFires
<1>1. \E status2 : alerts' = [alerts EXCEPT ![x].incident = status2]
  BY DEF MoveIncident
<1>2. alerts \in [Alerts -> Alert]
  BY DEF TypeOK
<1> QED
  BY <1>1, <1>2 DEF NothingFires, Alert

-----------------------------------------------------------------------------
(* What evaluating a sample does.                                          *)

Firing(a, s) == a \in Alerts /\ alerts[a].state = "FIRING" /\ alerts[a].scenario = s

\* Nothing fires and nothing breaches.
StaysSilent(t, level) ==
    /\ level = "healthy" /\ Silent(job[t].seen.scenario)
    /\ alerts' = alerts
    /\ job'[t].pc = "write" /\ ~job'[t].found.hit /\ ~job'[t].found.resolved

\* The alert that fires is resolved.
Recovers(t, level, a) ==
    /\ level = "healthy" /\ Firing(a, job[t].seen.scenario)
    /\ Others(a)
    /\ alerts'[a].state = "RESOLVED" /\ alerts'[a].scenario = alerts[a].scenario
    /\ alerts'[a].incident = alerts[a].incident /\ alerts'[a].rca = alerts[a].rca
    /\ job'[t].pc = "write" /\ job'[t].found.alert = a /\ job'[t].found.resolved

\* The alert that fires goes on.
Persists(t, level, a) ==
    /\ level # "healthy" /\ Firing(a, job[t].seen.scenario)
    /\ Others(a)
    /\ alerts'[a].state = "FIRING" /\ alerts'[a].scenario = alerts[a].scenario
    /\ alerts'[a].incident = alerts[a].incident /\ alerts'[a].rca = alerts[a].rca
    /\ job'[t].pc = "write" /\ job'[t].found.alert = a /\ ~job'[t].found.resolved

\* An alert starts to fire.
Starts(t, level, a) ==
    /\ level # "healthy" /\ Silent(job[t].seen.scenario)
    /\ a \in Alerts /\ Others(a)
    /\ alerts'[a].state = "FIRING" /\ alerts'[a].scenario = job[t].seen.scenario
    /\ alerts'[a].incident = "NONE" /\ alerts'[a].rca = "NONE"
    /\ alerts'[a].severe = (level = "critical")
    /\ job'[t].pc = (IF level \in OpensIncident THEN "open" ELSE "write")
    /\ job'[t].found.alert = a

LEMMA EvaluateOutcome ==
    ASSUME TypeOK, NEW t \in Ticks, Evaluate(t)
    PROVE  /\ \A u \in Ticks \ {t} : job'[u] = job[u]
           /\ job'[t].seen = job[t].seen
           /\ UNCHANGED <<row, request, stale, overwritten, disturbed>>
           /\ \E level \in Level(job[t].seen) :
                \/ StaysSilent(t, level)
                \/ \E a \in Alerts : \/ Recovers(t, level, a)
                                     \/ Persists(t, level, a)
                                     \/ Starts(t, level, a)
<1> DEFINE s == job[t].seen.scenario
           Return(a, hit, resolved, pc) ==
             job' = [job EXCEPT ![t].pc = pc,
                                ![t].found = [alert |-> a, hit |-> hit, resolved |-> resolved]]
<1>0. /\ alerts \in [Alerts -> Alert] /\ job \in [Ticks -> Job] /\ job[t] \in Job
      /\ \A a : a \in FiringOf(s) <=> Firing(a, s)
  BY DEF TypeOK, FiringOf, Firing
<1>1. ASSUME NEW a, NEW hit, NEW resolved, NEW pc, Return(a, hit, resolved, pc)
      PROVE  /\ \A u \in Ticks \ {t} : job'[u] = job[u]
             /\ job'[t].seen = job[t].seen /\ job'[t].pc = pc
             /\ job'[t].found.alert = a /\ job'[t].found.hit = hit
             /\ job'[t].found.resolved = resolved
  BY <1>0, <1>1 DEF Job
<1> HIDE DEF s, Return
<1>2. /\ UNCHANGED <<row, request, stale, overwritten, disturbed>>
      /\ \E level \in Level(job[t].seen) :
         \/ /\ FiringOf(s) = {} /\ level = "healthy"
            /\ Return(Null, FALSE, FALSE, "write")
            /\ UNCHANGED alerts
         \/ \E a \in FiringOf(s) :
              /\ level = "healthy"
              /\ alerts' = [alerts EXCEPT ![a].state = "RESOLVED"]
              /\ Return(a, alerts[a].severe /\ alerts[a].incident # "NONE", TRUE, "write")
         \/ \E a \in FiringOf(s) :
              /\ level # "healthy"
              /\ alerts' = [alerts EXCEPT ![a].severe = (level = "critical")]
              /\ Return(a, level = "critical" /\ alerts[a].incident # "NONE", FALSE, "write")
         \/ /\ FiringOf(s) = {} /\ level # "healthy" /\ Unused # {}
            /\ alerts' = [alerts EXCEPT ![Fresh] = Fired(s, level)]
            /\ Return(Fresh, FALSE, FALSE, IF level \in OpensIncident THEN "open" ELSE "write")
  BY DEF Evaluate, s, Return
<1>3. PICK level \in Level(job[t].seen) :
         \/ /\ FiringOf(s) = {} /\ level = "healthy"
            /\ Return(Null, FALSE, FALSE, "write")
            /\ UNCHANGED alerts
         \/ \E a \in FiringOf(s) :
              /\ level = "healthy"
              /\ alerts' = [alerts EXCEPT ![a].state = "RESOLVED"]
              /\ Return(a, alerts[a].severe /\ alerts[a].incident # "NONE", TRUE, "write")
         \/ \E a \in FiringOf(s) :
              /\ level # "healthy"
              /\ alerts' = [alerts EXCEPT ![a].severe = (level = "critical")]
              /\ Return(a, level = "critical" /\ alerts[a].incident # "NONE", FALSE, "write")
         \/ /\ FiringOf(s) = {} /\ level # "healthy" /\ Unused # {}
            /\ alerts' = [alerts EXCEPT ![Fresh] = Fired(s, level)]
            /\ Return(Fresh, FALSE, FALSE, IF level \in OpensIncident THEN "open" ELSE "write")
  BY <1>2
<1>4. CASE /\ FiringOf(s) = {} /\ level = "healthy"
           /\ Return(Null, FALSE, FALSE, "write")
           /\ UNCHANGED alerts
  <2>1. StaysSilent(t, level)
    BY <1>0, <1>1, <1>4 DEF StaysSilent, Silent, Firing, s
  <2> QED
    BY <1>1, <1>2, <1>4, <2>1
<1>5. ASSUME NEW a \in FiringOf(s), level = "healthy",
             alerts' = [alerts EXCEPT ![a].state = "RESOLVED"],
             Return(a, alerts[a].severe /\ alerts[a].incident # "NONE", TRUE, "write")
      PROVE  /\ Recovers(t, level, a) /\ a \in Alerts
             /\ \A u \in Ticks \ {t} : job'[u] = job[u]
             /\ job'[t].seen = job[t].seen
  <2>1. /\ \A u \in Ticks \ {t} : job'[u] = job[u]
        /\ job'[t].seen = job[t].seen
        /\ job'[t].pc = "write" /\ job'[t].found.alert = a /\ job'[t].found.resolved
    BY <1>1, <1>5
  <2>2. /\ Firing(a, s) /\ a \in Alerts /\ Others(a)
        /\ alerts'[a].state = "RESOLVED" /\ alerts'[a].scenario = alerts[a].scenario
        /\ alerts'[a].incident = alerts[a].incident /\ alerts'[a].rca = alerts[a].rca
    BY <1>0, <1>5 DEF Others, Firing, Alert
  <2> QED
    BY <1>5, <2>1, <2>2 DEF Recovers, s
<1>6. ASSUME NEW a \in FiringOf(s), level # "healthy",
             alerts' = [alerts EXCEPT ![a].severe = (level = "critical")],
             Return(a, level = "critical" /\ alerts[a].incident # "NONE", FALSE, "write")
      PROVE  /\ Persists(t, level, a) /\ a \in Alerts
             /\ \A u \in Ticks \ {t} : job'[u] = job[u]
             /\ job'[t].seen = job[t].seen
  <2>1. /\ \A u \in Ticks \ {t} : job'[u] = job[u]
        /\ job'[t].seen = job[t].seen
        /\ job'[t].pc = "write" /\ job'[t].found.alert = a /\ ~job'[t].found.resolved
    BY <1>1, <1>6
  <2>2. ASSUME NEW severe, alerts' = [alerts EXCEPT ![a].severe = severe]
        PROVE  /\ Firing(a, s) /\ a \in Alerts /\ Others(a)
               /\ alerts'[a].state = "FIRING" /\ alerts'[a].scenario = alerts[a].scenario
               /\ alerts'[a].incident = alerts[a].incident /\ alerts'[a].rca = alerts[a].rca
    BY <1>0, <2>2 DEF Others, Firing, Alert
  <2>3. /\ Firing(a, s) /\ a \in Alerts /\ Others(a)
        /\ alerts'[a].state = "FIRING" /\ alerts'[a].scenario = alerts[a].scenario
        /\ alerts'[a].incident = alerts[a].incident /\ alerts'[a].rca = alerts[a].rca
    BY <1>6, <2>2, Zenon
  <2> QED
    BY <1>6, <2>1, <2>3 DEF Persists, s
<1>7. ASSUME FiringOf(s) = {}, level # "healthy", Unused # {},
             alerts' = [alerts EXCEPT ![Fresh] = Fired(s, level)],
             Return(Fresh, FALSE, FALSE, IF level \in OpensIncident THEN "open" ELSE "write")
      PROVE  /\ Starts(t, level, Fresh) /\ Fresh \in Alerts
             /\ \A u \in Ticks \ {t} : job'[u] = job[u]
             /\ job'[t].seen = job[t].seen
  <2>1. /\ \A u \in Ticks \ {t} : job'[u] = job[u]
        /\ job'[t].seen = job[t].seen /\ job'[t].found.alert = Fresh
        /\ job'[t].pc = (IF level \in OpensIncident THEN "open" ELSE "write")
    BY <1>1, <1>7
  <2>2. Fresh \in Alerts /\ Silent(s)
    BY <1>0, <1>7, FreshType DEF Silent, Firing
  <2>3. Others(Fresh) /\ alerts'[Fresh] = Fired(s, level)
    BY <1>0, <1>7, <2>2 DEF Others
  <2>4. /\ Fired(s, level).state = "FIRING" /\ Fired(s, level).scenario = s
        /\ Fired(s, level).incident = "NONE" /\ Fired(s, level).rca = "NONE"
        /\ Fired(s, level).severe = (level = "critical")
    BY DEF Fired, NoAlert
  <2> QED
    BY <1>7, <2>1, <2>2, <2>3, <2>4, Zenon DEF Starts, s
<1> QED
  BY <1>2, <1>3, <1>4, <1>5, <1>6, <1>7

LEMMA EvaluateFires ==
    ASSUME TypeOK, OneFiring, NEW t \in Ticks, Evaluate(t)
    PROVE  OneFiring'
<1>1. PICK level \in Level(job[t].seen) :
        \/ StaysSilent(t, level)
        \/ \E a \in Alerts : \/ Recovers(t, level, a)
                             \/ Persists(t, level, a)
                             \/ Starts(t, level, a)
  BY EvaluateOutcome
<1>2. CASE StaysSilent(t, level)
  BY <1>2, OneFiringKept DEF StaysSilent, NothingFires
<1>3. ASSUME NEW a \in Alerts, Recovers(t, level, a) \/ Persists(t, level, a)
      PROVE  NothingFires
  BY <1>3 DEF Recovers, Persists, NothingFires, Others, Firing
<1>4. ASSUME NEW a \in Alerts, Starts(t, level, a)
      PROVE  OneFires(job[t].seen.scenario, a)
  BY <1>4 DEF Starts, OneFires, Others
<1> QED
  BY <1>1, <1>2, <1>3, <1>4, OneFiringKept

LEMMA SampleFires ==
    ASSUME TypeOK, OneFiring, NEW s \in Scenarios, NEW level \in Breach, OtherSample(s, level)
    PROVE  OneFiring'
<1> DEFINE new == [Fired(s, level) EXCEPT !.incident =
                     IF level \in OpensIncident THEN "OPEN" ELSE "NONE"]
<1>1. Fresh \in Alerts /\ Silent(s)
  BY FreshType DEF OtherSample, FiringOf, Silent
<1>2. new.scenario = s
  BY DEF Fired, NoAlert
<1>3. alerts' = [alerts EXCEPT ![Fresh] = new] /\ alerts \in [Alerts -> Alert]
  BY DEF OtherSample, TypeOK
<1> HIDE DEF new
<1>4. OneFires(s, Fresh)
  BY <1>1, <1>2, <1>3 DEF OneFires
<1> QED
  BY <1>4, OneFiringKept

LEMMA OneFiringStep ==
    ASSUME IInv, OneFiring, [Next]_vars
    PROVE  OneFiring'
<1>0. TypeOK /\ alerts \in [Alerts -> Alert]
  BY DEF IInv, TypeOK
<1>1. ASSUME UNCHANGED alerts PROVE OneFiring'
  BY <1>1, OneFiringKept DEF NothingFires
<1>2. ASSUME NEW x, NEW status, MoveIncident(x, status) PROVE OneFiring'
  BY <1>0, <1>2, MoveFires, OneFiringKept
<1>3. ASSUME NEW t \in Ticks, OpenIncident(t) PROVE OneFiring'
  <2>1. alerts' = [alerts EXCEPT ![job[t].found.alert].incident = "OPEN"]
    BY <1>3 DEF OpenIncident
  <2>2. NothingFires
    BY <1>0, <2>1 DEF NothingFires, Alert
  <2> QED
    BY <2>2, OneFiringKept
<1>4. ASSUME NEW t, NEW pc, NEW from, NEW to, NEW next, Review(t, pc, from, to, next)
      PROVE  OneFiring'
  <2>1. \/ alerts' = [alerts EXCEPT ![job[t].seen.alert].rca = to]
        \/ alerts' = alerts
    BY <1>4 DEF Review
  <2>2. NothingFires
    BY <1>0, <2>1 DEF NothingFires, Alert
  <2> QED
    BY <2>2, OneFiringKept
<1>5. ASSUME NEW a \in Alerts, PersonTakesAlert(a) PROVE OneFiring'
  <2>1. NothingFires
    BY <1>0, <1>5 DEF PersonTakesAlert, NothingFires, Alert
  <2> QED
    BY <2>1, OneFiringKept
<1>6. ASSUME NEW t \in Ticks, Advance(t) PROVE OneFiring'
  BY <1>0, <1>1, <1>2, <1>3, <1>4, <1>6, EvaluateFires
     DEF Advance, ReadRow, WritePhase, BeginByTick, Acknowledge, Mitigate, Resolve,
         CreateRca, SubmitForReview, Approve
<1> QED
  BY <1>0, <1>1, <1>2, <1>5, <1>6, SampleFires
     DEF Next, vars, Enable, BeginByRequest, Disable, StepFails, FailTick, Surroundings,
         PersonMovesIncident

-----------------------------------------------------------------------------
(* What stays on course.                                                   *)

LEMMA AloneAtWork ==
    ASSUME Undisturbed, ~disturbed, NEW t \in Ticks, job[t].pc # "off"
    PROVE  \A u \in Ticks \ {t} : job[u].pc = "off"
  BY DEF Undisturbed, OneTick

\* A step of the tick under way: what has to be shown.
LEMMA TickKeeps ==
    ASSUME Undisturbed, ~disturbed, NEW t \in Ticks, job[t].pc # "off",
           \A u \in Ticks \ {t} : job'[u] = job[u],
           row'.phase # "IDLE" =>
             IF job'[t].pc = "off" THEN Between' ELSE Following(t)' \/ UnderWay(t)'
    PROVE  Undisturbed'
<1>1. \A u \in Ticks \ {t} : job'[u].pc = "off"
  BY AloneAtWork
<1>2. OneTick'
  BY <1>1 DEF OneTick
<1>3. ASSUME row'.phase # "IDLE" PROVE OnCourse'
  BY <1>1, <1>3, Zenon DEF OnCourse, AllOff
<1> QED
  BY <1>2, <1>3 DEF Undisturbed

\* Whoever begins a run with nobody else at work begins it on course.
LEMMA BeginKeeps ==
    ASSUME \A t \in Ticks : job'[t].pc = "off", row'.phase = "BASELINE"
    PROVE  Undisturbed'
  BY DEF Undisturbed, OneTick, OnCourse, AllOff, Between

LEMMA ReadOnCourse ==
    ASSUME IInv, Undisturbed, NEW t \in Ticks, ReadRow(t)
    PROVE  Undisturbed'
<1> SUFFICES ASSUME ~disturbed' PROVE Undisturbed'
  BY DEF Undisturbed
<1>0. TypeOK
  BY DEF IInv
<1>1. ~disturbed /\ \A u \in Ticks : job[u].pc = "off"
  BY DEF ReadRow
<1>2. /\ \A u \in Ticks \ {t} : job'[u] = job[u]
      /\ job'[t].pc = FirstStep(row) /\ job'[t].seen = row
      /\ row' = row /\ alerts' = alerts /\ t \notin stale'
  BY <1>0 DEF ReadRow, TypeOK
<1>3. OneTick'
  BY <1>1, <1>2 DEF OneTick
<1>4. ASSUME row'.phase # "IDLE" PROVE OnCourse'
  <2>1. Between
    BY <1>1, <1>2, <1>4 DEF Undisturbed, OnCourse, AllOff
  <2>2. Between'
    BY <1>2, <2>1 DEF Between, Has, Silent
  <2>3. FirstStep(row) # "off" /\ FirstStep(row)' = FirstStep(row)
    BY <1>2 DEF FirstStep, Final
  <2>4. UnderWay(t)'
    BY <1>2, <2>2, <2>3 DEF UnderWay
  <2> QED
    BY <1>1, <1>2, <2>3, <2>4 DEF OnCourse, AllOff
<1> QED
  BY <1>3, <1>4 DEF Undisturbed

\* Where a tick is that is about to take its sample, undisturbed.
LEMMA AtEvaluate ==
    ASSUME Undisturbed, ~disturbed, row.phase # "IDLE", NEW t \in Ticks, job[t].pc = "evaluate"
    PROVE  /\ t \notin stale /\ job[t].seen = row /\ Between
           /\ row.phase \in {"BASELINE", "DEGRADING", "INCIDENT", "REMEDIATING"}
<1>1. UnderWay(t) /\ ~Sampled(job[t].pc, job[t].found) /\ ~Handled(job[t].pc)
  BY DEF Undisturbed, OnCourse, Following, Sampled, Handled
<1> QED
  BY <1>1 DEF UnderWay, FirstStep

LEMMA EvaluateOnCourse ==
    ASSUME IInv, OneFiring, Undisturbed, NEW t \in Ticks, Evaluate(t)
    PROVE  Undisturbed'
<1> SUFFICES ASSUME ~disturbed' PROVE Undisturbed'
  BY DEF Undisturbed
<1>0. TypeOK /\ job[t].pc = "evaluate"
  BY DEF IInv, Evaluate
<1>1. /\ \A u \in Ticks \ {t} : job'[u] = job[u]
      /\ job'[t].seen = job[t].seen
      /\ row' = row /\ stale' = stale /\ ~disturbed
  BY <1>0, EvaluateOutcome
<1>2. ASSUME row.phase # "IDLE"
      PROVE  Sampled(job[t].pc, job[t].found)' /\ UnderWay(t)' /\ job'[t].pc # "off"
  <2>0. /\ t \notin stale /\ job[t].seen = row /\ Between
        /\ row.phase \in {"BASELINE", "DEGRADING", "INCIDENT", "REMEDIATING"}
    BY <1>0, <1>1, <1>2, AtEvaluate
  <2>1. PICK level \in Level(row) :
          \/ StaysSilent(t, level)
          \/ \E a \in Alerts : \/ Recovers(t, level, a)
                               \/ Persists(t, level, a)
                               \/ Starts(t, level, a)
    BY <1>0, <2>0, EvaluateOutcome
  <2> SUFFICES Sampled(job[t].pc, job[t].found)'
    BY <1>1, <2>0 DEF UnderWay, Sampled
  <2>2. PICK pc, found : job'[t].pc = pc /\ job'[t].found = found
    OBVIOUS
  <2>3. CASE row.phase = "BASELINE"
    <3>1. level = "healthy"
      BY <2>3 DEF Level
    <3>2. pc = "write" /\ Silent(row.scenario)'
      BY <1>1, <2>0, <2>1, <2>2, <3>1
         DEF StaysSilent, Recovers, Persists, Starts, Silent, Others, Firing, OneFiring
    <3> QED
      BY <1>1, <2>2, <2>3, <3>2 DEF Sampled
  <2>4. CASE row.phase = "DEGRADING"
    <3>1. Silent(row.scenario) /\ level \in {"healthy", "critical"}
      BY <2>0, <2>1, <2>4 DEF Between, Level
    <3>2. CASE StaysSilent(t, level)
      <4>1. pc = "write" /\ ~found.hit /\ Silent(row.scenario)'
        BY <1>1, <2>0, <2>2, <3>2 DEF StaysSilent, Silent
      <4> QED
        BY <1>1, <2>2, <2>4, <4>1 DEF Sampled
    <3>3. ASSUME NEW a \in Alerts, Starts(t, level, a)
          PROVE  Sampled(job[t].pc, job[t].found)'
      <4>1. level = "critical"
        BY <3>1, <3>3 DEF Starts
      <4>2. pc = "open" /\ found.alert = a /\ alerts'[a].severe
        BY <2>2, <3>3, <4>1 DEF Starts, OpensIncident
      <4>3. Has(a, "FIRING", "NONE", "NONE")'
        BY <1>1, <2>0, <3>3 DEF Starts, Has
      <4> QED
        BY <1>1, <2>2, <2>4, <4>2, <4>3 DEF Sampled
    <3>4. ASSUME NEW a \in Alerts PROVE ~Recovers(t, level, a) /\ ~Persists(t, level, a)
      BY <2>0, <3>1 DEF Silent, Firing, Recovers, Persists
    <3> QED
      BY <2>0, <2>1, <3>2, <3>3, <3>4
  <2>5. CASE row.phase \in {"INCIDENT", "REMEDIATING"}
    <3>0. PICK a, incident :
            /\ a = row.alert
            /\ incident = IF row.phase = "INCIDENT" THEN "ACKNOWLEDGED" ELSE "MITIGATED"
      OBVIOUS
    <3>1. Has(a, "FIRING", incident, "NONE") /\ a \in Alerts
      BY <2>0, <2>5, <3>0 DEF Between, Has
    <3>2. ~Silent(job[t].seen.scenario)
      BY <2>0, <3>1 DEF Has, Silent
    <3>3. ASSUME NEW b \in Alerts, Firing(b, job[t].seen.scenario) PROVE b = a
      BY <2>0, <3>1, <3>3 DEF Firing, Has, OneFiring
    <3>4. Recovers(t, level, a) \/ Persists(t, level, a)
      BY <2>1, <3>2, <3>3 DEF StaysSilent, Recovers, Persists, Starts
    <3>5. CASE row.phase = "INCIDENT"
      <4>1. level # "healthy"
        BY <3>5 DEF Level
      <4>2. pc = "write" /\ Has(row.alert, "FIRING", incident, "NONE")'
        BY <1>1, <2>2, <3>0, <3>1, <3>4, <4>1 DEF Recovers, Persists, Has
      <4> QED
        BY <1>1, <2>2, <3>0, <3>5, <4>2 DEF Sampled
    <3>6. CASE row.phase = "REMEDIATING" /\ Recovers(t, level, a)
      <4>1. /\ pc = "write" /\ found.resolved /\ found.alert = row.alert
            /\ Has(row.alert, "RESOLVED", incident, "NONE")'
        BY <1>1, <2>2, <3>0, <3>1, <3>6 DEF Recovers, Has
      <4> QED
        BY <1>1, <2>2, <3>0, <3>6, <4>1 DEF Sampled
    <3>7. CASE row.phase = "REMEDIATING" /\ Persists(t, level, a)
      <4>1. ~Final(row)
        BY <3>7 DEF Persists, Level
      <4>2. /\ pc = "write" /\ ~found.resolved
            /\ Has(row.alert, "FIRING", incident, "NONE")'
        BY <1>1, <2>2, <3>0, <3>1, <3>7 DEF Persists, Has
      <4>3. ~Final(row)'
        BY <1>1, <4>1 DEF Final
      <4> QED
        BY <1>1, <2>2, <3>7, <4>2, <4>3, <3>0 DEF Sampled
    <3> QED
      BY <2>5, <3>4, <3>5, <3>6, <3>7
  <2> QED
    BY <2>0, <2>3, <2>4, <2>5
<1> QED
  BY <1>0, <1>1, <1>2, TickKeeps

\* Where a tick is that is about to write, undisturbed.
LEMMA AtWrite ==
    ASSUME TypeOK, Undisturbed, ~disturbed, row.phase # "IDLE", NEW t \in Ticks,
           job[t].pc = "write"
    PROVE  /\ row.phase = "BASELINE" => Silent(row.scenario)
           /\ row.phase = "DEGRADING" =>
                IF job[t].found.hit THEN Has(job[t].found.alert, "FIRING", "OPEN", "NONE")
                ELSE Silent(row.scenario)
           /\ row.phase = "INCIDENT" => Has(row.alert, "FIRING", "ACKNOWLEDGED", "NONE")
           /\ row.phase = "REMEDIATING" =>
                \/ /\ job[t].found.resolved /\ job[t].found.alert = row.alert
                   /\ Has(row.alert, "RESOLVED", "MITIGATED", "NONE")
                \/ /\ ~job[t].found.resolved /\ ~Final(row)
                   /\ Has(row.alert, "FIRING", "MITIGATED", "NONE")
           /\ row.phase = "RESOLVED" => Has(row.alert, "RESOLVED", "RESOLVED", "NONE")
           /\ row.phase = "RCA_REVIEW" =>
                Has(row.alert, "RESOLVED", "RESOLVED", IF Final(row) THEN Reviewed ELSE "NONE")
           /\ row.phase = "COOLDOWN" => Has(row.alert, "RESOLVED", "RESOLVED", Reviewed)
<1>1. UnderWay(t)
  BY DEF Undisturbed, OnCourse, Following
<1>2. CASE Sampled(job[t].pc, job[t].found)
  BY <1>2 DEF Sampled
<1>3. CASE Handled(job[t].pc)
  BY <1>3 DEF Handled
<1>4. CASE job[t].pc = FirstStep(row) /\ Between
  <2>1. \/ row.phase = "RESOLVED" /\ row.alert = Null
        \/ row.phase = "RCA_REVIEW" /\ (~Final(row) \/ row.alert = Null)
        \/ row.phase = "COOLDOWN"
    BY <1>4 DEF FirstStep, TypeOK, Row, Phase
  <2>2. ASSUME NEW rca, NEW incident, Has(row.alert, "RESOLVED", incident, rca)
        PROVE  row.alert # Null
    BY <2>2, DemoAssumption DEF Has
  <2> QED
    BY <1>4, <2>1, <2>2 DEF Between
<1> QED
  BY <1>1, <1>2, <1>3, <1>4 DEF UnderWay

\* What a patch leaves alone.
LEMMA PatchColumns ==
    ASSUME row \in Row, NEW phase \in Phase, NEW target, NEW seen, NEW a
    PROVE  /\ Enters(phase, target).phase = phase
           /\ Enters(phase, target).scenario = row.scenario
           /\ Enters(phase, target).alert = row.alert
           /\ [Enters(phase, target) EXCEPT !.alert = a].phase = phase
           /\ [Enters(phase, target) EXCEPT !.alert = a].scenario = row.scenario
           /\ [Enters(phase, target) EXCEPT !.alert = a].alert = a
           /\ Counts(seen).phase = row.phase
           /\ Counts(seen).scenario = row.scenario
           /\ Counts(seen).alert = row.alert
           /\ [row EXCEPT !.ticks = seen.ticks].phase = row.phase
           /\ [row EXCEPT !.ticks = seen.ticks].scenario = row.scenario
           /\ [row EXCEPT !.ticks = seen.ticks].alert = row.alert
  BY DEF Enters, Counts, Row

LEMMA WriteOnCourse ==
    ASSUME IInv, Undisturbed, NEW t \in Ticks, WritePhase(t)
    PROVE  Undisturbed'
<1> SUFFICES ASSUME ~disturbed' PROVE Undisturbed'
  BY DEF Undisturbed
<1>0. TypeOK /\ SeenIsRow /\ SeenIsActive /\ job[t].pc = "write" /\ job[t] \in Job
  BY DEF IInv, TypeOK, WritePhase
<1>1. ~disturbed /\ t \notin stale /\ alerts' = alerts
  BY DEF WritePhase
<1>2. job[t].seen = row /\ row.phase # "IDLE" /\ row \in Row /\ row.phase \in Phase
  BY <1>0, <1>1 DEF SeenIsRow, SeenIsActive, WillWrite, TypeOK, Row
<1>3. PICK target \in Targets : row' = Patched(t, target)
  BY DEF WritePhase, WriteRow
<1>4. /\ \A u \in Ticks \ {t} : job'[u] = job[u]
      /\ job'[t].pc = NextStep(t)
      /\ NextStep(t) # "off" => job'[t].seen = job[t].seen /\ job'[t].found = job[t].found
  BY <1>0, Idle DEF WritePhase, Done, TypeOK, Job
<1>5. ASSUME NEW x, NEW state, NEW incident, NEW rca, Has(x, state, incident, rca),
             row'.scenario = row.scenario
      PROVE  Has(x, state, incident, rca)'
  BY <1>1, <1>5 DEF Has
<1>6. ASSUME Silent(row.scenario), row'.scenario = row.scenario
      PROVE  Silent(row.scenario)'
  BY <1>1, <1>6 DEF Silent
<1>7. IF job'[t].pc = "off" THEN Between' ELSE Following(t)' \/ UnderWay(t)'
  <2>1. CASE row.phase = "BASELINE"
    <3>1. NextStep(t) = "off" /\ Silent(row.scenario)
      BY <1>0, <1>1, <1>2, <2>1, AtWrite DEF NextStep
    <3>2. /\ row'.phase \in {"BASELINE", "DEGRADING"}
          /\ row'.scenario = row.scenario
      BY <1>2, <1>3, <2>1, PatchColumns DEF Patched, Phase
    <3> QED
      BY <1>4, <1>6, <3>1, <3>2 DEF Between
  <2>2. CASE row.phase = "DEGRADING" /\ job[t].found.hit
    <3>1. NextStep(t) = "acknowledge" /\ Has(job[t].found.alert, "FIRING", "OPEN", "NONE")
      BY <1>0, <1>1, <1>2, <2>2, AtWrite DEF NextStep
    <3>2. /\ row'.phase = "INCIDENT" /\ row'.scenario = row.scenario
          /\ row'.alert = job[t].found.alert
      <4>1. row' = [Enters("INCIDENT", target) EXCEPT !.alert = job[t].found.alert]
        BY <1>2, <1>3, <2>2 DEF Patched
      <4>2. "INCIDENT" \in Phase
        BY DEF Phase
      <4> QED
        BY <1>2, <4>1, <4>2, PatchColumns
    <3>3. Has(row.alert, "FIRING", "OPEN", "NONE")'
      BY <1>1, <3>1, <3>2 DEF Has
    <3> QED
      BY <1>4, <3>1, <3>2, <3>3 DEF Following
  <2>3. CASE row.phase = "DEGRADING" /\ ~job[t].found.hit
    <3>1. NextStep(t) = "off" /\ Silent(row.scenario)
      BY <1>0, <1>1, <1>2, <2>3, AtWrite DEF NextStep
    <3>2. row'.phase = "DEGRADING" /\ row'.scenario = row.scenario
      BY <1>2, <1>3, <2>3, PatchColumns DEF Patched, Phase
    <3> QED
      BY <1>4, <1>6, <3>1, <3>2 DEF Between
  <2>4. CASE row.phase = "INCIDENT"
    <3>1. Has(row.alert, "FIRING", "ACKNOWLEDGED", "NONE") /\ row.alert # Null
      BY <1>0, <1>1, <1>2, <2>4, AtWrite, DemoAssumption DEF Has
    <3>2. /\ row'.scenario = row.scenario /\ row'.alert = row.alert
          /\ row'.phase = IF Final(row) THEN "REMEDIATING" ELSE "INCIDENT"
      BY <1>2, <1>3, <2>4, PatchColumns DEF Patched, Phase
    <3>3. Has(row.alert, "FIRING", "ACKNOWLEDGED", "NONE")'
      BY <1>1, <3>1, <3>2 DEF Has
    <3>4. NextStep(t) = IF Final(row) THEN "mitigate" ELSE "off"
      BY <1>2, <2>4, <3>1 DEF NextStep
    <3> QED
      BY <1>2, <1>4, <3>2, <3>3, <3>4 DEF Following, Between
  <2>5. CASE row.phase \in {"REMEDIATING", "RESOLVED", "RCA_REVIEW", "COOLDOWN"}
    <3>1. NextStep(t) = "off"
      BY <1>2, <2>5 DEF NextStep
    <3>2. row'.scenario = row.scenario /\ row'.alert = row.alert
      BY <1>2, <1>3, <2>5, PatchColumns DEF Patched, Phase
    <3>3. CASE row.phase = "REMEDIATING" /\ job[t].found.resolved
      <4>1. /\ job[t].found.alert = row.alert
            /\ Has(row.alert, "RESOLVED", "MITIGATED", "NONE")
        BY <1>0, <1>1, <1>2, <3>3, AtWrite
      <4>2. row'.phase = "RESOLVED"
        BY <1>2, <1>3, <3>3, <4>1, PatchColumns DEF Patched, Phase
      <4> QED
        BY <1>1, <1>4, <3>1, <3>2, <4>1, <4>2 DEF Between, Has
    <3>4. CASE row.phase = "REMEDIATING" /\ ~job[t].found.resolved
      <4>1. ~Final(row) /\ Has(row.alert, "FIRING", "MITIGATED", "NONE")
        BY <1>0, <1>1, <1>2, <3>4, AtWrite
      <4>2. row'.phase = "REMEDIATING"
        BY <1>2, <1>3, <3>4, <4>1, PatchColumns DEF Patched, Phase
      <4> QED
        BY <1>1, <1>4, <3>1, <3>2, <4>1, <4>2 DEF Between, Has
    <3>5. CASE row.phase = "RESOLVED"
      <4>1. Has(row.alert, "RESOLVED", "RESOLVED", "NONE")
        BY <1>0, <1>1, <1>2, <3>5, AtWrite
      <4>2. row'.phase = "RCA_REVIEW"
        BY <1>2, <1>3, <3>5, PatchColumns DEF Patched, Phase
      <4> QED
        BY <1>1, <1>4, <3>1, <3>2, <4>1, <4>2 DEF Between, Has
    <3>6. CASE row.phase = "RCA_REVIEW"
      <4>1. Has(row.alert, "RESOLVED", "RESOLVED", IF Final(row) THEN Reviewed ELSE "NONE")
        BY <1>0, <1>1, <1>2, <3>6, AtWrite
      <4>2. row'.phase = IF Final(row) THEN "COOLDOWN" ELSE "RCA_REVIEW"
        BY <1>2, <1>3, <3>6, PatchColumns DEF Patched, Phase
      <4> QED
        BY <1>1, <1>4, <3>1, <3>2, <4>1, <4>2 DEF Between, Has, Reviewed
    <3>7. CASE row.phase = "COOLDOWN"
      <4>1. Has(row.alert, "RESOLVED", "RESOLVED", Reviewed)
        BY <1>0, <1>1, <1>2, <3>7, AtWrite
      <4>2. row'.phase \in {"COOLDOWN", "IDLE"}
        BY <1>2, <1>3, <3>7, PatchColumns DEF Patched, Phase
      <4> QED
        BY <1>1, <1>4, <3>1, <3>2, <4>1, <4>2 DEF Between, Has, Reviewed
    <3> QED
      BY <2>5, <3>3, <3>4, <3>5, <3>6, <3>7
  <2> QED
    BY <1>2, <2>1, <2>2, <2>3, <2>4, <2>5 DEF Phase
<1> QED
  BY <1>0, <1>1, <1>4, <1>7, TickKeeps

LEMMA OpenOnCourse ==
    ASSUME IInv, Undisturbed, NEW t \in Ticks, OpenIncident(t)
    PROVE  Undisturbed'
<1> SUFFICES ASSUME ~disturbed' PROVE Undisturbed'
  BY DEF Undisturbed
<1> DEFINE a == job[t].found.alert
<1>0. TypeOK /\ job[t].pc = "open" /\ job[t] \in Job /\ alerts \in [Alerts -> Alert]
  BY DEF IInv, TypeOK, OpenIncident
<1>1. /\ row' = row /\ stale' = stale /\ ~disturbed
      /\ \A u \in Ticks \ {t} : job'[u] = job[u]
      /\ job'[t].pc = "write" /\ job'[t].seen = job[t].seen
      /\ job'[t].found.alert = a /\ job'[t].found.hit = alerts[a].severe
  BY <1>0 DEF OpenIncident, TypeOK, Job, Found
<1>2. ASSUME row.phase # "IDLE" PROVE UnderWay(t)'
  <2>1. UnderWay(t)
    BY <1>0, <1>1, <1>2 DEF Undisturbed, OnCourse, Following
  <2>2. job[t].pc # FirstStep(row)
    BY <1>0 DEF FirstStep
  <2>3. row.phase = "DEGRADING" /\ Has(a, "FIRING", "NONE", "NONE") /\ alerts[a].severe
    BY <1>0, <2>1, <2>2 DEF UnderWay, Sampled, Handled
  <2>4. /\ a \in Alerts /\ alerts'[a].incident = "OPEN" /\ alerts'[a].rca = alerts[a].rca
        /\ alerts'[a].state = alerts[a].state /\ alerts'[a].scenario = alerts[a].scenario
    BY <1>0, <2>3 DEF OpenIncident, Has, Alert
  <2>5. PICK x : x = a
    OBVIOUS
  <2>6. Has(x, "FIRING", "OPEN", "NONE")'
    BY <1>1, <2>3, <2>4, <2>5 DEF Has
  <2>7. Sampled(job[t].pc, job[t].found)'
    BY <1>1, <2>3, <2>5, <2>6 DEF Sampled
  <2> QED
    BY <1>1, <2>1, <2>7 DEF UnderWay
<1> QED
  BY <1>0, <1>1, <1>2, TickKeeps

\* The incident follows the row.
LEMMA FollowOnCourse ==
    ASSUME IInv, Undisturbed, NEW t \in Ticks, Acknowledge(t) \/ Mitigate(t)
    PROVE  Undisturbed'
<1> SUFFICES ASSUME ~disturbed' PROVE Undisturbed'
  BY DEF Undisturbed
<1>0. TypeOK /\ job[t].pc \in {"acknowledge", "mitigate"}
  BY DEF IInv, Acknowledge, Mitigate
<1>1. /\ row' = row /\ ~disturbed
      /\ \A u \in Ticks \ {t} : job'[u] = job[u]
      /\ job'[t].pc = "off"
  BY <1>0, Idle DEF Acknowledge, Mitigate, Done, TypeOK
<1>2. ASSUME row.phase # "IDLE" PROVE Between'
  <2>1. Following(t)
    <3>1. ~UnderWay(t)
      BY <1>0 DEF UnderWay, FirstStep, Sampled, Handled
    <3> QED
      BY <1>0, <1>1, <1>2, <3>1 DEF Undisturbed, OnCourse
  <2>2. CASE Acknowledge(t)
    <3>1. /\ row.phase = "INCIDENT" /\ Has(row.alert, "FIRING", "OPEN", "NONE")
          /\ MoveIncident(row.alert, "ACKNOWLEDGED")
      BY <2>1, <2>2 DEF Following, Acknowledge
    <3>2. Has(row.alert, "FIRING", "ACKNOWLEDGED", "NONE")'
      BY <1>0, <1>1, <3>1, MoveFacts DEF Has, Moves
    <3> QED
      BY <1>1, <3>1, <3>2 DEF Between
  <2>3. CASE Mitigate(t)
    <3>1. /\ row.phase = "REMEDIATING" /\ Has(row.alert, "FIRING", "ACKNOWLEDGED", "NONE")
          /\ MoveIncident(row.alert, "MITIGATED")
      BY <2>1, <2>3 DEF Following, Mitigate
    <3>2. Has(row.alert, "FIRING", "MITIGATED", "NONE")'
      BY <1>0, <1>1, <3>1, MoveFacts DEF Has, Moves
    <3> QED
      BY <1>1, <3>1, <3>2 DEF Between
  <2> QED
    BY <2>2, <2>3
<1> QED
  BY <1>0, <1>1, <1>2, TickKeeps

LEMMA ResolveOnCourse ==
    ASSUME IInv, Undisturbed, NEW t \in Ticks, Resolve(t)
    PROVE  Undisturbed'
<1> SUFFICES ASSUME ~disturbed' PROVE Undisturbed'
  BY DEF Undisturbed
<1>0. TypeOK /\ job[t].pc = "resolve" /\ job[t] \in Job
  BY DEF IInv, TypeOK, Resolve
<1>1. /\ row' = row /\ stale' = stale /\ ~disturbed
      /\ \A u \in Ticks \ {t} : job'[u] = job[u]
      /\ job'[t].pc = "write" /\ job'[t].seen = job[t].seen
  BY <1>0 DEF Resolve, TypeOK, Job
<1>2. ASSUME row.phase # "IDLE" PROVE UnderWay(t)'
  <2>1. UnderWay(t)
    BY <1>0, <1>1, <1>2 DEF Undisturbed, OnCourse, Following
  <2>2. ~Sampled(job[t].pc, job[t].found) /\ ~Handled(job[t].pc)
    BY <1>0 DEF Sampled, Handled
  <2>3. row.phase = "RESOLVED" /\ Has(row.alert, "RESOLVED", "MITIGATED", "NONE")
    BY <1>0, <2>1, <2>2 DEF UnderWay, FirstStep, Between
  <2>4. MoveIncident(row.alert, "RESOLVED")
    BY <2>1 DEF UnderWay, Resolve
  <2>5. Has(row.alert, "RESOLVED", "RESOLVED", "NONE")'
    BY <1>0, <1>1, <2>3, <2>4, MoveFacts DEF Has, Moves
  <2>6. Handled(job[t].pc)'
    BY <1>1, <2>3, <2>5 DEF Handled
  <2> QED
    BY <1>1, <2>1, <2>6 DEF UnderWay
<1> QED
  BY <1>0, <1>1, <1>2, TickKeeps

\* A step of the report that the service takes.
LEMMA ReviewFacts ==
    ASSUME TypeOK, NEW t \in Ticks, NEW pc, NEW from, NEW to, NEW next,
           Review(t, pc, from, to, next), NEW x, x = job[t].seen.alert,
           Has(x, "RESOLVED", "RESOLVED", from)
    PROVE  Has(x, "RESOLVED", "RESOLVED", to)' /\ job'[t].pc = next
<1>1. /\ alerts' = [alerts EXCEPT ![x].rca = to] /\ job' = [job EXCEPT ![t].pc = next]
      /\ row' = row
  BY DEF Review, Has
<1>2. alerts \in [Alerts -> Alert] /\ job \in [Ticks -> Job] /\ job[t] \in Job
  BY DEF TypeOK
<1>3. /\ alerts'[x].rca = to /\ alerts'[x].state = alerts[x].state
      /\ alerts'[x].incident = alerts[x].incident /\ alerts'[x].scenario = alerts[x].scenario
  BY <1>1, <1>2 DEF Alert, Has
<1> QED
  BY <1>1, <1>2, <1>3 DEF Has, Job

LEMMA ReviewOnCourse ==
    ASSUME IInv, Undisturbed, NEW t \in Ticks, CreateRca(t) \/ SubmitForReview(t) \/ Approve(t)
    PROVE  Undisturbed'
<1> SUFFICES ASSUME ~disturbed' PROVE Undisturbed'
  BY DEF Undisturbed
<1>0. TypeOK /\ job[t].pc \in {"create", "submit", "approve"} /\ job[t] \in Job
  BY DEF IInv, TypeOK, CreateRca, SubmitForReview, Approve, Review
<1>1. /\ row' = row /\ stale' = stale /\ ~disturbed
      /\ \A u \in Ticks \ {t} : job'[u] = job[u]
      /\ job'[t].pc # "off" /\ job'[t].seen = job[t].seen
  <2>1. \E pc \in {"submit", "approve", "write"} : job' = [job EXCEPT ![t].pc = pc]
    BY DEF CreateRca, SubmitForReview, Approve, Review
  <2> QED
    BY <1>0, <2>1 DEF CreateRca, SubmitForReview, Approve, Review, TypeOK, Job
<1>2. ASSUME row.phase # "IDLE" PROVE UnderWay(t)'
  <2>1. UnderWay(t)
    BY <1>0, <1>1, <1>2 DEF Undisturbed, OnCourse, Following
  <2>2. PICK x : x = row.alert
    OBVIOUS
  <2>3. job[t].seen.alert = x
    BY <2>1, <2>2 DEF UnderWay
  <2>4. CASE CreateRca(t)
    <3>1. /\ row.phase = "RCA_REVIEW" /\ Final(row)
          /\ Has(x, "RESOLVED", "RESOLVED", "NONE")
      BY <2>1, <2>2, <2>4 DEF CreateRca, Review, UnderWay, Sampled, Handled, FirstStep, Between
    <3>2. Has(x, "RESOLVED", "RESOLVED", "DRAFT")' /\ job'[t].pc = "submit"
      BY <1>0, <2>3, <2>4, <3>1, ReviewFacts DEF CreateRca
    <3>3. Handled(job[t].pc)'
      BY <1>1, <2>2, <3>1, <3>2 DEF Handled, Final
    <3> QED
      BY <1>1, <2>1, <3>3 DEF UnderWay
  <2>5. CASE SubmitForReview(t)
    <3>1. /\ row.phase = "RCA_REVIEW" /\ Final(row)
          /\ Has(x, "RESOLVED", "RESOLVED", "DRAFT")
      BY <2>1, <2>2, <2>5
         DEF SubmitForReview, Review, UnderWay, Sampled, Handled, FirstStep, Between
    <3>2. /\ Has(x, "RESOLVED", "RESOLVED", "IN_REVIEW")'
          /\ job'[t].pc = IF Reviewer THEN "approve" ELSE "write"
      BY <1>0, <2>3, <2>5, <3>1, ReviewFacts DEF SubmitForReview
    <3>3. Handled(job[t].pc)'
      BY <1>1, <2>2, <3>1, <3>2 DEF Handled, Final, Reviewed
    <3> QED
      BY <1>1, <2>1, <3>3 DEF UnderWay
  <2>6. CASE Approve(t)
    <3>1. /\ row.phase = "RCA_REVIEW" /\ Final(row) /\ Reviewer
          /\ Has(x, "RESOLVED", "RESOLVED", "IN_REVIEW")
      BY <2>1, <2>2, <2>6 DEF Approve, Review, UnderWay, Sampled, Handled, FirstStep, Between
    <3>2. Has(x, "RESOLVED", "RESOLVED", "APPROVED")' /\ job'[t].pc = "write"
      BY <1>0, <2>3, <2>6, <3>1, ReviewFacts DEF Approve
    <3>3. Handled(job[t].pc)'
      BY <1>1, <2>2, <3>1, <3>2 DEF Handled, Final, Reviewed
    <3> QED
      BY <1>1, <2>1, <3>3 DEF UnderWay
  <2> QED
    BY <2>4, <2>5, <2>6
<1> QED
  BY <1>0, <1>1, <1>2, TickKeeps

\* A tick that begins the next run, or that is cut off.
LEMMA BeginByTickOnCourse ==
    ASSUME IInv, NEW t \in Ticks, BeginByTick(t)
    PROVE  Undisturbed'
<1> SUFFICES ASSUME ~disturbed' PROVE Undisturbed'
  BY DEF Undisturbed
<1>1. \A u \in Ticks : job'[u].pc = "off"
  BY Idle DEF BeginByTick, Done, IInv, TypeOK
<1>2. row'.phase = "BASELINE"
  BY DEF BeginByTick, WriteRow, BeginRun
<1> QED
  BY <1>1, <1>2, BeginKeeps

LEMMA RequestOnCourse ==
    ASSUME IInv, Undisturbed, NEW h \in Requests, Enable(h) \/ BeginByRequest(h) \/ Disable(h)
    PROVE  Undisturbed'
<1> SUFFICES ASSUME ~disturbed' PROVE Undisturbed'
  BY DEF Undisturbed
<1>0. h \notin Ticks /\ row \in Row
  BY DemoAssumption DEF IInv, TypeOK
<1>1. CASE Enable(h)
  <2>1. /\ row' = row /\ alerts' = alerts /\ job' = job /\ ~disturbed
        /\ \A t \in Ticks : t \in stale' <=> t \in stale
    BY <1>0, <1>1 DEF Enable
  <2>2. OneTick'
    BY <2>1 DEF Undisturbed, OneTick
  <2>3. ASSUME row.phase # "IDLE" PROVE OnCourse'
    <3>1. OnCourse
      BY <2>1, <2>3 DEF Undisturbed
    <3>2. Between => Between'
      BY <2>1 DEF Between, Has, Silent
    <3>3. ASSUME NEW t \in Ticks, Following(t) PROVE Following(t)'
      BY <2>1, <3>3 DEF Following, Has
    <3>4. ASSUME NEW t \in Ticks, UnderWay(t) PROVE UnderWay(t)'
      <4>1. CASE job[t].pc = FirstStep(row) /\ Between
        BY <2>1, <3>2, <3>4, <4>1 DEF UnderWay, FirstStep, Final
      <4>2. CASE Sampled(job[t].pc, job[t].found)
        <5>1. Sampled(job[t].pc, job[t].found)'
          BY <2>1, <4>2 DEF Sampled, Has, Silent, Final
        <5> QED
          BY <2>1, <3>4, <5>1 DEF UnderWay
      <4>3. CASE Handled(job[t].pc)
        <5>1. Handled(job[t].pc)'
          BY <2>1, <4>3 DEF Handled, Has, Final
        <5> QED
          BY <2>1, <3>4, <5>1 DEF UnderWay
      <4> QED
        BY <3>4, <4>1, <4>2, <4>3 DEF UnderWay
    <3> QED
      BY <2>1, <3>1, <3>2, <3>3, <3>4 DEF OnCourse, AllOff
  <2> QED
    BY <2>1, <2>2, <2>3 DEF Undisturbed
<1>2. CASE BeginByRequest(h)
  BY <1>2, BeginKeeps DEF BeginByRequest, WriteRow, BeginRun
<1>3. CASE Disable(h)
  <2>1. row'.phase = "IDLE" /\ job' = job /\ ~disturbed
    BY <1>0, <1>3 DEF Disable, WriteRow, Row
  <2> QED
    BY <2>1 DEF Undisturbed, OneTick
<1> QED
  BY <1>1, <1>2, <1>3

LEMMA RunInvInit == Init => RunInv
  BY Idle DEF Init, NewRow, NoAlert, RunInv, OneFiring, Undisturbed, OneTick

LEMMA RunInvStep == IInv /\ RunInv /\ [Next]_vars => RunInv'
<1> SUFFICES ASSUME IInv, OneFiring, Undisturbed, [Next]_vars PROVE Undisturbed'
  BY OneFiringStep DEF RunInv
<1>1. ASSUME disturbed' PROVE Undisturbed'
  BY <1>1 DEF Undisturbed
<1>2. ASSUME NEW t \in Ticks, Advance(t) \/ StepFails(t) \/ FailTick(t) PROVE Undisturbed'
  BY <1>1, <1>2, ReadOnCourse, EvaluateOnCourse, OpenOnCourse, WriteOnCourse,
     BeginByTickOnCourse, FollowOnCourse, ResolveOnCourse, ReviewOnCourse
     DEF Advance, StepFails, FailTick
<1>3. CASE Surroundings
  BY <1>1, <1>3 DEF Surroundings, PersonMovesIncident, PersonTakesAlert, OtherSample
<1>4. CASE UNCHANGED vars
  BY <1>4 DEF vars, Undisturbed, OneTick, OnCourse, AllOff, Between, Has, Silent, Following,
              UnderWay, Sampled, Handled, FirstStep, Final
<1> QED
  BY <1>2, <1>3, <1>4, RequestOnCourse DEF Next

LEMMA RunInductive == Spec => []RunInv
  BY Inductive, RunInvInit, RunInvStep, PTL DEF Spec

LEMMA CleanAtCooldown == TypeOK /\ RunInv => FinishedRunIsClean
<1> SUFFICES ASSUME TypeOK, RunInv, row.phase = "COOLDOWN", ~disturbed
             PROVE  Has(row.alert, "RESOLVED", "RESOLVED", Reviewed)
  BY DemoAssumption DEF FinishedRunIsClean, Has, Reviewed
<1>1. OnCourse
  BY DEF RunInv, Undisturbed
<1>2. CASE AllOff
  BY <1>1, <1>2 DEF OnCourse, Between
<1>3. ASSUME NEW t \in Ticks, job[t].pc # "off"
      PROVE  Has(row.alert, "RESOLVED", "RESOLVED", Reviewed)
  BY <1>1, <1>3 DEF OnCourse, Following, UnderWay, Sampled, Handled, Between
<1> QED
  BY <1>2, <1>3 DEF AllOff

\* A run that its own ticks alone have brought to the cooldown has recovered its
\* alert, resolved its incident and had its report approved, for any number of
\* scenarios, ticks and requests and any phase lengths.
THEOREM FinishedRunIsCleanHolds == Spec => []FinishedRunIsClean
  BY Inductive, RunInductive, CleanAtCooldown, PTL DEF IInv
=============================================================================
