---------------------------- MODULE SeededProofs ----------------------------
(***************************************************************************)
(* Theorems about what the seed scripts write and what works on it: the    *)
(* statements of the two scripts against the foreign keys, the stories and *)
(* the SLA windows of the history, the demo scenarios on the seeded rules, *)
(* and the blast radius on any graph of services.                          *)
(*                                                                         *)
(* They share no state, so each has its own argument.  A script: what the  *)
(* rest of it can still rely on (RestFits), which a statement that is done *)
(* leaves to the next.  A story: what is known of each part of the row     *)
(* once it is made up.  The windows: that they tile the history, and that  *)
(* what a beat is charged by tiles is what it is by the whole.  A demo run *)
(* (ScenarioInv): that no other scenario's primary metric has an alert,    *)
(* which the run before must have left so.  The blast radius: the least    *)
(* counterexample, as the prover has no induction over the depth.          *)
(***************************************************************************)
EXTENDS SeedScripts, SeededStory, SeededWindows, DemoScenarios, BlastRadius,
        FiniteSetTheorems, FunctionTheorems, SequenceTheorems,
        WellFoundedInduction, TLAPS

-----------------------------------------------------------------------------
(* The scripts.                                                            *)

Statement == [deletes : BOOLEAN, table : Tables]

WrittenBy(s) == {s[j].table : j \in {j \in 1 .. Len(s) : ~s[j].deletes}}

\* The tables that a script's i-th statement needs something of are the ones it
\* has taken care of before: emptied, if it is to delete what they refer to,
\* written, if it is to refer to them.
WellOrdered(s) ==
    /\ s \in Seq(Statement)
    /\ \A i \in 1 .. Len(s) :
         IF s[i].deletes
         THEN /\ \A j \in 1 .. i : s[j].deletes
              /\ \A u \in Tables : s[i].table \in Restricts[u] => \E j \in 1 .. i - 1 : s[j].table = u
         ELSE \A t \in Required[s[i].table] : \E j \in 1 .. i - 1 : ~s[j].deletes /\ s[j].table = t

LEMMA TableNames ==
    Tables = {"user", "service", "serviceDependency", "metric", "alert", "alertRule",
              "failureSimulation", "slaRecord", "incident", "incidentTimelineEvent",
              "incidentComment", "incidentRunbook", "runbook", "rcaReport",
              "correctiveAction", "auditLog", "demoModeState"}
  BY DEF Tables, Cascades

LEMMA RestrictsNames ==
    \A u \in Tables : \A t \in Restricts[u] :
      (u = "incident" /\ t = "service") \/ (u = "incidentRunbook" /\ t = "runbook")
  BY DEF Restricts

\* What the rows a script writes refer to.
LEMMA RequiredNames ==
    /\ \A t \in {"user", "service", "runbook", "auditLog", "alertRule", "incidentTimelineEvent",
                 "incidentComment", "incidentRunbook", "rcaReport", "correctiveAction",
                 "incident", "metric", "alert", "slaRecord", "serviceDependency"} : t \in Tables
    /\ Required["user"] = {} /\ Required["service"] = {}
    /\ Required["serviceDependency"] = {"service"} /\ Required["metric"] = {"service"}
    /\ Required["alert"] = {"service"} /\ Required["slaRecord"] = {"service"}
    /\ Required["incident"] = {"service"}
    /\ Required["alertRule"] = {"service", "user"}
    /\ Required["incidentTimelineEvent"] = {"incident"}
    /\ Required["incidentComment"] = {"incident", "user"}
    /\ Required["incidentRunbook"] = {"incident", "runbook"}
    /\ Required["rcaReport"] = {"incident", "user"}
    /\ Required["correctiveAction"] = {"rcaReport", "user"}
    /\ Required["runbook"] = {"user"} /\ Required["auditLog"] = {"user"}
  BY DEF Required, Restricts, Cascades, Tables

LEMMA WriteIs ==
    ASSUME NEW tables \in Seq(Tables)
    PROVE  /\ Write(tables) \in Seq(Statement) /\ Len(Write(tables)) = Len(tables)
           /\ \A i \in 1 .. Len(tables) : Write(tables)[i] = [deletes |-> FALSE, table |-> tables[i]]
<1> DEFINE w == Write(tables)
<1>1. DOMAIN tables = 1 .. Len(tables) /\ Len(tables) \in Nat /\ \A i \in 1 .. Len(tables) : tables[i] \in Tables
  BY LenProperties, ElementOfSeq
<1>2. w = [i \in 1 .. Len(tables) |-> [deletes |-> FALSE, table |-> tables[i]]]
  BY <1>1 DEF Write
<1>3. w \in [1 .. Len(tables) -> Statement]
  BY <1>1, <1>2 DEF Statement
<1>4. w \in Seq(Statement)
  BY <1>1, <1>3, SeqDef
<1>5. Len(w) = Len(tables)
  BY <1>1, <1>2, <1>4, LenProperties
<1> QED
  BY <1>2, <1>4, <1>5

LEMMA DeleteIs ==
    ASSUME NEW tables \in Seq(Tables)
    PROVE  /\ Delete(tables) \in Seq(Statement) /\ Len(Delete(tables)) = Len(tables)
           /\ \A i \in 1 .. Len(tables) : Delete(tables)[i] = [deletes |-> TRUE, table |-> tables[i]]
<1> DEFINE w == Delete(tables)
<1>1. DOMAIN tables = 1 .. Len(tables) /\ Len(tables) \in Nat /\ \A i \in 1 .. Len(tables) : tables[i] \in Tables
  BY LenProperties, ElementOfSeq
<1>2. w = [i \in 1 .. Len(tables) |-> [deletes |-> TRUE, table |-> tables[i]]]
  BY <1>1 DEF Delete
<1>3. w \in [1 .. Len(tables) -> Statement]
  BY <1>1, <1>2 DEF Statement
<1>4. w \in Seq(Statement)
  BY <1>1, <1>3, SeqDef
<1>5. Len(w) = Len(tables)
  BY <1>1, <1>2, <1>4, LenProperties
<1> QED
  BY <1>2, <1>4, <1>5

\* More tables are written, each after what its rows refer to.
LEMMA WriteMore ==
    ASSUME NEW s, WellOrdered(s), NEW tables \in Seq(Tables),
           \A i \in 1 .. Len(tables) : \A t \in Required[tables[i]] :
             t \in WrittenBy(s) \/ \E j \in 1 .. i - 1 : tables[j] = t
    PROVE  /\ WellOrdered(s \o Write(tables))
           /\ WrittenBy(s) \subseteq WrittenBy(s \o Write(tables))
           /\ \A i \in 1 .. Len(tables) : tables[i] \in WrittenBy(s \o Write(tables))
<1> DEFINE w == Write(tables)
           a == s \o w
           m == Len(s)
           n == Len(tables)
<1>1. s \in Seq(Statement) /\ w \in Seq(Statement) /\ m \in Nat /\ n \in Nat /\ Len(w) = n
  BY WriteIs, LenProperties DEF WellOrdered
<1>2. a \in Seq(Statement) /\ Len(a) = m + n
      /\ \A i \in 1 .. m + n : a[i] = IF i <= m THEN s[i] ELSE w[i - m]
  <2> HIDE DEF w
  <2>1. a \in Seq(Statement) /\ Len(a) = Len(s) + Len(w)
        /\ \A i \in 1 .. Len(s) + Len(w) : a[i] = IF i <= Len(s) THEN s[i] ELSE w[i - Len(s)]
    BY <1>1, ConcatProperties
  <2> QED
    BY <1>1, <2>1
<1>3. \A i \in 1 .. n : w[i] = [deletes |-> FALSE, table |-> tables[i]]
  BY WriteIs
<1> HIDE DEF w, a, m, n
<1>4. \A i \in 1 .. m : i \in 1 .. m + n /\ a[i] = s[i]
  BY <1>1, <1>2
<1>5. ASSUME NEW i \in 1 .. n
      PROVE  /\ m + i \in 1 .. m + n /\ a[m + i] = [deletes |-> FALSE, table |-> tables[i]]
             /\ a[m + i].deletes = FALSE /\ a[m + i].table = tables[i]
  <2>1. PICK x \in 1 .. m + n : x = m + i /\ ~(x <= m) /\ x - m = i
    BY <1>1
  <2>2. a[x] = w[x - m]
    BY <1>2, <2>1
  <2>3. a[m + i] = w[i]
    BY <2>1, <2>2
  <2> QED
    BY <1>3, <2>1, <2>3
<1>6. WrittenBy(s) \subseteq WrittenBy(a)
  BY <1>2, <1>4 DEF WrittenBy, m
<1>7. \A i \in 1 .. n : tables[i] \in WrittenBy(a)
  <2> SUFFICES ASSUME NEW i \in 1 .. n PROVE tables[i] \in WrittenBy(a)
    OBVIOUS
  <2>1. m + i \in 1 .. Len(a) /\ ~a[m + i].deletes /\ a[m + i].table = tables[i]
    BY <1>2, <1>5
  <2> QED
    BY <2>1 DEF WrittenBy
<1>8. ASSUME NEW i \in 1 .. Len(a)
      PROVE  IF a[i].deletes
             THEN /\ \A j \in 1 .. i : a[j].deletes
                  /\ \A u \in Tables : a[i].table \in Restricts[u] => \E j \in 1 .. i - 1 : a[j].table = u
             ELSE \A t \in Required[a[i].table] : \E j \in 1 .. i - 1 : ~a[j].deletes /\ a[j].table = t
  <2>1. CASE i <= m
    <3>1. i \in 1 .. m /\ a[i] = s[i]
      BY <1>1, <1>2, <1>4, <2>1
    <3>2. \A j \in 1 .. i : a[j] = s[j]
      BY <1>1, <1>4, <3>1
    <3>3. \A j \in 1 .. i - 1 : j \in 1 .. i
      BY <1>1, <3>1
    <3>4. IF s[i].deletes
          THEN /\ \A j \in 1 .. i : s[j].deletes
               /\ \A u \in Tables : s[i].table \in Restricts[u] => \E j \in 1 .. i - 1 : s[j].table = u
          ELSE \A t \in Required[s[i].table] : \E j \in 1 .. i - 1 : ~s[j].deletes /\ s[j].table = t
      BY <3>1 DEF WellOrdered, m
    <3> QED
      BY <3>1, <3>2, <3>3, <3>4
  <2>2. CASE ~(i <= m)
    <3>1. PICK k \in 1 .. n : k = i - m
      BY <1>1, <1>2, <2>2
    <3>2. i = m + k /\ a[i].deletes = FALSE /\ a[i].table = tables[k]
      <4>1. i = m + k
        BY <1>1, <1>2, <3>1
      <4> QED
        BY <1>5, <4>1
    <3>3. ASSUME NEW t \in Required[tables[k]]
          PROVE  \E j \in 1 .. i - 1 : ~a[j].deletes /\ a[j].table = t
      <4>1. CASE t \in WrittenBy(s)
        <5>1. PICK j \in 1 .. m : ~s[j].deletes /\ s[j].table = t
          BY <4>1 DEF WrittenBy, m
        <5>2. j \in 1 .. i - 1 /\ a[j] = s[j]
          BY <1>1, <1>4, <3>1, <3>2
        <5> QED
          BY <5>1, <5>2
      <4>2. CASE \E j \in 1 .. k - 1 : tables[j] = t
        <5>1. PICK j \in 1 .. k - 1 : tables[j] = t
          BY <4>2
        <5>2. m + j \in 1 .. i - 1 /\ j \in 1 .. n
          BY SMTT(30), <1>1, <3>1, <3>2
        <5>3. a[m + j] = [deletes |-> FALSE, table |-> tables[j]]
          BY <1>5, <5>2
        <5> QED
          BY <5>1, <5>2, <5>3
      <4> QED
        BY <3>1, <4>1, <4>2 DEF n
    <3> QED
      BY <3>2, <3>3
  <2> QED
    BY <2>1, <2>2
<1>9. WellOrdered(a)
  BY <1>2, <1>8 DEF WellOrdered
<1> QED
  BY <1>6, <1>7, <1>9 DEF a, w, n

LEMMA WipeIsWellOrdered == WellOrdered(WipeGeneratedData)
<1> DEFINE tables == <<"correctiveAction", "rcaReport", "incidentComment", "incidentTimelineEvent",
                       "incidentRunbook", "alert", "incident", "alertRule", "slaRecord", "metric",
                       "failureSimulation", "serviceDependency", "runbook", "service">>
<1>1. tables \in Seq(Tables) /\ Len(tables) = 14
  BY TableNames
<1>2. tables[5] = "incidentRunbook" /\ tables[7] = "incident"
  OBVIOUS
<1>3. \A i \in 1 .. 14 : (tables[i] = "runbook" => i = 13) /\ (tables[i] = "service" => i = 14)
  OBVIOUS
<1> HIDE DEF tables
<1> DEFINE w == Delete(tables)
<1>4. w \in Seq(Statement) /\ Len(w) = 14
      /\ \A i \in 1 .. 14 : w[i] = [deletes |-> TRUE, table |-> tables[i]]
  BY <1>1, DeleteIs
<1>5. w = WipeGeneratedData
  BY DEF tables, WipeGeneratedData
<1> HIDE DEF w
<1>6. ASSUME NEW i \in 1 .. 14, NEW u \in Tables, w[i].table \in Restricts[u]
      PROVE  \E j \in 1 .. i - 1 : w[j].table = u
  <2>1. w[i].table = tables[i] /\ w[5].table = "incidentRunbook" /\ w[7].table = "incident"
    BY <1>2, <1>4
  <2>2. CASE u = "incident" /\ tables[i] = "service"
    BY <1>3, <2>1, <2>2
  <2>3. CASE u = "incidentRunbook" /\ tables[i] = "runbook"
    BY <1>3, <2>1, <2>3
  <2> QED
    BY <1>6, <2>1, <2>2, <2>3, RestrictsNames
<1>7. \A i \in 1 .. 14 : w[i].deletes
  BY <1>4
<1>8. \A i \in 1 .. 14 : \A j \in 1 .. i : j \in 1 .. 14
  OBVIOUS
<1>9. WellOrdered(w)
  BY <1>4, <1>6, <1>7, <1>8 DEF WellOrdered
<1> QED
  BY <1>5, <1>9

-----------------------------------------------------------------------------

LEMMA HistoryIsWellOrdered == WellOrdered(HistoryScript)
<1> DEFINE catalog == <<"user", "service", "serviceDependency", "runbook", "alertRule">>
           incident == <<"incident", "alert", "incidentTimelineEvent", "incidentComment",
                         "incidentRunbook", "rcaReport", "correctiveAction">>
           a == WipeGeneratedData
           b == a \o Write(catalog)
           c == b \o Write(<<"metric">>)
           d == c \o Write(incident)
           e == d \o Write(<<"slaRecord">>)
<1>1. e = HistoryScript
  BY DEF HistoryScript, HistoryCatalog, HistoryIncident
<1>2. WellOrdered(a)
  BY WipeIsWellOrdered
<1> HIDE DEF a
<1>3. WellOrdered(b) /\ {"user", "service", "runbook"} \subseteq WrittenBy(b)
  <2>1. catalog \in Seq(Tables) /\ Len(catalog) = 5
    BY RequiredNames
  <2>2. \A i \in 1 .. 5 : \A t \in Required[catalog[i]] : \E j \in 1 .. i - 1 : catalog[j] = t
    <3> SUFFICES ASSUME NEW i \in 1 .. 5, NEW t \in Required[catalog[i]]
                 PROVE  \E j \in 1 .. i - 1 : catalog[j] = t
      OBVIOUS
    <3>1. i > 1 /\ (t = "user" \/ (i > 2 /\ t = "service"))
      BY RequiredNames
    <3>2. catalog[1] = "user" /\ catalog[2] = "service"
      OBVIOUS
    <3> HIDE DEF catalog
    <3> QED
      BY <3>1, <3>2
  <2>3. catalog[1] = "user" /\ catalog[2] = "service" /\ catalog[4] = "runbook"
    OBVIOUS
  <2> HIDE DEF catalog
  <2> QED
    BY <1>2, <2>1, <2>2, <2>3, WriteMore
<1> HIDE DEF b
<1>4. WellOrdered(c) /\ {"user", "service", "runbook"} \subseteq WrittenBy(c)
  <2> DEFINE tables == <<"metric">>
  <2>1. tables \in Seq(Tables) /\ Len(tables) = 1
    BY RequiredNames
  <2>2. \A i \in 1 .. 1 : \A t \in Required[tables[i]] : t \in WrittenBy(b)
    BY <1>3, RequiredNames
  <2> HIDE DEF tables
  <2>3. WellOrdered(b \o Write(tables)) /\ WrittenBy(b) \subseteq WrittenBy(b \o Write(tables))
    BY <1>3, <2>1, <2>2, WriteMore
  <2> QED
    BY <1>3, <2>3 DEF tables
<1> HIDE DEF c
<1>5. WellOrdered(d) /\ {"user", "service", "runbook"} \subseteq WrittenBy(d)
  <2>1. incident \in Seq(Tables) /\ Len(incident) = 7
    BY RequiredNames
  <2>2. ASSUME NEW i \in 1 .. 7, NEW t \in Required[incident[i]]
        PROVE  t \in WrittenBy(c) \/ \E j \in 1 .. i - 1 : incident[j] = t
    <3>1. \/ t \in {"user", "service", "runbook"}
          \/ i > 1 /\ t = "incident"
          \/ i > 6 /\ t = "rcaReport"
      BY RequiredNames
    <3>2. incident[1] = "incident" /\ incident[6] = "rcaReport"
      OBVIOUS
    <3> HIDE DEF incident
    <3> QED
      BY <1>4, <3>1, <3>2
  <2> HIDE DEF incident
  <2> QED
    BY <1>4, <2>1, <2>2, WriteMore
<1> HIDE DEF d
<1>6. WellOrdered(e)
  <2> DEFINE tables == <<"slaRecord">>
  <2>1. tables \in Seq(Tables) /\ Len(tables) = 1
    BY RequiredNames
  <2>2. \A i \in 1 .. 1 : \A t \in Required[tables[i]] : t \in WrittenBy(d)
    BY <1>5, RequiredNames
  <2> HIDE DEF tables
  <2>3. WellOrdered(d \o Write(tables))
    BY <1>5, <2>1, <2>2, WriteMore
  <2> QED
    BY <2>3 DEF tables
<1> QED
  BY <1>1, <1>6

LEMMA SeedIsWellOrdered == WellOrdered(SeedScript)
<1> DEFINE catalog == <<"user", "service", "serviceDependency">>
           metrics == <<"metric", "runbook">>
           opening == <<"alert", "incident", "alert", "incidentRunbook">>
           closing == <<"alert", "incident", "alert", "rcaReport", "correctiveAction">>
           records == <<"slaRecord", "auditLog">>
           a == Write(catalog)
           b == a \o Write(metrics)
           c == b \o Write(opening)
           d == c \o Write(closing)
           e == d \o Write(records)
<1>1. e = SeedScript
  BY DEF SeedScript, SeedUsersAndCatalog, SeedMetricsAndRunbook, SeedOpenIncident,
         SeedClosedIncident, SeedSlaAndAudit
<1>2. WellOrdered(a) /\ {"user", "service"} \subseteq WrittenBy(a)
  <2> DEFINE none == <<>>
  <2>1. none \in Seq(Statement) /\ Len(none) = 0
    OBVIOUS
  <2>2. WellOrdered(none)
    BY <2>1 DEF WellOrdered
  <2>3. catalog \in Seq(Tables) /\ Len(catalog) = 3
    BY RequiredNames
  <2>4. \A i \in 1 .. 3 : \A t \in Required[catalog[i]] : i > 1 /\ (t = "user" \/ (i > 2 /\ t = "service"))
    BY RequiredNames
  <2>5. catalog[1] = "user" /\ catalog[2] = "service"
    OBVIOUS
  <2> HIDE DEF catalog, none
  <2>6. \A i \in 1 .. 3 : \A t \in Required[catalog[i]] : \E j \in 1 .. i - 1 : catalog[j] = t
    BY <2>4, <2>5
  <2>7. WellOrdered(none \o Write(catalog)) /\ {"user", "service"} \subseteq WrittenBy(none \o Write(catalog))
    BY <2>2, <2>3, <2>5, <2>6, WriteMore
  <2>8. none \o Write(catalog) = Write(catalog)
    BY <2>3, WriteIs, ConcatEmptySeq DEF none
  <2> QED
    BY <2>7, <2>8
<1> HIDE DEF a
<1>3. WellOrdered(b) /\ {"user", "service", "runbook"} \subseteq WrittenBy(b)
  <2>1. metrics \in Seq(Tables) /\ Len(metrics) = 2 /\ metrics[2] = "runbook"
    BY RequiredNames
  <2>2. \A i \in 1 .. 2 : \A t \in Required[metrics[i]] : t \in WrittenBy(a)
    BY <1>2, RequiredNames
  <2> HIDE DEF metrics
  <2> QED
    BY <1>2, <2>1, <2>2, WriteMore
<1> HIDE DEF b
<1>4. WellOrdered(c) /\ {"user", "service", "runbook"} \subseteq WrittenBy(c)
  <2>1. opening \in Seq(Tables) /\ Len(opening) = 4 /\ opening[2] = "incident"
    BY RequiredNames
  <2>2. \A i \in 1 .. 4 : \A t \in Required[opening[i]] :
          t \in {"service", "runbook"} \/ (i > 2 /\ t = "incident")
    BY RequiredNames
  <2> HIDE DEF opening
  <2>3. \A i \in 1 .. 4 : \A t \in Required[opening[i]] :
          t \in WrittenBy(b) \/ \E j \in 1 .. i - 1 : opening[j] = t
    BY <1>3, <2>1, <2>2
  <2> QED
    BY <1>3, <2>1, <2>3, WriteMore
<1> HIDE DEF c
<1>5. WellOrdered(d) /\ {"user", "service", "runbook"} \subseteq WrittenBy(d)
  <2>1. closing \in Seq(Tables) /\ Len(closing) = 5 /\ closing[2] = "incident" /\ closing[4] = "rcaReport"
    BY RequiredNames
  <2>2. \A i \in 1 .. 5 : \A t \in Required[closing[i]] :
          t \in {"service", "user"} \/ (i > 2 /\ t = "incident") \/ (i > 4 /\ t = "rcaReport")
    BY RequiredNames
  <2> HIDE DEF closing
  <2>3. \A i \in 1 .. 5 : \A t \in Required[closing[i]] :
          t \in WrittenBy(c) \/ \E j \in 1 .. i - 1 : closing[j] = t
    BY <1>4, <2>1, <2>2
  <2> QED
    BY <1>4, <2>1, <2>3, WriteMore
<1> HIDE DEF d
<1>6. WellOrdered(e)
  <2>1. records \in Seq(Tables) /\ Len(records) = 2
    BY RequiredNames
  <2>2. \A i \in 1 .. 2 : \A t \in Required[records[i]] : t \in WrittenBy(d)
    BY <1>5, RequiredNames
  <2> HIDE DEF records
  <2> QED
    BY <1>5, <2>1, <2>2, WriteMore
<1> QED
  BY <1>1, <1>6

-----------------------------------------------------------------------------

\* What the rest of a script still can rely on: a table it is to delete from is
\* one that nothing refers to that is not deleted before (unless the platform
\* has written since), and what its rows refer to is there or written before.
RestFits(s, there, late) ==
    /\ s \in Seq(Statement)
    /\ \A i \in 1 .. Len(s) :
         IF s[i].deletes
         THEN /\ \A j \in 1 .. i : s[j].deletes
              /\ ~late => \A u \in Tables : s[i].table \in Restricts[u] =>
                            u \notin there \/ \E j \in 1 .. i - 1 : s[j].table = u
         ELSE \A t \in Required[s[i].table] :
                \/ ~s[1].deletes /\ t \in there
                \/ \E j \in 1 .. i - 1 : ~s[j].deletes /\ s[j].table = t

ScriptInv == rows \subseteq Tables /\ met \in BOOLEAN /\ RestFits(script, rows, met) /\ ScriptsAreAccepted

LEMMA TailIs ==
    ASSUME NEW s \in Seq(Statement), s # <<>>
    PROVE  /\ Head(s) = s[1] /\ s[1] \in Statement /\ Tail(s) \in Seq(Statement)
           /\ Len(s) \in Nat /\ Len(s) >= 1 /\ Len(Tail(s)) = Len(s) - 1
           /\ \A i \in 1 .. Len(s) - 1 : Tail(s)[i] = s[i + 1]
  OBVIOUS

LEMMA WellOrderedFits ==
    ASSUME NEW s, WellOrdered(s), NEW there, NEW late PROVE RestFits(s, there, late)
  BY DEF WellOrdered, RestFits

\* A statement that is taken away leaves a rest that fits.
LEMMA DeleteKeeps == ScriptInv /\ DeleteMany => ScriptInv'
<1> SUFFICES ASSUME ScriptInv, DeleteMany PROVE ScriptInv'
  OBVIOUS
<1> DEFINE t == Head(script).table
           r == Tail(script)
<1>1. /\ script \in Seq(Statement) /\ script # <<>> /\ script[1].deletes /\ t = script[1].table
      /\ rows' = rows \ Gone(t) /\ script' = r /\ met' = met /\ failed' = failed
      /\ Len(script) \in Nat /\ Len(script) >= 1
      /\ r \in Seq(Statement) /\ Len(r) = Len(script) - 1
      /\ \A i \in 1 .. Len(script) - 1 : r[i] = script[i + 1]
  BY TailIs DEF ScriptInv, RestFits, DeleteMany
<1>2. t \in Gone(t)
  BY DEF Gone
<1> HIDE DEF t, r
<1>3. ASSUME NEW i \in 1 .. Len(r)
      PROVE  IF r[i].deletes
             THEN /\ \A j \in 1 .. i : r[j].deletes
                  /\ ~met => \A u \in Tables : r[i].table \in Restricts[u] =>
                               u \notin rows' \/ \E j \in 1 .. i - 1 : r[j].table = u
             ELSE \A q \in Required[r[i].table] :
                    \/ ~r[1].deletes /\ q \in rows'
                    \/ \E j \in 1 .. i - 1 : ~r[j].deletes /\ r[j].table = q
  <2>1. PICK k \in 2 .. Len(script) : k = i + 1 /\ k \in 1 .. Len(script) /\ r[i] = script[k]
    BY <1>1
  <2>2. \A j \in 2 .. k : j - 1 \in 1 .. i /\ r[j - 1] = script[j]
    <3>1. ASSUME NEW j \in 2 .. k PROVE j - 1 \in 1 .. i /\ r[j - 1] = script[j]
      <4>1. PICK m \in 1 .. Len(script) - 1 : m = j - 1 /\ m + 1 = j /\ m \in 1 .. i
        BY <1>1, <2>1
      <4> QED
        BY <1>1, <4>1
    <3> QED
      BY <3>1
  <2>3. \A j \in 1 .. i : j + 1 \in 1 .. k /\ r[j] = script[j + 1]
    BY <1>1, <2>1
  <2>4. IF script[k].deletes
        THEN /\ \A j \in 1 .. k : script[j].deletes
             /\ ~met => \A u \in Tables : script[k].table \in Restricts[u] =>
                          u \notin rows \/ \E j \in 1 .. k - 1 : script[j].table = u
        ELSE \A q \in Required[script[k].table] :
               \/ ~script[1].deletes /\ q \in rows
               \/ \E j \in 1 .. k - 1 : ~script[j].deletes /\ script[j].table = q
    BY <2>1 DEF ScriptInv, RestFits
  <2>5. CASE r[i].deletes
    <3>1. \A j \in 1 .. i : r[j].deletes
      BY <2>1, <2>3, <2>4, <2>5
    <3>2. ASSUME ~met, NEW u \in Tables, r[i].table \in Restricts[u], u \in rows'
          PROVE  \E j \in 1 .. i - 1 : r[j].table = u
      <4>1. u \in rows /\ u # t
        BY <1>1, <1>2, <3>2
      <4>2. PICK j \in 1 .. k - 1 : script[j].table = u
        BY <2>1, <2>4, <2>5, <3>2, <4>1
      <4>3. j # 1
        BY <1>1, <4>1, <4>2
      <4>4. PICK m \in 1 .. i - 1 : m = j - 1
        BY <1>1, <2>1, <4>2, <4>3
      <4>5. r[m] = script[j]
        BY <1>1, <2>1, <2>2, <4>2, <4>3, <4>4
      <4> QED
        BY <4>2, <4>4, <4>5
    <3> QED
      BY <2>5, <3>1, <3>2
  <2>6. CASE ~r[i].deletes
    <3>1. ASSUME NEW q \in Required[r[i].table]
          PROVE  \E j \in 1 .. i - 1 : ~r[j].deletes /\ r[j].table = q
      <4>1. PICK j \in 1 .. k - 1 : ~script[j].deletes /\ script[j].table = q
        BY <1>1, <2>1, <2>4, <2>6, <3>1
      <4>2. j # 1
        BY <1>1, <4>1
      <4>3. PICK m \in 1 .. i - 1 : m = j - 1
        BY <1>1, <2>1, <4>1, <4>2
      <4>4. r[m] = script[j]
        BY <1>1, <2>1, <2>2, <4>1, <4>2, <4>3
      <4> QED
        BY <4>1, <4>3, <4>4
    <3> QED
      BY <2>6, <3>1
  <2> QED
    BY <2>5, <2>6
<1>4. RestFits(script', rows', met')
  <2>1. RestFits(r, rows', met)
    BY <1>1, <1>3 DEF RestFits
  <2> QED
    BY <1>1, <2>1
<1> QED
  BY <1>1, <1>4 DEF ScriptInv, ScriptsAreAccepted

LEMMA WriteKeeps == ScriptInv /\ WriteRows => ScriptInv'
<1> SUFFICES ASSUME ScriptInv, WriteRows PROVE ScriptInv'
  OBVIOUS
<1> DEFINE t == Head(script).table
           r == Tail(script)
<1>1. /\ script \in Seq(Statement) /\ script # <<>> /\ ~script[1].deletes /\ t = script[1].table
      /\ rows' = rows \cup {t} /\ script' = r /\ met' = met /\ failed' = failed
      /\ Len(script) \in Nat /\ Len(script) >= 1 /\ t \in Tables
      /\ r \in Seq(Statement) /\ Len(r) = Len(script) - 1
      /\ \A i \in 1 .. Len(script) - 1 : r[i] = script[i + 1]
  BY TailIs DEF ScriptInv, RestFits, WriteRows, Statement
<1> HIDE DEF t, r
\* Nothing is deleted once something is written.
<1>2. \A k \in 1 .. Len(script) : ~script[k].deletes
  BY <1>1 DEF ScriptInv, RestFits
<1>3. ASSUME NEW i \in 1 .. Len(r)
      PROVE  /\ ~r[i].deletes
             /\ \A q \in Required[r[i].table] :
                  \/ ~r[1].deletes /\ q \in rows'
                  \/ \E j \in 1 .. i - 1 : ~r[j].deletes /\ r[j].table = q
  <2>1. PICK k \in 2 .. Len(script) : k = i + 1 /\ k \in 1 .. Len(script) /\ r[i] = script[k]
    BY <1>1
  <2>2. ~r[i].deletes /\ ~r[1].deletes
    <3>1. 2 \in 1 .. Len(script) /\ r[1] = script[2]
      BY <1>1, <2>1
    <3> QED
      BY <1>2, <2>1, <3>1
  <2>3. ASSUME NEW q \in Required[r[i].table], q \notin rows'
        PROVE  \E j \in 1 .. i - 1 : ~r[j].deletes /\ r[j].table = q
    <3>1. ~script[k].deletes /\ q \notin rows /\ q # t
      BY <1>1, <1>2, <2>1, <2>3
    <3>2. \A p \in Required[script[k].table] :
             \/ ~script[1].deletes /\ p \in rows
             \/ \E j \in 1 .. k - 1 : ~script[j].deletes /\ script[j].table = p
      BY <2>1, <3>1 DEF ScriptInv, RestFits
    <3>3. PICK j \in 1 .. k - 1 : ~script[j].deletes /\ script[j].table = q
      BY <2>1, <2>3, <3>1, <3>2
    <3>4. j # 1
      BY <1>1, <3>1, <3>3
    <3>5. PICK m \in 1 .. i - 1 : m = j - 1 /\ m \in 1 .. Len(script) - 1 /\ m + 1 = j
      BY <1>1, <2>1, <3>3, <3>4
    <3>6. r[m] = script[j]
      BY <1>1, <3>5
    <3> QED
      BY <3>3, <3>5, <3>6
  <2> QED
    BY <2>2, <2>3
<1>4. RestFits(script', rows', met')
  <2>1. RestFits(r, rows', met)
    BY <1>1, <1>3 DEF RestFits
  <2> QED
    BY <1>1, <2>1
<1> QED
  BY <1>1, <1>4 DEF ScriptInv, ScriptsAreAccepted

\* A statement is refused only where the platform has come in between.
LEMMA RefusalHasCause == ScriptInv /\ StatementRefused => met
<1> SUFFICES ASSUME ScriptInv, StatementRefused, ~met PROVE FALSE
  OBVIOUS
<1> DEFINE t == Head(script).table
<1>1. /\ script \in Seq(Statement) /\ script # <<>> /\ Head(script) = script[1] /\ t = script[1].table
      /\ Len(script) \in Nat /\ Len(script) >= 1 /\ 1 \in 1 .. Len(script)
      /\ rows \subseteq Tables
  BY TailIs DEF ScriptInv, RestFits, StatementRefused
<1>2. IF script[1].deletes THEN Restricted(t) ELSE ~(Required[t] \subseteq rows)
  BY <1>1 DEF StatementRefused
<1> HIDE DEF t
<1>3. CASE script[1].deletes
  <2>1. PICK u \in rows : t \in Restricts[u]
    BY <1>2, <1>3 DEF Restricted
  <2>2. \A v \in Tables : t \in Restricts[v] => v \notin rows \/ \E j \in 1 .. 1 - 1 : script[j].table = v
    BY <1>1, <1>3 DEF ScriptInv, RestFits
  <2> QED
    BY <1>1, <2>1, <2>2
<1>4. CASE ~script[1].deletes
  <2>1. \A q \in Required[t] : q \in rows \/ \E j \in 1 .. 1 - 1 : ~script[j].deletes /\ script[j].table = q
    BY <1>1, <1>4 DEF ScriptInv, RestFits
  <2> QED
    BY <1>2, <1>4, <2>1
<1> QED
  BY <1>3, <1>4

\* Nothing is left of a script that has ended.
LEMMA NothingFits == ASSUME NEW there, NEW late PROVE RestFits(<<>>, there, late)
<1>1. <<>> \in Seq(Statement) /\ Len(<<>>) = 0
  OBVIOUS
<1> QED
  BY <1>1 DEF RestFits

LEMMA PlatformKeeps ==
    ASSUME ScriptInv, NEW t \in PlatformTables, PlatformWrites(t)
    PROVE  ScriptInv'
<1>1. /\ rows' = rows \cup {t} /\ script' = script /\ failed' = failed
      /\ met' = (met \/ script # <<>>) /\ t \in Tables
  BY PlatformAssumption DEF PlatformWrites
<1>2. RestFits(script', rows', met')
  <2>1. CASE script = <<>>
    <3>1. script' \in Seq(Statement) /\ Len(script') = 0
      BY <1>1, <2>1
    <3> QED
      BY <3>1 DEF RestFits
  <2>2. CASE script # <<>>
    <3>1. met' = TRUE
      BY <1>1, <2>2
    <3> QED
      BY <1>1, <3>1 DEF ScriptInv, RestFits
  <2> QED
    BY <2>1, <2>2
<1>3. met' \in BOOLEAN /\ rows' \subseteq Tables /\ (failed' => met')
  BY <1>1 DEF ScriptInv, ScriptsAreAccepted
<1> QED
  BY <1>2, <1>3 DEF ScriptInv, ScriptsAreAccepted

\* Whatever the scripts before were cut off at, and whatever tables the platform
\* has written in between, no foreign key refuses a statement of prisma/seed.ts
\* or of the history script unless the platform writes while it runs.
THEOREM ScriptsAreAcceptedHolds == SeedInit /\ [][SeedNext]_seedVars => []ScriptsAreAccepted
<1>1. SeedInit => ScriptInv
  BY NothingFits DEF SeedInit, ScriptInv, ScriptsAreAccepted
<1>2. ScriptInv /\ [SeedNext]_seedVars => ScriptInv'
  <2> SUFFICES ASSUME ScriptInv, [SeedNext]_seedVars PROVE ScriptInv'
    OBVIOUS
  <2>1. CASE RunSeed
    BY <2>1, SeedIsWellOrdered, WellOrderedFits DEF RunSeed, ScriptInv, ScriptsAreAccepted
  <2>2. CASE RunHistory
    BY <2>2, HistoryIsWellOrdered, WellOrderedFits DEF RunHistory, ScriptInv, ScriptsAreAccepted
  <2>3. CASE DeleteMany
    BY <2>3, DeleteKeeps
  <2>4. CASE WriteRows
    BY <2>4, WriteKeeps
  <2>5. CASE StatementRefused
    <3>1. met /\ script' = <<>> /\ rows' = rows /\ met' = met
      BY <2>5, RefusalHasCause DEF StatementRefused
    <3> QED
      BY <3>1, NothingFits DEF ScriptInv, ScriptsAreAccepted
  <2>6. CASE CutOff
    BY <2>6, NothingFits DEF CutOff, ScriptInv, ScriptsAreAccepted
  <2>7. CASE \E t \in PlatformTables : PlatformWrites(t)
    BY <2>7, PlatformKeeps
  <2>8. CASE UNCHANGED seedVars
    BY <2>8 DEF seedVars, ScriptInv, ScriptsAreAccepted
  <2> QED
    BY <2>1, <2>2, <2>3, <2>4, <2>5, <2>6, <2>7, <2>8 DEF SeedNext
<1>3. ScriptInv => ScriptsAreAccepted
  BY DEF ScriptInv
<1> QED
  BY <1>1, <1>2, <1>3, PTL

-----------------------------------------------------------------------------
(* The stories.                                                            *)

Story ==
    [ firstAlertFiredAt : Int, openedAt : Int, acknowledgedAt : Int, ackBreach : BOOLEAN,
      escalationLevel : Int, lastEscalatedAt : Int \cup {NotYet},
      mitigatedAt : Int \cup {NotYet}, resolvedAt : Int \cup {NotYet},
      closedAt : Int \cup {NotYet}, status : {"ACKNOWLEDGED", "RESOLVED", "CLOSED"},
      rca : {"NONE", "DRAFT", "IN_REVIEW", "APPROVED"},
      author : Responders \cup {NotYet}, reviewer : Commanders \cup {NotYet},
      publishedAt : Int \cup {NotYet}, executedAt : Seq(Int) ]

Beat ==
    [severity : Severity, inProgress : BOOLEAN, end : Int, now : Int]

StoryTypeOK ==
    /\ parts \in 0 .. 7 /\ story \in Story /\ beat \in Beat
    /\ IF beat.inProgress THEN beat.now = beat.end ELSE beat.end <= beat.now

\* What is known of each part of the row once it is made up.
Opened == parts >= 1 => story.firstAlertFiredAt <= story.openedAt

Acknowledged ==
    parts >= 2 => /\ story.openedAt < story.acknowledgedAt
                  /\ story.openedAt + Minutes(1) <= beat.end => story.acknowledgedAt <= beat.end

Escalated ==
    IF parts <= 2 THEN story.escalationLevel = 0
                  ELSE story.escalationLevel # 0 =>
                         story.lastEscalatedAt \in story.openedAt .. story.acknowledgedAt

Resolved ==
    IF parts <= 3 \/ beat.inProgress
    THEN story.closedAt = NotYet
    ELSE /\ story.resolvedAt \in Int /\ beat.end <= story.resolvedAt
         /\ story.closedAt # NotYet => story.resolvedAt <= story.closedAt

Mitigated ==
    parts >= 5 =>
      IF beat.inProgress THEN story.mitigatedAt \in beat.now - Minutes(10) .. beat.now
      ELSE story.acknowledgedAt <= story.resolvedAt =>
             story.mitigatedAt \in story.acknowledgedAt .. story.resolvedAt

StoryInv == StoryTypeOK /\ Opened /\ Acknowledged /\ Escalated /\ Resolved /\ Mitigated

LEMMA StoryTypes ==
    ASSUME StoryInv
    PROVE  /\ story \in Story /\ beat \in Beat /\ parts \in 0 .. 7
           /\ story.firstAlertFiredAt \in Int /\ story.openedAt \in Int
           /\ story.acknowledgedAt \in Int /\ beat.severity \in Severity
           /\ beat.end \in Int /\ beat.now \in Int
           /\ story.ackBreach \in BOOLEAN /\ story.closedAt \in Int \cup {NotYet}
           /\ story.openedAt + Minutes(1) \in Int
<1>1. story \in Story /\ beat \in Beat /\ parts \in 0 .. 7
  BY DEF StoryInv, StoryTypeOK
<1> QED
  BY <1>1 DEF Story, Beat, Minutes

LEMMA StoryInitInv == StoryInit => StoryInv
<1> SUFFICES ASSUME StoryInit PROVE StoryInv
  OBVIOUS
<1>1. NoStory \in Story /\ NoStory.escalationLevel = 0 /\ NoStory.closedAt = NotYet
  BY DEF NoStory, Story
<1>2. \A s \in Severity : SeverityDurationMinutes[s] \subseteq Int
  BY DEF Severity, SeverityDurationMinutes, RandInt
<1>3. beat \in Beat /\ IF beat.inProgress THEN beat.now = beat.end ELSE beat.end <= beat.now
  <2>1. ASSUME NEW n \in Leads PROVE BeatUnderway(n) \in Beat /\ BeatUnderway(n).inProgress
                                     /\ BeatUnderway(n).now = BeatUnderway(n).end
    <3>1. n \in Int
      BY StoryAssumption
    <3> QED
      BY <3>1 DEF BeatUnderway, Beat, Severity, Minutes
  <2>2. ASSUME NEW s \in Severity, NEW d \in SeverityDurationMinutes[s], NEW age \in Ages
        PROVE  BeatOver(s, d, age) \in Beat /\ ~BeatOver(s, d, age).inProgress
               /\ BeatOver(s, d, age).end <= BeatOver(s, d, age).now
    <3>1. d \in Int /\ age \in Nat
      BY <1>2, StoryAssumption
    <3> QED
      BY <3>1 DEF BeatOver, Beat, Minutes
  <2> QED
    BY <2>1, <2>2 DEF StoryInit, BuildBeat
<1> QED
  BY <1>1, <1>3
     DEF StoryInit, StoryInv, StoryTypeOK, Opened, Acknowledged, Escalated, Resolved, Mitigated

\* The policy, in half minutes: an SLA is a whole number of tens of them.
LEMMA PolicyFacts ==
    ASSUME NEW s \in Severity
    PROVE  /\ AckSla(s) \in Nat /\ AckSla(s) >= 10 /\ EscalateAfter(s) \in Nat
           /\ SeverityLevels[s].chain \in Nat \ {0}
           /\ DetectionDelayMinutes[s] \subseteq Nat \ {0}
  BY DEF AckSla, EscalateAfter, Minutes, Severity, SeverityLevels, DetectionDelayMinutes, RandInt

LEMMA OpenStoryKeeps == ASSUME StoryInv, OpenStory PROVE StoryInv'
<1>1. PICK offset \in {-2, 0, 2}, delay \in DetectionDelayMinutes[beat.severity] :
        story' = [story EXCEPT !.firstAlertFiredAt = Minutes(offset),
                               !.openedAt = Minutes(offset) + Minutes(delay)]
  BY DEF OpenStory
<1>2. delay \in Nat \ {0}
  BY PolicyFacts, StoryTypes
<1>3. PICK a \in Int, o \in Int : a = Minutes(offset) /\ o = a + Minutes(delay) /\ a <= o
  BY <1>2 DEF Minutes
<1>4. /\ story' \in Story /\ story'.firstAlertFiredAt = a /\ story'.openedAt = o
      /\ story'.escalationLevel = story.escalationLevel /\ story'.closedAt = story.closedAt
  BY <1>1, <1>3, StoryTypes DEF Story
<1>5. parts = 0 /\ parts' = 1 /\ beat' = beat
  <2>1. Part(0)
    BY DEF OpenStory
  <2> QED
    BY <2>1 DEF Part
<1> QED
  BY <1>3, <1>4, <1>5
     DEF StoryInv, StoryTypeOK, Opened, Acknowledged, Escalated, Resolved, Mitigated

\* Who acknowledges does so a minute after the opening or later; and, if that
\* leaves the time, before the beat ends.
LEMMA ClippedFacts ==
    ASSUME StoryInv, NEW ack \in Int, story.openedAt < ack
    PROVE  /\ Clipped(ack) \in Int /\ story.openedAt < Clipped(ack)
           /\ story.openedAt + Minutes(1) <= beat.end => Clipped(ack) <= beat.end
  BY StoryTypes DEF Clipped, Minutes, AtLeast

LEMMA AcknowledgeStoryKeeps == ASSUME StoryInv, AcknowledgeStory PROVE StoryInv'
<1> DEFINE InTime == \E ack \in Int, breach \in BOOLEAN :
         /\ story.openedAt < ack
         /\ story' = [story EXCEPT !.ackBreach = breach, !.acknowledgedAt = Clipped(ack)]
<1>0. /\ story \in Story /\ beat \in Beat /\ story.openedAt \in Int /\ beat.severity \in Severity
      /\ story.ackBreach \in BOOLEAN
  BY StoryTypes
<1>1. InTime
  <2>1. ASSUME NEW n \in RandInt(1, 4),
               story' = [story EXCEPT !.acknowledgedAt = Clipped(story.openedAt + Minutes(n))]
        PROVE  InTime
    <3>1. n \in Int /\ 1 <= n
      BY DEF RandInt
    <3>2. PICK ack \in Int : ack = story.openedAt + Minutes(n) /\ story.openedAt < ack
      BY <1>0, <3>1 DEF Minutes
    <3>3. story' = [story EXCEPT !.ackBreach = story.ackBreach, !.acknowledgedAt = Clipped(ack)]
      BY <1>0, <2>1, <3>2 DEF Story
    <3> QED
      BY <1>0, <3>2, <3>3
  <2>2. ASSUME NEW breach \in BOOLEAN, NEW n \in AckTenths(breach),
               story' = [story EXCEPT !.ackBreach = breach, !.acknowledgedAt =
                           Clipped(story.openedAt + (AckSla(beat.severity) * n) \div 10)]
        PROVE  InTime
    <3>1. n \in Int /\ 2 <= n
      BY DEF AckTenths, RandInt
    <3>2. PICK sla \in Nat : sla = AckSla(beat.severity) /\ sla >= 10
      BY <1>0, PolicyFacts
    <3>3. PICK x \in Int : x = sla * n /\ x >= 20
      <4>1. sla * n >= 10 * n
        BY <3>1, <3>2
      <4> QED
        BY <3>1, <3>2, <4>1
    <3>4. PICK ack \in Int : ack = story.openedAt + x \div 10 /\ story.openedAt < ack
      BY <1>0, <3>3
    <3>5. story' = [story EXCEPT !.ackBreach = breach, !.acknowledgedAt = Clipped(ack)]
      BY <2>2, <3>2, <3>3, <3>4
    <3> QED
      BY <3>4, <3>5
  <2> QED
    BY <2>1, <2>2 DEF AcknowledgeStory
<1>2. PICK ack \in Int, breach \in BOOLEAN :
         /\ story.openedAt < ack
         /\ story' = [story EXCEPT !.ackBreach = breach, !.acknowledgedAt = Clipped(ack)]
  BY <1>1
<1>3. PICK a \in Int : /\ a = Clipped(ack) /\ story.openedAt < a
                       /\ story.openedAt + Minutes(1) <= beat.end => a <= beat.end
  BY <1>2, ClippedFacts
<1>4. /\ story' \in Story /\ story'.acknowledgedAt = a
      /\ story'.firstAlertFiredAt = story.firstAlertFiredAt /\ story'.openedAt = story.openedAt
      /\ story'.escalationLevel = story.escalationLevel /\ story'.closedAt = story.closedAt
  BY <1>0, <1>2, <1>3 DEF Story
<1>5. parts = 1 /\ parts' = 2 /\ beat' = beat
  <2>1. Part(1)
    BY DEF AcknowledgeStory
  <2> QED
    BY <2>1 DEF Part
<1> QED
  BY <1>3, <1>4, <1>5
     DEF StoryInv, StoryTypeOK, Opened, Acknowledged, Escalated, Resolved, Mitigated

LEMMA EscalateStoryKeeps == ASSUME StoryInv, EscalateStory PROVE StoryInv'
<1>0. /\ story \in Story /\ beat \in Beat /\ story.openedAt \in Int /\ story.acknowledgedAt \in Int
      /\ beat.severity \in Severity
  BY StoryTypes
<1>3. parts = 2 /\ parts' = 3 /\ beat' = beat
  <2>1. Part(2)
    BY DEF EscalateStory
  <2> QED
    BY <2>1 DEF Part
<1>4. story.openedAt < story.acknowledgedAt
  BY <1>3 DEF StoryInv, Acknowledged
<1>1. CASE ~story.ackBreach
  <2>1. story' = story
    BY <1>1 DEF EscalateStory
  <2> QED
    BY <1>3, <2>1
       DEF StoryInv, StoryTypeOK, Opened, Acknowledged, Escalated, Resolved, Mitigated
<1>2. CASE story.ackBreach
  <2>1. PICK n \in RandInt(1, 2) :
          story' = [story EXCEPT
            !.escalationLevel = AtMost(n, SeverityLevels[beat.severity].chain),
            !.lastEscalatedAt = EscalatedAt(story.openedAt + AckSla(beat.severity)
                 + EscalateAfter(beat.severity) * AtMost(n, SeverityLevels[beat.severity].chain))]
    BY <1>2 DEF EscalateStory
  <2>2. PICK level \in Int : level >= 0 /\ level = AtMost(n, SeverityLevels[beat.severity].chain)
    BY <1>0, PolicyFacts DEF AtMost, RandInt
  <2>3. PICK wait \in Nat : wait = EscalateAfter(beat.severity) * level
    BY <1>0, <2>2, PolicyFacts
  <2>4. PICK at \in Int : at = EscalatedAt(story.openedAt + AckSla(beat.severity) + wait)
                          /\ at \in story.openedAt .. story.acknowledgedAt
    BY <1>0, <1>4, <2>3, PolicyFacts DEF EscalatedAt, AtMost
  <2>5. /\ story' \in Story /\ story'.lastEscalatedAt = at
        /\ story'.firstAlertFiredAt = story.firstAlertFiredAt /\ story'.openedAt = story.openedAt
        /\ story'.acknowledgedAt = story.acknowledgedAt /\ story'.closedAt = story.closedAt
    <3>1. story' = [story EXCEPT !.escalationLevel = level, !.lastEscalatedAt = at]
      BY <2>1, <2>2, <2>3, <2>4
    <3> QED
      BY <1>0, <3>1 DEF Story
  <2> QED
    BY <1>3, <2>4, <2>5
       DEF StoryInv, StoryTypeOK, Opened, Acknowledged, Escalated, Resolved, Mitigated
<1> QED
  BY <1>1, <1>2

LEMMA ResolveStoryKeeps == ASSUME StoryInv, ResolveStory PROVE StoryInv'
<1>0. story \in Story /\ beat \in Beat /\ beat.end \in Int /\ beat.now \in Int
  BY StoryTypes
<1>3. parts = 3 /\ parts' = 4 /\ beat' = beat
  <2>1. Part(3)
    BY DEF ResolveStory
  <2> QED
    BY <2>1 DEF Part
<1>1. CASE beat.inProgress
  <2>1. story' = story
    BY <1>1 DEF ResolveStory
  <2> QED
    BY <1>1, <1>3, <2>1
       DEF StoryInv, StoryTypeOK, Opened, Acknowledged, Escalated, Resolved, Mitigated
<1>2. CASE ~beat.inProgress
  <2>1. PICK n \in RandInt(0, 5),
             hours \in IF RequiresRcaToClose(beat.severity) THEN RandInt(24, 120) ELSE RandInt(1, 48) :
          LET resolved == AtMost(beat.end + Minutes(n), beat.now)
              closed == resolved + Hours(hours)
          IN story' = [story EXCEPT !.resolvedAt = resolved,
                                    !.closedAt = IF closed <= beat.now THEN closed ELSE NotYet,
                                    !.status = IF closed <= beat.now THEN "CLOSED" ELSE "RESOLVED"]
    BY <1>2 DEF ResolveStory
  <2>2. n \in Nat /\ hours \in Nat
    BY DEF RandInt
  <2>3. PICK resolved \in Int : /\ resolved = AtMost(beat.end + Minutes(n), beat.now)
                                /\ beat.end <= resolved
    BY <1>0, <1>2, <2>2 DEF AtMost, Minutes, StoryInv, StoryTypeOK
  <2>4. PICK closed \in Int : closed = resolved + Hours(hours) /\ resolved <= closed
    BY <2>2, <2>3 DEF Hours
  <2>5. PICK at \in {closed, NotYet} : at = IF closed <= beat.now THEN closed ELSE NotYet
    OBVIOUS
  <2>6. PICK status \in {"CLOSED", "RESOLVED"} :
          status = IF closed <= beat.now THEN "CLOSED" ELSE "RESOLVED"
    OBVIOUS
  <2>7. story' = [story EXCEPT !.resolvedAt = resolved, !.closedAt = at, !.status = status]
    BY <2>1, <2>3, <2>4, <2>5, <2>6
  <2>8. /\ story' \in Story /\ story'.resolvedAt = resolved /\ story'.closedAt = at
        /\ story'.firstAlertFiredAt = story.firstAlertFiredAt /\ story'.openedAt = story.openedAt
        /\ story'.acknowledgedAt = story.acknowledgedAt
        /\ story'.escalationLevel = story.escalationLevel
        /\ story'.lastEscalatedAt = story.lastEscalatedAt
    BY <1>0, <2>3, <2>4, <2>7 DEF Story
  <2>9. at # NotYet => resolved <= at
    BY <2>4
  <2> QED
    BY <1>2, <1>3, <2>3, <2>8, <2>9
       DEF StoryInv, StoryTypeOK, Opened, Acknowledged, Escalated, Resolved, Mitigated
<1> QED
  BY <1>1, <1>2

LEMMA MitigateStoryKeeps == ASSUME StoryInv, MitigateStory PROVE StoryInv'
<1>0. story \in Story /\ beat \in Beat /\ story.acknowledgedAt \in Int /\ beat.now \in Int
  BY StoryTypes
<1>4. parts = 4 /\ parts' = 5 /\ beat' = beat
  <2>1. Part(4)
    BY DEF MitigateStory
  <2> QED
    BY <2>1 DEF Part
<1>1. \E at \in Int : /\ story' = [story EXCEPT !.mitigatedAt = at]
                      /\ IF beat.inProgress THEN at \in beat.now - Minutes(10) .. beat.now
                         ELSE story.acknowledgedAt <= story.resolvedAt =>
                                at \in story.acknowledgedAt .. story.resolvedAt
  <2>1. CASE beat.inProgress
    <3>1. PICK n \in RandInt(2, 10) : story' = [story EXCEPT !.mitigatedAt = beat.now - Minutes(n)]
      BY <2>1 DEF MitigateStory
    <3>2. beat.now - Minutes(n) \in beat.now - Minutes(10) .. beat.now
      BY <1>0 DEF RandInt, Minutes
    <3> QED
      BY <2>1, <3>1, <3>2
  <2>2. CASE ~beat.inProgress
    <3>1. story.resolvedAt \in Int
      BY <1>4, <2>2 DEF StoryInv, Resolved
    <3>2. PICK at \in Int : /\ at = story.acknowledgedAt
                                      + ((story.resolvedAt - story.acknowledgedAt) * 6) \div 10
                            /\ story.acknowledgedAt <= story.resolvedAt =>
                                 at \in story.acknowledgedAt .. story.resolvedAt
      BY <1>0, <3>1
    <3> QED
      BY <2>2, <3>2 DEF MitigateStory
  <2> QED
    BY <2>1, <2>2
<1>2. PICK at \in Int : /\ story' = [story EXCEPT !.mitigatedAt = at]
                        /\ IF beat.inProgress THEN at \in beat.now - Minutes(10) .. beat.now
                           ELSE story.acknowledgedAt <= story.resolvedAt =>
                                  at \in story.acknowledgedAt .. story.resolvedAt
  BY <1>1
<1>3. /\ story' \in Story /\ story'.mitigatedAt = at /\ story'.resolvedAt = story.resolvedAt
      /\ story'.closedAt = story.closedAt
      /\ story'.firstAlertFiredAt = story.firstAlertFiredAt /\ story'.openedAt = story.openedAt
      /\ story'.acknowledgedAt = story.acknowledgedAt
      /\ story'.escalationLevel = story.escalationLevel
      /\ story'.lastEscalatedAt = story.lastEscalatedAt
  BY <1>0, <1>2 DEF Story
<1> QED
  BY <1>2, <1>3, <1>4
     DEF StoryInv, StoryTypeOK, Opened, Acknowledged, Escalated, Resolved, Mitigated

\* What is made up after the mitigation leaves the stamps before alone.
LEMMA StampsStay ==
    ASSUME StoryInv, parts >= 5, parts' \in 0 .. 7, parts' >= 5, beat' = beat, story' \in Story,
           story'.firstAlertFiredAt = story.firstAlertFiredAt, story'.openedAt = story.openedAt,
           story'.acknowledgedAt = story.acknowledgedAt,
           story'.escalationLevel = story.escalationLevel,
           story'.lastEscalatedAt = story.lastEscalatedAt,
           story'.mitigatedAt = story.mitigatedAt, story'.resolvedAt = story.resolvedAt,
           story'.closedAt = story.closedAt
    PROVE  StoryInv'
  BY DEF StoryInv, StoryTypeOK, Opened, Acknowledged, Escalated, Resolved, Mitigated

LEMMA RunRunbookKeeps == ASSUME StoryInv, RunRunbook PROVE StoryInv'
<1>0. /\ story \in Story /\ beat \in Beat /\ story.acknowledgedAt \in Int /\ beat.now \in Int
      /\ parts = 5 /\ parts' = 6 /\ beat' = beat
  <2>1. Part(5)
    BY DEF RunRunbook
  <2> QED
    BY <2>1, StoryTypes DEF Part
<1>1. story' = story \/ \E runs \in Seq(Int) : story' = [story EXCEPT !.executedAt = runs]
  <2> DEFINE last == IF story.resolvedAt = NotYet THEN beat.now ELSE story.resolvedAt
             half == story.acknowledgedAt + (last - story.acknowledgedAt) \div 2
  <2>1. half \in Int
    BY <1>0 DEF Story
  <2>2. ~beat.inProgress => story.resolvedAt - Minutes(2) \in Int
    BY <1>0 DEF StoryInv, Resolved, Minutes
  <2>3. \/ story' = [story EXCEPT !.executedAt = <<half>>]
        \/ ~beat.inProgress /\ story' = [story EXCEPT !.executedAt = <<half, story.resolvedAt - Minutes(2)>>]
        \/ UNCHANGED story
    BY DEF RunRunbook
  <2> HIDE DEF half
  <2> QED
    <3>1. <<half>> \in Seq(Int) /\ (~beat.inProgress => <<half, story.resolvedAt - Minutes(2)>> \in Seq(Int))
      BY <2>1, <2>2
    <3> QED
      BY <2>3, <3>1
<1>2. CASE story' = story
  BY <1>0, <1>2, StampsStay
<1>3. ASSUME NEW runs \in Seq(Int), story' = [story EXCEPT !.executedAt = runs] PROVE StoryInv'
  <2>1. /\ story' \in Story /\ story'.firstAlertFiredAt = story.firstAlertFiredAt
        /\ story'.openedAt = story.openedAt /\ story'.acknowledgedAt = story.acknowledgedAt
        /\ story'.escalationLevel = story.escalationLevel
        /\ story'.lastEscalatedAt = story.lastEscalatedAt
        /\ story'.mitigatedAt = story.mitigatedAt /\ story'.resolvedAt = story.resolvedAt
        /\ story'.closedAt = story.closedAt
    BY <1>0, <1>3 DEF Story
  <2> QED
    BY <1>0, <2>1, StampsStay
<1> QED
  BY <1>1, <1>2, <1>3

LEMMA WriteReportKeeps == ASSUME StoryInv, WriteReport PROVE StoryInv'
<1>0. story \in Story /\ parts = 6 /\ parts' = 7 /\ beat' = beat
  <2>1. Part(6)
    BY DEF WriteReport
  <2> QED
    BY <2>1, StoryTypes DEF Part
<1>1. CASE story' = story
  BY <1>0, <1>1, StampsStay
<1>2. ASSUME NEW status \in ReportStatus, NEW author \in Responders, NEW reviewer \in Commanders,
             NEW named \in BOOLEAN,
             story' = [story EXCEPT !.rca = status, !.author = author,
                              !.reviewer = IF named THEN reviewer ELSE NotYet,
                              !.publishedAt = IF status = "APPROVED" THEN story.closedAt ELSE NotYet]
      PROVE  StoryInv'
  <2>1. PICK r \in Commanders \cup {NotYet} : r = IF named THEN reviewer ELSE NotYet
    OBVIOUS
  <2>2. PICK p \in Int \cup {NotYet} : p = IF status = "APPROVED" THEN story.closedAt ELSE NotYet
    BY <1>0 DEF Story
  <2>3. status \in {"NONE", "DRAFT", "IN_REVIEW", "APPROVED"}
    BY DEF ReportStatus
  <2>4. story' = [story EXCEPT !.rca = status, !.author = author, !.reviewer = r, !.publishedAt = p]
    BY <1>2, <2>1, <2>2
  <2>5. /\ story' \in Story /\ story'.firstAlertFiredAt = story.firstAlertFiredAt
        /\ story'.openedAt = story.openedAt /\ story'.acknowledgedAt = story.acknowledgedAt
        /\ story'.escalationLevel = story.escalationLevel
        /\ story'.lastEscalatedAt = story.lastEscalatedAt
        /\ story'.mitigatedAt = story.mitigatedAt /\ story'.resolvedAt = story.resolvedAt
        /\ story'.closedAt = story.closedAt
    BY <1>0, <2>3, <2>4 DEF Story
  <2> QED
    BY <1>0, <2>5, StampsStay
<1> QED
  BY <1>1, <1>2 DEF WriteReport

LEMMA StoryStepInv == StoryInv /\ [StoryNext]_storyVars => StoryInv'
<1> SUFFICES ASSUME StoryInv, [StoryNext]_storyVars PROVE StoryInv'
  OBVIOUS
<1>1. CASE UNCHANGED storyVars
  BY <1>1 DEF storyVars, StoryInv, StoryTypeOK, Opened, Acknowledged, Escalated, Resolved, Mitigated
<1> QED
  BY <1>1, OpenStoryKeeps, AcknowledgeStoryKeeps, EscalateStoryKeeps, ResolveStoryKeeps,
     MitigateStoryKeeps, RunRunbookKeeps, WriteReportKeeps DEF StoryNext

\* Whatever randInt draws, whenever a beat lay and however long ago, the stamps
\* of an incident opened a minute before the end of its beat are in order, but
\* for the mitigation of one that was acknowledged ten minutes ago or less and
\* is still in progress.
THEOREM OnlyRushedStoriesBreakOrderHolds ==
    StoryInit /\ [][StoryNext]_storyVars => []OnlyRushedStoriesBreakOrder
<1>1. StoryInv => OnlyRushedStoriesBreakOrder
  <2> SUFFICES ASSUME StoryInv, Complete, story.openedAt + Minutes(1) <= beat.end
               PROVE  OnlyRushedStoriesBreakOrder
    BY StoryTypes DEF OnlyRushedStoriesBreakOrder
  <2>1. parts = 7 /\ story.acknowledgedAt <= beat.end /\ story.openedAt < story.acknowledgedAt
    BY DEF StoryInv, Acknowledged, Complete
  <2>2. CASE beat.inProgress
    <3>1. MitigatedInTurn
      BY <2>1, <2>2, StoryTypes DEF StoryInv, StoryTypeOK, Mitigated, MitigatedInTurn, Minutes
    <3> QED
      BY <2>1, <2>2, <3>1, StoryTypes
         DEF StoryInv, StoryTypeOK, Opened, Escalated, Resolved, OnlyRushedStoriesBreakOrder
  <2>3. CASE ~beat.inProgress
    <3>1. story.acknowledgedAt <= story.resolvedAt
      BY <2>1, <2>3, StoryTypes DEF StoryInv, Resolved
    <3>2. MitigatedInTurn
      BY <2>1, <2>3, <3>1 DEF StoryInv, Mitigated, MitigatedInTurn
    <3> QED
      BY <2>1, <2>3, <3>2, StoryTypes
         DEF StoryInv, Opened, Escalated, Resolved, OnlyRushedStoriesBreakOrder
  <2> QED
    BY <2>2, <2>3
<1> QED
  BY <1>1, StoryInitInv, StoryStepInv, PTL

-----------------------------------------------------------------------------
(* The windows.                                                            *)

Spans == [start : Int, end : Int]
Beats == [kind : {"INCIDENT", "DEGRADED"}, start : Int, end : Int]

\* Every unit of the span is in one of the windows, and no more of them.
Tile(windows, span) ==
    /\ windows \subseteq {w \in Spans : span.start <= w.start /\ w.end <= span.end}
    /\ \A u \in span.start .. span.end - 1 : \E w \in windows : w.start <= u /\ u < w.end
    /\ \A u \in Int : \A v, w \in windows :
         v.start <= u /\ u < v.end /\ w.start <= u /\ u < w.end => v = w

Tenths(b) == IF b.kind = "DEGRADED" THEN 3 ELSE 10

LEMMA TenthsOf ==
    ASSUME NEW b \in Beats, NEW w \in Spans
    PROVE  /\ Tenths(b) \in {3, 10}
           /\ Later(b.start, w.start) \in Int /\ Earlier(b.end, w.end) \in Int
           /\ Later(b.start, w.start) >= b.start /\ Later(b.start, w.start) >= w.start
           /\ Earlier(b.end, w.end) <= b.end /\ Earlier(b.end, w.end) <= w.end
           /\ Later(b.start, w.start) = b.start \/ Later(b.start, w.start) = w.start
           /\ Earlier(b.end, w.end) = b.end \/ Earlier(b.end, w.end) = w.end
           /\ DowntimeInWindow(b, w) \in Nat
           /\ IF Earlier(b.end, w.end) > Later(b.start, w.start)
              THEN DowntimeInWindow(b, w) = Tenths(b) * (Earlier(b.end, w.end) - Later(b.start, w.start))
              ELSE DowntimeInWindow(b, w) = 0
<1>1. b.start \in Int /\ b.end \in Int /\ w.start \in Int /\ w.end \in Int
  BY DEF Beats, Spans
<1>2. Tenths(b) \in {3, 10}
  BY DEF Tenths
<1>3. DowntimeInWindow(b, w) =
        Tenths(b) * Later(0, Earlier(b.end, w.end) - Later(b.start, w.start))
  BY DEF DowntimeInWindow, OverlapTime, Tenths
<1> DEFINE from == Later(b.start, w.start)
           to == Earlier(b.end, w.end)
<1>4. /\ from \in Int /\ to \in Int
      /\ from >= b.start /\ from >= w.start /\ to <= b.end /\ to <= w.end
      /\ from = b.start \/ from = w.start
      /\ to = b.end \/ to = w.end
  BY <1>1 DEF Later, Earlier
<1> HIDE DEF from, to
<1>5. DowntimeInWindow(b, w) = Tenths(b) * (IF to > from THEN to - from ELSE 0)
  BY <1>3, <1>4 DEF Later, from, to
<1>6. CASE to > from
  BY <1>2, <1>4, <1>5, <1>6 DEF from, to
<1>7. CASE ~(to > from)
  BY <1>2, <1>4, <1>5, <1>7 DEF from, to
<1> QED
  BY <1>6, <1>7

\* What a beat is charged by windows that tile a span is what it is by the span.
LEMMA TilesChargeOnce ==
    ASSUME NEW b \in Beats, NEW span \in Spans, NEW windows, Tile(windows, span)
    PROVE  Charged(b, windows) = DowntimeInWindow(b, span)
<1> DEFINE k == Tenths(b)
           L(w) == Later(b.start, w.start)
           E(w) == Earlier(b.end, w.end)
           D(w) == DowntimeInWindow(b, w)
           n == D(span)
           pairs == UNION {{w} \X (1 .. D(w)) : w \in windows}
           f == [p \in pairs |-> k * (L(p[1]) - L(span)) + p[2]]
<1>1. k \in {3, 10}
  BY TenthsOf
<1>2. \A w \in windows : w \in Spans /\ span.start <= w.start /\ w.end <= span.end
  BY DEF Tile
<1>3. ASSUME NEW w \in windows
      PROVE  /\ L(w) \in Int /\ E(w) \in Int /\ D(w) \in Nat
             /\ L(span) <= L(w) /\ E(w) <= E(span)
             /\ w.start <= L(w) /\ E(w) <= w.end
             /\ IF E(w) > L(w) THEN D(w) = k * (E(w) - L(w)) ELSE D(w) = 0
  <2>1. w \in Spans /\ w.start \in Int /\ w.end \in Int /\ span.start \in Int /\ span.end \in Int
        /\ b.start \in Int /\ b.end \in Int
    BY <1>2 DEF Spans, Beats
  <2>2. L(span) <= L(w) /\ E(w) <= E(span)
    BY <1>2, <2>1 DEF Later, Earlier
  <2> QED
    BY <2>1, <2>2, TenthsOf
<1>4. /\ L(span) \in Int /\ E(span) \in Int /\ n \in Nat
      /\ span.start <= L(span) /\ E(span) <= span.end /\ b.start <= L(span) /\ E(span) <= b.end
      /\ IF E(span) > L(span) THEN n = k * (E(span) - L(span)) ELSE n = 0
  BY TenthsOf
<1>5. \A p \in pairs : p[1] \in windows /\ p[2] \in 1 .. D(p[1]) /\ p = <<p[1], p[2]>>
  OBVIOUS
<1>6. \A w \in windows : \A i \in 1 .. D(w) : <<w, i>> \in pairs
  OBVIOUS
<1>7. \A w \in windows : L(w) = b.start \/ L(w) = w.start
  BY <1>2, TenthsOf
<1>8. \A w \in windows : E(w) = b.end \/ E(w) = w.end
  BY <1>2, TenthsOf
<1>9. /\ span.start \in Int /\ span.end \in Int /\ b.start \in Int /\ b.end \in Int
      /\ \A w \in windows : w.start \in Int /\ w.end \in Int
  BY <1>2 DEF Spans, Beats
<1> DEFINE Unit(t) == L(span) + (t - 1) \div k
<1>10. ASSUME NEW p \in pairs
       PROVE  /\ f[p] \in 1 .. n
              /\ Unit(f[p]) \in Int
              /\ p[1].start <= Unit(f[p]) /\ Unit(f[p]) < p[1].end
  <2> DEFINE w == p[1]
             i == p[2]
             lw == L(w)
             ew == E(w)
             ls == L(span)
             es == E(span)
             t == f[p]
  <2>1. w \in windows /\ i \in 1 .. D(w) /\ D(w) \in Nat
    BY <1>3, <1>5
  <2>2. t = k * (lw - ls) + i
    OBVIOUS
  <2>3. lw \in Int /\ ew \in Int /\ ls \in Int /\ es \in Int /\ ls <= lw /\ ew <= es
        /\ w.start <= lw /\ ew <= w.end /\ w.start \in Int /\ w.end \in Int
    BY <2>1, <1>3, <1>4, <1>9
  <2>4. ew > lw /\ D(w) = k * (ew - lw) /\ i \in Int /\ 1 <= i /\ i <= k * (ew - lw)
    BY <2>1, <1>3
  <2>5. n = k * (es - ls)
    BY <2>3, <2>4, <1>4
  <2> HIDE DEF k, w, i, lw, ew, ls, es, t, n, f
  <2>6. CASE k = 3
    <3>1. t \in Int /\ 1 <= t /\ t <= n /\ n \in Int
      BY <2>2, <2>3, <2>4, <2>5, <2>6
    <3>2. lw <= ls + (t - 1) \div 3 /\ ls + (t - 1) \div 3 < ew /\ (t - 1) \div 3 \in Int
      BY <2>2, <2>3, <2>4, <2>6, <3>1
    <3>3. w.start <= ls + (t - 1) \div 3 /\ ls + (t - 1) \div 3 < w.end
      BY <2>3, <3>2
    <3> QED
      BY <2>3, <2>6, <3>1, <3>2, <3>3 DEF t, ls, w
  <2>7. CASE k = 10
    <3>1. t \in Int /\ 1 <= t /\ t <= n /\ n \in Int
      BY <2>2, <2>3, <2>4, <2>5, <2>7
    <3>2. lw <= ls + (t - 1) \div 10 /\ ls + (t - 1) \div 10 < ew /\ (t - 1) \div 10 \in Int
      BY <2>2, <2>3, <2>4, <2>7, <3>1
    <3>3. w.start <= ls + (t - 1) \div 10 /\ ls + (t - 1) \div 10 < w.end
      BY <2>3, <3>2
    <3> QED
      BY <2>3, <2>7, <3>1, <3>2, <3>3 DEF t, ls, w
  <2> QED
    BY <1>1, <2>6, <2>7
<1>11. f \in [pairs -> 1 .. n]
  BY <1>10
<1>12. ASSUME NEW p \in pairs, NEW q \in pairs, f[p] = f[q]
       PROVE  p = q
  <2>1. p[1] \in windows /\ q[1] \in windows
    BY <1>5
  <2>2. p[1] = q[1]
    <3> DEFINE u == Unit(f[p])
    <3>1. u \in Int /\ p[1].start <= u /\ u < p[1].end /\ q[1].start <= u /\ u < q[1].end
      BY <1>10, <1>12
    <3> HIDE DEF u
    <3> QED
      BY <2>1, <3>1 DEF Tile
  <2>3. p[2] = q[2]
    <3> DEFINE c == k * (L(p[1]) - L(span))
    <3>1. c \in Int /\ p[2] \in Int /\ q[2] \in Int
      BY <1>1, <1>3, <1>4, <1>5
    <3>2. c + p[2] = c + q[2]
      BY <1>12, <2>2
    <3> HIDE DEF c
    <3> QED
      BY <3>1, <3>2
  <2> QED
    BY <1>5, <2>2, <2>3
<1>13. ASSUME NEW t \in 1 .. n
       PROVE  \E p \in pairs : f[p] = t
  <2> DEFINE ls == L(span)
             es == E(span)
             u == ls + (t - 1) \div k
  <2>1. ls \in Int /\ es \in Int /\ t \in Int /\ 1 <= t /\ t <= k * (es - ls)
        /\ span.start <= ls /\ es <= span.end /\ b.start <= ls /\ es <= b.end
        /\ span.start \in Int /\ span.end \in Int /\ b.start \in Int /\ b.end \in Int
    BY <1>4, <1>9
  <2> HIDE DEF k, ls, es, n, f, pairs
  <2>2. u \in Int /\ ls <= u /\ u < es /\ k * (u - ls) <= t - 1 /\ t - 1 < k * (u - ls) + k
    <3>1. CASE k = 3
      BY <2>1, <3>1
    <3>2. CASE k = 10
      BY <2>1, <3>2
    <3> QED
      BY <1>1, <3>1, <3>2
  <2> HIDE DEF u
  <2>3. u \in span.start .. span.end - 1
    BY <2>1, <2>2
  <2>4. PICK w \in windows : w.start <= u /\ u < w.end
    BY <2>3 DEF Tile
  <2> DEFINE lw == L(w)
             ew == E(w)
             i == t - k * (lw - ls)
  <2>5. lw \in Int /\ ew \in Int /\ D(w) \in Nat /\ ls <= lw /\ ew <= es
        /\ IF ew > lw THEN D(w) = k * (ew - lw) ELSE D(w) = 0
    BY <1>3 DEF ls, es
  <2>6. lw <= u /\ u < ew
    <3>1. lw = b.start \/ lw = w.start
      BY <1>7
    <3>2. ew = b.end \/ ew = w.end
      BY <1>8
    <3> QED
      BY <2>1, <2>2, <2>4, <2>5, <3>1, <3>2, <1>9
  <2> HIDE DEF lw, ew
  <2>7. i \in 1 .. D(w)
    <3>1. CASE k = 3
      BY <2>1, <2>2, <2>5, <2>6, <3>1
    <3>2. CASE k = 10
      BY <2>1, <2>2, <2>5, <2>6, <3>2
    <3> QED
      BY <1>1, <3>1, <3>2
  <2>8. <<w, i>> \in pairs
    BY <1>6, <2>7
  <2>9. f[<<w, i>>] = k * (lw - ls) + i
    BY <2>8 DEF f, lw, ls
  <2>10. k * (lw - ls) + i = t
    <3>1. CASE k = 3
      BY <2>1, <2>5, <3>1
    <3>2. CASE k = 10
      BY <2>1, <2>5, <3>2
    <3> QED
      BY <1>1, <3>1, <3>2
  <2> QED
    BY <2>8, <2>9, <2>10
<1>14. f \in Bijection(pairs, 1 .. n)
  <2> HIDE DEF f, pairs, n
  <2>1. f \in Injection(pairs, 1 .. n)
    BY <1>11, <1>12 DEF Injection, IsInjective
  <2>2. f \in Surjection(pairs, 1 .. n)
    BY <1>11, <1>13 DEF Surjection
  <2> QED
    BY <2>1, <2>2 DEF Bijection
<1>15. ExistsBijection(1 .. n, pairs)
  <2> HIDE DEF f, pairs, n
  <2>1. ExistsBijection(pairs, 1 .. n)
    BY <1>14 DEF ExistsBijection
  <2> QED
    BY <2>1, Fun_ExistsBijSymmetric
<1>16. Cardinality(pairs) = n
  <2> HIDE DEF pairs, n
  <2> QED
    BY <1>4, <1>15, FS_CountingElements
<1> QED
  BY <1>16 DEF Charged

-----------------------------------------------------------------------------

\* The window a period makes, if it has begun by now.
LEMMA WindowOf ==
    ASSUME NEW start, NEW end, NEW now, NEW w
    PROVE  w \in Window(start, end, now) <=>
             w = [start |-> start, end |-> Earlier(end, now)] /\ Earlier(end, now) > start
  BY DEF Window

LEMMA DailyTiles ==
    ASSUME NEW now \in Nows
    PROVE  Tile(Daily(now), [start |-> 0, end |-> Day * HistoryDays])
<1>1. HistoryDays \in Nat /\ now \in Int /\ Day = 2 /\ Day * HistoryDays <= now
  BY WindowsAssumption DEF Nows, Day
<1>2. ASSUME NEW w
      PROVE  w \in Daily(now) <=>
               \E d \in 0 .. HistoryDays - 1 : w = [start |-> 2 * d, end |-> 2 * d + 2]
  <2>1. ASSUME NEW d \in 0 .. HistoryDays - 1
        PROVE  w \in Window(Day * d, Day * (d + 1), now) <=> w = [start |-> 2 * d, end |-> 2 * d + 2]
    <3>1. Earlier(Day * (d + 1), now) = 2 * d + 2 /\ Day * d = 2 * d /\ 2 * d + 2 > 2 * d
      BY <1>1 DEF Earlier
    <3> QED
      BY <3>1, WindowOf
  <2> QED
    BY <2>1 DEF Daily
<1>3. ASSUME NEW u \in 0 .. Day * HistoryDays - 1
      PROVE  \E w \in Daily(now) : w.start <= u /\ u < w.end
  <2>1. u \div 2 \in 0 .. HistoryDays - 1 /\ 2 * (u \div 2) <= u /\ u < 2 * (u \div 2) + 2
    BY <1>1
  <2> DEFINE d == u \div 2
             w == [start |-> 2 * d, end |-> 2 * d + 2]
  <2>2. w \in Daily(now)
    BY <1>2, <2>1
  <2>3. w.start <= u /\ u < w.end
    BY <2>1
  <2> QED
    BY <2>2, <2>3
<1>4. Daily(now) \subseteq {w \in Spans : 0 <= w.start /\ w.end <= Day * HistoryDays}
  BY <1>1, <1>2 DEF Spans
<1>5. ASSUME NEW u \in Int, NEW v \in Daily(now), NEW w \in Daily(now),
             v.start <= u, u < v.end, w.start <= u, u < w.end
      PROVE  v = w
  <2>1. PICK c \in 0 .. HistoryDays - 1 : v = [start |-> 2 * c, end |-> 2 * c + 2]
    BY <1>2
  <2>2. PICK d \in 0 .. HistoryDays - 1 : w = [start |-> 2 * d, end |-> 2 * d + 2]
    BY <1>2
  <2>3. c = d
    BY <1>1, <1>5, <2>1, <2>2
  <2> QED
    BY <2>1, <2>2, <2>3
<1> QED
  BY <1>3, <1>4, <1>5 DEF Tile

LEMMA WeeklyTiles ==
    ASSUME NEW now \in Nows
    PROVE  Tile(Weekly(now), [start |-> 0, end |-> now])
<1> DEFINE weeks == {w \in 0 .. HistoryDays : 7 * w < HistoryDays}
           week(n) == [start |-> 14 * n, end |-> Earlier(14 * n + 14, now)]
<1>1. HistoryDays \in Nat /\ now \in Int /\ Day = 2 /\ (now = 2 * HistoryDays \/ now = 2 * HistoryDays + 1)
  BY WindowsAssumption DEF Nows, Day
<1>2. ASSUME NEW n \in weeks
      PROVE  /\ n \in Int /\ 0 <= n
             /\ Earlier(14 * n + 14, now) \in Int
             /\ 14 * n < Earlier(14 * n + 14, now) /\ Earlier(14 * n + 14, now) <= now
             /\ Earlier(14 * n + 14, now) <= 14 * n + 14
  BY <1>1 DEF Earlier
<1>3. ASSUME NEW w
      PROVE  w \in Weekly(now) <=> \E n \in weeks : w = week(n)
  <2>1. ASSUME NEW n \in weeks
        PROVE  w \in Window(7 * Day * n, 7 * Day * (n + 1), now) <=> w = week(n)
    <3>1. 7 * Day * (n + 1) = 14 * n + 14 /\ 7 * Day * n = 14 * n
      BY <1>1, <1>2
    <3> QED
      BY <1>2, <3>1, WindowOf
  <2> HIDE DEF week
  <2> QED
    BY <2>1 DEF Weekly
<1>4. ASSUME NEW u \in 0 .. now - 1
      PROVE  \E w \in Weekly(now) : w.start <= u /\ u < w.end
  <2> DEFINE n == u \div 14
  <2>1. n \in Int /\ 0 <= n /\ 14 * n <= u /\ u < 14 * n + 14 /\ u \in Int /\ u < now
    BY <1>1
  <2> HIDE DEF n
  <2>2. HistoryDays % 7 # 0
    BY WindowsAssumption
  <2>3. 7 * n < HistoryDays
    BY <1>1, <2>1, <2>2
  <2>4. n \in weeks
    BY <1>1, <2>1, <2>3
  <2>5. week(n).start <= u /\ u < week(n).end
    BY <1>1, <2>1 DEF Earlier
  <2> QED
    BY <1>3, <2>4, <2>5
<1>5. Weekly(now) \subseteq {w \in Spans : 0 <= w.start /\ w.end <= now}
  BY <1>2, <1>3 DEF Spans
<1>6. ASSUME NEW u \in Int, NEW v \in Weekly(now), NEW w \in Weekly(now),
             v.start <= u, u < v.end, w.start <= u, u < w.end
      PROVE  v = w
  <2>1. PICK c \in weeks : v = week(c)
    BY <1>3
  <2>2. PICK d \in weeks : w = week(d)
    BY <1>3
  <2>3. 14 * c <= u /\ u < 14 * c + 14 /\ 14 * d <= u /\ u < 14 * d + 14
    BY <1>1, <1>2, <1>6, <2>1, <2>2
  <2>4. c = d
    BY <1>2, <2>3
  <2> QED
    BY <2>1, <2>2, <2>4
<1> QED
  BY <1>4, <1>5, <1>6 DEF Tile

LEMMA DivFacts ==
    ASSUME NEW n \in Int, NEW d \in Nat \ {0}
    PROVE  /\ n \div d \in Int
           /\ d * (n \div d) <= n
           /\ n < d * (n \div d) + d
  OBVIOUS

LEMMA MonthlyTiles ==
    ASSUME NEW now \in Nows, NEW phase \in 0 .. MonthDays - 1
    PROVE  Tile(Monthly(now, phase), [start |-> 0, end |-> now])
<1> DEFINE first(m) == MonthStart(m, phase)
           from(m) == Later(first(m), 0)
           to(m) == Earlier(first(m + 1), now)
           months == 0 .. (HistoryDays \div MonthDays) + 1
<1>1. /\ HistoryDays \in Nat /\ MonthDays \in Nat \ {0} /\ phase \in Int /\ 0 <= phase /\ phase < MonthDays
      /\ now \in Int /\ 0 < now /\ 2 * HistoryDays <= now /\ now <= 2 * HistoryDays + 1
  BY WindowsAssumption DEF Nows, Day
<1>2. ASSUME NEW m \in Int
      PROVE  first(m) \in Int /\ first(m) = 2 * (m * MonthDays) - 2 * phase
             /\ first(m + 1) = first(m) + 2 * MonthDays
  <2>1. PICK x \in Int : x = m * MonthDays
    BY <1>1
  <2>2. (m + 1) * MonthDays = x + MonthDays
    BY <1>1, <2>1
  <2> QED
    BY <1>1, <2>1, <2>2 DEF MonthStart, Day
<1>3. HistoryDays \div MonthDays \in Int /\ HistoryDays < MonthDays * (HistoryDays \div MonthDays) + MonthDays
  BY <1>1, DivFacts
<1> HIDE DEF first
\* A month that is over by the time another begins ends by then.
<1>4. ASSUME NEW m \in Int, NEW n \in Int, m < n
      PROVE  first(m + 1) <= first(n)
  <2>1. (m + 1) * MonthDays <= n * MonthDays
    BY <1>1, <1>4
  <2>2. PICK x \in Int : x = (m + 1) * MonthDays
    BY <1>1
  <2>3. PICK y \in Int : y = n * MonthDays
    BY <1>1
  <2>4. first(m + 1) = 2 * x - 2 * phase /\ first(n) = 2 * y - 2 * phase
    BY <1>2, <2>2, <2>3
  <2> QED
    BY <1>1, <2>1, <2>2, <2>3, <2>4
<1>5. ASSUME NEW m \in Int
      PROVE  /\ from(m) \in Int /\ to(m) \in Int
             /\ 0 <= from(m) /\ first(m) <= from(m) /\ (from(m) = 0 \/ from(m) = first(m))
             /\ to(m) <= now /\ to(m) <= first(m + 1) /\ (to(m) = now \/ to(m) = first(m + 1))
  <2>1. first(m) \in Int /\ first(m + 1) \in Int
    BY <1>2
  <2> QED
    BY <1>1, <2>1 DEF Later, Earlier
<1>6. ASSUME NEW w
      PROVE  w \in Monthly(now, phase) <=>
               \E m \in months : w = [start |-> from(m), end |-> to(m)] /\ to(m) > from(m)
  <2>1. ASSUME NEW m \in months
        PROVE  w \in Window(Later(MonthStart(m, phase), 0), NextMonth(m, phase), now) <=>
                 w = [start |-> from(m), end |-> to(m)] /\ to(m) > from(m)
    BY WindowOf DEF NextMonth, first
  <2> HIDE DEF from, to
  <2> QED
    BY <2>1 DEF Monthly
<1> HIDE DEF from, to
<1>7. ASSUME NEW u \in 0 .. now - 1
      PROVE  \E w \in Monthly(now, phase) : w.start <= u /\ u < w.end
  <2> DEFINE m == (u + 2 * phase) \div (2 * MonthDays)
  <2>1. u \in Int /\ 0 <= u /\ u < now /\ 2 * MonthDays \in Nat \ {0} /\ u + 2 * phase \in Int
    BY <1>1
  <2>2. m \in Int /\ (2 * MonthDays) * m <= u + 2 * phase /\ u + 2 * phase < (2 * MonthDays) * m + 2 * MonthDays
    BY <2>1, DivFacts
  <2> HIDE DEF m
  <2>3. PICK x \in Int : x = m * MonthDays
    BY <1>1, <2>2
  <2>4. (2 * MonthDays) * m = 2 * x
    BY <1>1, <2>2, <2>3
  <2>5. 2 * x <= u + 2 * phase /\ u + 2 * phase < 2 * x + 2 * MonthDays
    BY <2>2, <2>4
  <2>6. first(m) <= u /\ u < first(m + 1)
    BY <1>1, <1>2, <2>1, <2>2, <2>3, <2>5
  <2>7. m >= 0
    <3> SUFFICES ASSUME m <= -1 PROVE FALSE
      BY <2>2
    <3>1. m * MonthDays <= (-1) * MonthDays
      BY <1>1, <2>2
    <3>2. x <= -MonthDays
      BY <1>1, <2>3, <3>1
    <3> QED
      BY <1>1, <2>1, <2>3, <2>5, <3>2
  <2>8. m <= (HistoryDays \div MonthDays) + 1
    <3> DEFINE h == HistoryDays \div MonthDays
    <3>1. h \in Int /\ HistoryDays < MonthDays * h + MonthDays
      BY <1>3
    <3> HIDE DEF h
    <3> SUFFICES ASSUME h + 2 <= m PROVE FALSE
      BY <2>2, <3>1 DEF h
    <3>2. (h + 2) * MonthDays <= m * MonthDays
      BY <1>1, <2>2, <3>1
    <3>3. PICK y \in Int : y = MonthDays * h
      BY <1>1, <3>1
    <3>4. (h + 2) * MonthDays = y + 2 * MonthDays
      BY <1>1, <3>1, <3>3
    <3>5. y + 2 * MonthDays <= x
      BY <2>3, <3>2, <3>4
    <3>6. HistoryDays < y + MonthDays
      BY <3>1, <3>3
    <3> QED
      BY <1>1, <2>1, <2>3, <2>5, <3>3, <3>5, <3>6
  <2>9. from(m) <= u /\ u < to(m)
    BY <1>5, <2>1, <2>2, <2>6
  <2> DEFINE w == [start |-> from(m), end |-> to(m)]
  <2>10. m \in months
    BY <1>3, <2>2, <2>7, <2>8
  <2>11. w \in Monthly(now, phase)
    <3>1. to(m) > from(m)
      BY <1>5, <2>1, <2>2, <2>9
    <3> QED
      BY <1>6, <2>10, <3>1
  <2> QED
    BY <2>9, <2>11
<1>8. Monthly(now, phase) \subseteq {w \in Spans : 0 <= w.start /\ w.end <= now}
  <2> SUFFICES ASSUME NEW w \in Monthly(now, phase)
               PROVE  w \in Spans /\ 0 <= w.start /\ w.end <= now
    OBVIOUS
  <2>1. PICK m \in months : w = [start |-> from(m), end |-> to(m)]
    BY <1>6
  <2>2. m \in Int
    BY <1>3
  <2> QED
    BY <1>5, <2>1, <2>2 DEF Spans
<1>9. ASSUME NEW u \in Int, NEW v \in Monthly(now, phase), NEW w \in Monthly(now, phase),
             v.start <= u, u < v.end, w.start <= u, u < w.end
      PROVE  v = w
  <2>1. PICK c \in months : v = [start |-> from(c), end |-> to(c)]
    BY <1>6
  <2>2. PICK d \in months : w = [start |-> from(d), end |-> to(d)]
    BY <1>6
  <2>3. c \in Int /\ d \in Int
    BY <1>3
  <2>4. first(c) <= u /\ u < first(c + 1) /\ first(d) <= u /\ u < first(d + 1)
    <3>1. first(c) \in Int /\ first(c + 1) \in Int /\ first(d) \in Int /\ first(d + 1) \in Int
      BY <1>2, <2>3
    <3> QED
      BY <1>5, <1>9, <2>1, <2>2, <2>3, <3>1
  <2>5. ~(c < d) /\ ~(d < c)
    <3>1. first(c) \in Int /\ first(c + 1) \in Int /\ first(d) \in Int /\ first(d + 1) \in Int
      BY <1>2, <2>3
    <3> QED
      BY <1>4, <2>3, <2>4, <3>1
  <2>6. c = d
    BY <2>3, <2>5
  <2> QED
    BY <2>1, <2>2, <2>6
<1> QED
  BY <1>7, <1>8, <1>9 DEF Tile

-----------------------------------------------------------------------------

ChargedOnce(b, now, phase) ==
    LET all == [start |-> 0, end |-> now]
        past == [start |-> 0, end |-> Day * HistoryDays]
    IN /\ Charged(b, Weekly(now)) = DowntimeInWindow(b, all)
       /\ Charged(b, Monthly(now, phase)) = DowntimeInWindow(b, all)
       /\ Charged(b, Daily(now)) = DowntimeInWindow(b, past)

\* Whatever a beat, wherever it lies and however long it is: sla-gen.ts charges
\* it once by the weeks and once by the months of the history, and by the days
\* once for all that happened before today.
THEOREM EveryBeatIsChargedOnce ==
    ASSUME NEW b \in Beats, NEW now \in Nows, NEW phase \in 0 .. MonthDays - 1
    PROVE  ChargedOnce(b, now, phase)
<1> DEFINE all == [start |-> 0, end |-> now]
           past == [start |-> 0, end |-> Day * HistoryDays]
<1>1. all \in Spans /\ past \in Spans
  BY WindowsAssumption DEF Spans, Nows, Day
<1>2. Charged(b, Weekly(now)) = DowntimeInWindow(b, all)
  BY <1>1, WeeklyTiles, TilesChargeOnce
<1>3. Charged(b, Monthly(now, phase)) = DowntimeInWindow(b, all)
  BY <1>1, MonthlyTiles, TilesChargeOnce
<1>4. Charged(b, Daily(now)) = DowntimeInWindow(b, past)
  BY <1>1, DailyTiles, TilesChargeOnce
<1> QED
  BY <1>2, <1>3, <1>4 DEF ChargedOnce

\* The same of the beats that are asked about: the records of sla-gen.ts charge
\* each of them once.
THEOREM DowntimeIsChargedOnceHolds ==
    WindowsInit /\ [][UNCHANGED ask]_ask => []DowntimeIsChargedOnce
<1>1. WindowsInit => DowntimeIsChargedOnce
  <2> SUFFICES ASSUME WindowsInit PROVE DowntimeIsChargedOnce
    OBVIOUS
  <2>1. PICK now \in Nows, phase \in 0 .. MonthDays - 1, kind \in {"INCIDENT", "DEGRADED"},
             n \in {1, Day, 7 * Day} :
          \E start \in {0, 1, Day * (MonthDays - phase) - 1, now - n} :
            ask = [now |-> now, phase |-> phase, beat |-> [kind |-> kind, start |-> start, end |-> start + n]]
    BY DEF WindowsInit
  <2>2. PICK start \in {0, 1, Day * (MonthDays - phase) - 1, now - n} :
          ask = [now |-> now, phase |-> phase, beat |-> [kind |-> kind, start |-> start, end |-> start + n]]
    BY <2>1
  <2>3. n \in Int /\ start \in Int
    <3>1. now \in Int /\ MonthDays \in Int /\ phase \in Int
      BY WindowsAssumption DEF Nows, Day
    <3>2. n \in Int
      BY DEF Day
    <3> QED
      BY <3>1, <3>2 DEF Day
  <2>4. ask.beat \in Beats /\ ask.now = now /\ ask.phase = phase
    BY <2>2, <2>3 DEF Beats
  <2>5. ChargedOnce(ask.beat, ask.now, ask.phase)
    BY <2>4, EveryBeatIsChargedOnce
  <2> QED
    BY <2>5 DEF DowntimeIsChargedOnce, ChargedOnce
<1>2. DowntimeIsChargedOnce /\ [UNCHANGED ask]_ask => DowntimeIsChargedOnce'
  BY DEF DowntimeIsChargedOnce
<1> QED
  BY <1>1, <1>2, PTL

-----------------------------------------------------------------------------
(* The demo scenarios.                                                     *)

Kinds == {"SEV1", "SEV2", "SEV3", "SEV4", Quiet}
ScenarioNames == {"DATABASE_OUTAGE", "DEPENDENCY_FAILURE", "LATENCY_SPIKE",
                  "DEPLOYMENT_FAILURE", "MEMORY_LEAK", "THIRD_PARTY_OUTAGE"}

\* The one other metric of a scenario that a rule of the seed is on.
CoreErrors == Moves("error_rate_percent", 15, 350)
CoreErrorsRule == <<"core-banking-api", "error_rate_percent">>

RuleIn(def, m) == <<def.service, m.metric>>

LEMMA Names == DOMAIN DemoScenarioDefs = ScenarioNames
  BY DEF DemoScenarioDefs, ScenarioNames

LEMMA Definitions ==
    /\ DemoScenarioDefs["DATABASE_OUTAGE"] = DatabaseOutage
    /\ DemoScenarioDefs["DEPENDENCY_FAILURE"] = DependencyFailure
    /\ DemoScenarioDefs["LATENCY_SPIKE"] = LatencySpike
    /\ DemoScenarioDefs["DEPLOYMENT_FAILURE"] = DeploymentFailure
    /\ DemoScenarioDefs["MEMORY_LEAK"] = MemoryLeak
    /\ DemoScenarioDefs["THIRD_PARTY_OUTAGE"] = ThirdPartyOutage
  BY DEF DemoScenarioDefs

LEMMA RulesOfPrimaries ==
    /\ AlertRules[<<"core-banking-api", "db_connection_pool_used_percent">>]
         = Rule(9500, 8500, 7000, 5500, "RECONNECT_DATABASE")
    /\ AlertRules[<<"auth-service", "error_rate_percent">>] = Rule(800, 400, 200, 100, "RESTART_SERVICE")
    /\ AlertRules[<<"mobile-bff", "p99_latency_ms">>] = Rule(300000, 150000, 80000, 40000, "CLEAR_CACHE")
    /\ AlertRules[<<"card-processing", "error_rate_percent">>] = Rule(800, 400, 200, 100, "RESTART_SERVICE")
    /\ AlertRules[<<"notification-service", "memory_utilization_percent">>]
         = Rule(9500, 8800, 7500, 6500, "RESTART_SERVICE")
    /\ AlertRules[<<"payments-gateway", "error_rate_percent">>]
         = Rule(800, 400, 200, 100, "FAILOVER_SIMULATION")
    /\ AlertRules[<<"core-banking-api", "error_rate_percent">>] = Rule(1000, 500, 200, 100, Quiet)
<1>1. AlertRules[<<"core-banking-api", "db_connection_pool_used_percent">>]
        = Rule(9500, 8500, 7000, 5500, "RECONNECT_DATABASE")
  BY DEF AlertRules
<1>2. AlertRules[<<"auth-service", "error_rate_percent">>] = Rule(800, 400, 200, 100, "RESTART_SERVICE")
  BY DEF AlertRules
<1>3. AlertRules[<<"mobile-bff", "p99_latency_ms">>] = Rule(300000, 150000, 80000, 40000, "CLEAR_CACHE")
  BY DEF AlertRules
<1>4. AlertRules[<<"card-processing", "error_rate_percent">>] = Rule(800, 400, 200, 100, "RESTART_SERVICE")
  BY DEF AlertRules
<1>5. AlertRules[<<"notification-service", "memory_utilization_percent">>]
        = Rule(9500, 8800, 7500, 6500, "RESTART_SERVICE")
  BY DEF AlertRules
<1>6. AlertRules[<<"payments-gateway", "error_rate_percent">>]
        = Rule(800, 400, 200, 100, "FAILOVER_SIMULATION")
  BY DEF AlertRules
<1>7. AlertRules[<<"core-banking-api", "error_rate_percent">>] = Rule(1000, 500, 200, 100, Quiet)
  BY DEF AlertRules
<1> QED
  BY <1>1, <1>2, <1>3, <1>4, <1>5, <1>6, <1>7

Ruling ==
    { <<"core-banking-api", "db_connection_pool_used_percent">>,
      <<"core-banking-api", "error_rate_percent">>,
      <<"payments-gateway", "error_rate_percent">>,
      <<"card-processing", "error_rate_percent">>,
      <<"mobile-bff", "p99_latency_ms">>,
      <<"notification-service", "memory_utilization_percent">>,
      <<"auth-service", "error_rate_percent">>,
      <<"ledger-sync", "sync_lag_seconds">>,
      <<"kyc-service", "queue_depth">>,
      <<"reporting-batch", "queue_depth">>,
      <<"api-gateway", "error_rate_percent">>,
      <<"fraud-detection", "p99_latency_ms">> }

LEMMA RulingNames == DOMAIN AlertRules = Ruling
  BY DEF AlertRules, Ruling

\* What the definitions of the scenarios and the seeded rules say together.
Fits(def, r) ==
    /\ RuleIn(def, def.primary) \in Ruling /\ RuleIn(def, def.primary) # CoreErrorsRule
    /\ def.primary.baseline \in Int /\ def.primary.target \in Int
    /\ r.tiers \in [1 .. 4 -> Int]
    /\ \A i \in 1 .. 4 : def.primary.baseline <= r.tiers[i]
    /\ def.primary.target > r.tiers[1]
    /\ r.action = def.action /\ def.action \in Actions
    /\ def.ramp \in BOOLEAN

\* The rule of a scenario's primary metric: no alert at its baseline, a SEV1
\* alert at its target, and the remediation that the scenario names.
LEMMA PrimaryFits ==
    ASSUME NEW c \in ScenarioNames
    PROVE  Fits(DemoScenarioDefs[c], AlertRules[RuleIn(DemoScenarioDefs[c], DemoScenarioDefs[c].primary)])
<1> USE DEF RuleIn, Rule, Moves, CoreErrorsRule, Actions
<1>1. CASE c = "DATABASE_OUTAGE"
  <2>1. RuleIn(DatabaseOutage, DatabaseOutage.primary)
          = <<"core-banking-api", "db_connection_pool_used_percent">>
    BY DEF DatabaseOutage
  <2>2. Fits(DatabaseOutage, Rule(9500, 8500, 7000, 5500, "RECONNECT_DATABASE"))
    BY DEF DatabaseOutage, Fits, Ruling
  <2> QED
    BY <1>1, <2>1, <2>2, Definitions, RulesOfPrimaries
<1>2. CASE c = "DEPENDENCY_FAILURE"
  <2>1. RuleIn(DependencyFailure, DependencyFailure.primary) = <<"auth-service", "error_rate_percent">>
    BY DEF DependencyFailure
  <2>2. Fits(DependencyFailure, Rule(800, 400, 200, 100, "RESTART_SERVICE"))
    BY DEF DependencyFailure, Fits, Ruling
  <2> QED
    BY <1>2, <2>1, <2>2, Definitions, RulesOfPrimaries
<1>3. CASE c = "LATENCY_SPIKE"
  <2>1. RuleIn(LatencySpike, LatencySpike.primary) = <<"mobile-bff", "p99_latency_ms">>
    BY DEF LatencySpike
  <2>2. Fits(LatencySpike, Rule(300000, 150000, 80000, 40000, "CLEAR_CACHE"))
    BY DEF LatencySpike, Fits, Ruling
  <2> QED
    BY <1>3, <2>1, <2>2, Definitions, RulesOfPrimaries
<1>4. CASE c = "DEPLOYMENT_FAILURE"
  <2>1. RuleIn(DeploymentFailure, DeploymentFailure.primary) = <<"card-processing", "error_rate_percent">>
    BY DEF DeploymentFailure
  <2>2. Fits(DeploymentFailure, Rule(800, 400, 200, 100, "RESTART_SERVICE"))
    BY DEF DeploymentFailure, Fits, Ruling
  <2> QED
    BY <1>4, <2>1, <2>2, Definitions, RulesOfPrimaries
<1>5. CASE c = "MEMORY_LEAK"
  <2>1. RuleIn(MemoryLeak, MemoryLeak.primary) = <<"notification-service", "memory_utilization_percent">>
    BY DEF MemoryLeak
  <2>2. Fits(MemoryLeak, Rule(9500, 8800, 7500, 6500, "RESTART_SERVICE"))
    BY DEF MemoryLeak, Fits, Ruling
  <2> QED
    BY <1>5, <2>1, <2>2, Definitions, RulesOfPrimaries
<1>6. CASE c = "THIRD_PARTY_OUTAGE"
  <2>1. RuleIn(ThirdPartyOutage, ThirdPartyOutage.primary) = <<"payments-gateway", "error_rate_percent">>
    BY DEF ThirdPartyOutage
  <2>2. Fits(ThirdPartyOutage, Rule(800, 400, 200, 100, "FAILOVER_SIMULATION"))
    BY DEF ThirdPartyOutage, Fits, Ruling
  <2> QED
    BY <1>6, <2>1, <2>2, Definitions, RulesOfPrimaries
<1> QED
  BY <1>1, <1>2, <1>3, <1>4, <1>5, <1>6 DEF ScenarioNames

\* No two metrics of a scenario have one name, and the only ruled one that is not
\* its primary is the core banking API's error rate.
OneRuled(def) ==
    /\ def.primary \in Metrics(def)
    /\ \A m \in Metrics(def) : m.metric = def.primary.metric => m = def.primary
    /\ \A m \in Metrics(def) \ {def.primary} :
         RuleIn(def, m) \in Ruling =>
           m = CoreErrors /\ RuleIn(def, m) = CoreErrorsRule /\ def.ramp = FALSE

LEMMA CorrelatedFits ==
    ASSUME NEW c \in ScenarioNames PROVE OneRuled(DemoScenarioDefs[c])
<1> USE DEF RuleIn, Ruling, Moves, CoreErrorsRule, CoreErrors, Metrics, OneRuled
<1>1. OneRuled(DatabaseOutage)
  BY DEF DatabaseOutage
<1>2. OneRuled(DependencyFailure)
  BY DEF DependencyFailure
<1>3. OneRuled(LatencySpike)
  BY DEF LatencySpike
<1>4. OneRuled(DeploymentFailure)
  BY DEF DeploymentFailure
<1>5. OneRuled(MemoryLeak)
  BY DEF MemoryLeak
<1>6. OneRuled(ThirdPartyOutage)
  BY DEF ThirdPartyOutage
<1> HIDE DEF OneRuled
<1> QED
  BY <1>1, <1>2, <1>3, <1>4, <1>5, <1>6, Definitions DEF ScenarioNames

PrimaryRule(c) == RuleIn(DemoScenarioDefs[c], DemoScenarioDefs[c].primary)

\* Different scenarios have their primary metrics under different rules.
LEMMA PrimariesDiffer ==
    ASSUME NEW c \in ScenarioNames, NEW d \in ScenarioNames, PrimaryRule(c) = PrimaryRule(d)
    PROVE  c = d
<1>1. PrimaryRule("DATABASE_OUTAGE")[1] = "core-banking-api"
  BY Definitions DEF PrimaryRule, RuleIn, DatabaseOutage
<1>2. PrimaryRule("DEPENDENCY_FAILURE")[1] = "auth-service"
  BY Definitions DEF PrimaryRule, RuleIn, DependencyFailure
<1>3. PrimaryRule("LATENCY_SPIKE")[1] = "mobile-bff"
  BY Definitions DEF PrimaryRule, RuleIn, LatencySpike
<1>4. PrimaryRule("DEPLOYMENT_FAILURE")[1] = "card-processing"
  BY Definitions DEF PrimaryRule, RuleIn, DeploymentFailure
<1>5. PrimaryRule("MEMORY_LEAK")[1] = "notification-service"
  BY Definitions DEF PrimaryRule, RuleIn, MemoryLeak
<1>6. PrimaryRule("THIRD_PARTY_OUTAGE")[1] = "payments-gateway"
  BY Definitions DEF PrimaryRule, RuleIn, ThirdPartyOutage
<1> QED
  BY <1>1, <1>2, <1>3, <1>4, <1>5, <1>6 DEF ScenarioNames

-----------------------------------------------------------------------------

LEMMA TierKinds ==
    ASSUME NEW x, NEW rule PROVE Tier(x, rule) \in Kinds
<1> DEFINE breached == {i \in 1 .. 4 : x.num > rule.tiers[i] * x.den}
<1>1. CASE breached = {}
  BY <1>1 DEF Tier, Kinds
<1>2. CASE breached # {}
  <2> DEFINE k == CHOOSE i \in breached : \A j \in breached : i <= j
  <2>1. \E i \in breached : \A j \in breached : i <= j
    <3>1. \A i \in breached : i \in {1, 2, 3, 4}
      OBVIOUS
    <3> HIDE DEF breached
    <3>2. CASE 1 \in breached
      BY <3>1, <3>2
    <3>3. CASE 1 \notin breached /\ 2 \in breached
      BY <3>1, <3>3
    <3>4. CASE 1 \notin breached /\ 2 \notin breached /\ 3 \in breached
      BY <3>1, <3>4
    <3>5. CASE 1 \notin breached /\ 2 \notin breached /\ 3 \notin breached
      BY <1>2, <3>1, <3>5
    <3> QED
      BY <3>2, <3>3, <3>4, <3>5
  <2>2. k \in breached
    BY <2>1
  <2>3. k \in {1, 2, 3, 4}
    BY <2>2
  <2>4. Tier(x, rule) = Severities[k]
    BY <1>2 DEF Tier
  <2> HIDE DEF k
  <2> QED
    BY <2>3, <2>4 DEF Severities, Kinds
<1> QED
  BY <1>1, <1>2

\* A sample of value v.
LEMMA TierAt ==
    ASSUME NEW x, NEW v \in Int, x.den \in Nat \ {0}, x.num = v * x.den,
           NEW rule, rule.tiers \in [1 .. 4 -> Int]
    PROVE  /\ (\A i \in 1 .. 4 : v <= rule.tiers[i]) => Tier(x, rule) = Quiet
           /\ v > rule.tiers[1] => Tier(x, rule) = "SEV1"
<1> DEFINE breached == {i \in 1 .. 4 : x.num > rule.tiers[i] * x.den}
<1>1. ASSUME NEW i \in 1 .. 4 PROVE x.num > rule.tiers[i] * x.den <=> v > rule.tiers[i]
  <2>1. PICK t \in Int : t = rule.tiers[i]
    OBVIOUS
  <2>2. PICK d \in Nat \ {0} : d = x.den
    OBVIOUS
  <2>3. v * d > t * d <=> v > t
    BY <2>2
  <2> QED
    BY <2>1, <2>2, <2>3
<1>2. ASSUME \A i \in 1 .. 4 : v <= rule.tiers[i] PROVE Tier(x, rule) = Quiet
  <2>1. breached = {}
    <3>1. ASSUME NEW i \in 1 .. 4 PROVE ~(v > rule.tiers[i])
      BY <1>2, <3>1
    <3> QED
      BY <1>1, <3>1
  <2> QED
    BY <2>1 DEF Tier
<1>3. ASSUME v > rule.tiers[1] PROVE Tier(x, rule) = "SEV1"
  <2>1. 1 \in breached
    BY <1>1, <1>3
  <2>2. \A i \in breached : 1 <= i /\ i \in Int
    OBVIOUS
  <2> DEFINE k == CHOOSE i \in breached : \A j \in breached : i <= j
  <2>3. Tier(x, rule) = Severities[k]
    BY <2>1 DEF Tier
  <2> HIDE DEF breached
  <2>4. k \in breached /\ \A j \in breached : k <= j
    BY <2>1, <2>2
  <2> HIDE DEF k
  <2>5. k <= 1 /\ 1 <= k /\ k \in Int
    BY <2>1, <2>2, <2>4
  <2> QED
    BY <2>3, <2>5 DEF Severities
<1> QED
  BY <1>2, <1>3

\* A sample that is not above the second threshold.
LEMMA TierBelow ==
    ASSUME NEW x, NEW rule, x.num \in Int, x.den \in Nat \ {0},
           ~(x.num > rule.tiers[1] * x.den), ~(x.num > rule.tiers[2] * x.den)
    PROVE  Tier(x, rule) \notin {"SEV1", "SEV2"}
<1> DEFINE breached == {i \in 1 .. 4 : x.num > rule.tiers[i] * x.den}
<1>1. breached \subseteq {3, 4}
  OBVIOUS
<1>2. CASE breached = {}
  <2>1. Tier(x, rule) = Quiet
    BY <1>2 DEF Tier
  <2>2. Quiet # "SEV1" /\ Quiet # "SEV2"
    BY ScenariosAssumption DEF Severities
  <2> QED
    BY <2>1, <2>2
<1>3. CASE breached # {}
  <2> DEFINE k == CHOOSE i \in breached : \A j \in breached : i <= j
  <2>1. Tier(x, rule) = Severities[k]
    BY <1>3 DEF Tier
  <2> HIDE DEF breached
  <2>2. \E i \in breached : \A j \in breached : i <= j
    <3>1. CASE 3 \in breached
      BY <1>1, <3>1
    <3>2. CASE 3 \notin breached
      <4>1. \A j \in breached : j = 4
        BY <1>1, <3>2
      <4>2. 4 \in breached
        BY <1>3, <4>1
      <4> QED
        BY <4>1, <4>2
    <3> QED
      BY <3>1, <3>2
  <2>3. k \in {3, 4}
    BY <1>1, <2>2
  <2> HIDE DEF k
  <2> QED
    BY <2>1, <2>3 DEF Severities
<1> QED
  BY <1>2, <1>3

-----------------------------------------------------------------------------
(* The curve: no noise at its ends, and never out of reach in between.     *)

LEMMA CurveStarts ==
    ASSUME NEW m, m.baseline \in Int, m.target \in Int, NEW n \in Nat \ {0},
           NEW ramp \in BOOLEAN, NEW draw \in Draws
    PROVE  LET x == Curve(m, 0, n, ramp, draw)
           IN x.den \in Nat \ {0} /\ x.num = m.baseline * x.den
<1>1. PICK b \in Int, t \in Int : b = m.baseline /\ t = m.target
  OBVIOUS
<1>2. Grain \in Nat \ {0}
  BY ScenariosAssumption
<1>3. 0 \in {0, n}
  OBVIOUS
<1>4. CASE ramp
  <2>1. Curve(m, 0, n, ramp, draw)
          = [num |-> 500 * Grain * (b * n + (t - b) * 0) + RampTenths * Abs(0) * n, den |-> 500 * Grain * n]
    BY <1>1, <1>3, <1>4 DEF Curve
  <2>2. PICK d \in Nat \ {0} : d = Grain * n
    BY <1>2
  <2>3. 500 * Grain * n = 500 * d /\ 500 * Grain * (b * n + (t - b) * 0) = b * (500 * d)
    <3>1. PICK y \in Int : y = b * n
      OBVIOUS
    <3>2. Grain * y = b * d
      BY <1>2, <2>2, <3>1
    <3>3. b * n + (t - b) * 0 = y
      BY <3>1
    <3> QED
      BY <1>2, <2>2, <3>2, <3>3
  <2>4. RampTenths * Abs(0) * n = 0
    BY DEF RampTenths, Abs
  <2> QED
    BY <1>1, <2>1, <2>2, <2>3, <2>4
<1>5. CASE ~ramp
  <2>1. EaseInOutQuad(0, n) = 0
    BY DEF EaseInOutQuad
  <2>2. Curve(m, 0, n, ramp, draw)
          = [num |-> 50 * Grain * (b * n * n + (t - b) * 0) + 0 * n * n, den |-> 50 * Grain * n * n]
    BY <1>1, <1>3, <1>5, <2>1 DEF Curve
  <2>3. PICK q \in Nat \ {0} : q = n * n
    OBVIOUS
  <2>4. PICK d \in Nat \ {0} : d = Grain * q
    BY <1>2
  <2>5. 50 * Grain * n * n = 50 * d
    BY <1>2, <2>3, <2>4
  <2>6. 50 * Grain * (b * n * n + (t - b) * 0) = b * (50 * d)
    <3>1. PICK y \in Int : y = b * q
      OBVIOUS
    <3>2. b * n * n + (t - b) * 0 = y
      BY <2>3, <3>1
    <3>3. Grain * y = b * d
      BY <1>2, <2>4, <3>1
    <3> QED
      BY <1>2, <2>4, <3>2, <3>3
  <2>7. 0 * n * n = 0
    OBVIOUS
  <2> QED
    BY <1>1, <2>2, <2>4, <2>5, <2>6, <2>7
<1> QED
  BY <1>4, <1>5

LEMMA CurveEnds ==
    ASSUME NEW m, m.baseline \in Int, m.target \in Int, NEW n \in Nat \ {0},
           NEW ramp \in BOOLEAN, NEW draw \in Draws
    PROVE  LET x == Curve(m, n, n, ramp, draw)
           IN x.den \in Nat \ {0} /\ x.num = m.target * x.den
<1>1. PICK b \in Int, t \in Int : b = m.baseline /\ t = m.target
  OBVIOUS
<1>2. Grain \in Nat \ {0}
  BY ScenariosAssumption
<1>3. n \in {0, n}
  OBVIOUS
<1>4. CASE ramp
  <2>1. Curve(m, n, n, ramp, draw)
          = [num |-> 500 * Grain * (b * n + (t - b) * n) + RampTenths * Abs(0) * n, den |-> 500 * Grain * n]
    BY <1>1, <1>3, <1>4 DEF Curve
  <2>2. PICK d \in Nat \ {0} : d = Grain * n
    BY <1>2
  <2>3. 500 * Grain * n = 500 * d /\ 500 * Grain * (b * n + (t - b) * n) = t * (500 * d)
    <3>1. PICK y \in Int : y = t * n
      OBVIOUS
    <3>2. Grain * y = t * d
      BY <1>2, <2>2, <3>1
    <3>3. b * n + (t - b) * n = y
      BY <3>1
    <3> QED
      BY <1>2, <2>2, <3>2, <3>3
  <2>4. RampTenths * Abs(0) * n = 0
    BY DEF RampTenths, Abs
  <2> QED
    BY <1>1, <2>1, <2>2, <2>3, <2>4
<1>5. CASE ~ramp
  <2>1. EaseInOutQuad(n, n) = n * n
    BY DEF EaseInOutQuad
  <2>2. Curve(m, n, n, ramp, draw)
          = [num |-> 50 * Grain * (b * n * n + (t - b) * (n * n)) + 0 * n * n, den |-> 50 * Grain * n * n]
    BY <1>1, <1>3, <1>5, <2>1 DEF Curve
  <2>3. PICK q \in Nat \ {0} : q = n * n
    OBVIOUS
  <2>4. PICK d \in Nat \ {0} : d = Grain * q
    BY <1>2
  <2>5. 50 * Grain * n * n = 50 * d
    BY <1>2, <2>3, <2>4
  <2>6. 50 * Grain * (b * n * n + (t - b) * (n * n)) = t * (50 * d)
    <3>1. PICK y \in Int : y = t * q
      OBVIOUS
    <3>2. b * n * n + (t - b) * (n * n) = y
      <4>1. b * n * n = b * q
        BY <2>3
      <4> QED
        BY <2>3, <3>1, <4>1
    <3>3. Grain * y = t * d
      BY <1>2, <2>4, <3>1
    <3> QED
      BY <1>2, <2>4, <3>2, <3>3
  <2>7. 0 * n * n = 0
    OBVIOUS
  <2> QED
    BY <1>1, <2>2, <2>4, <2>5, <2>6, <2>7
<1> QED
  BY <1>4, <1>5

LEMMA EaseBounds ==
    ASSUME NEW n \in Nat \ {0}, NEW k \in 0 .. n
    PROVE  EaseInOutQuad(k, n) \in 0 .. n * n
<1>1. CASE 2 * k < n
  <2>1. PICK a \in Nat : a = k * k
    OBVIOUS
  <2>2. (2 * k) * (2 * k) <= n * n
    BY <1>1
  <2>3. (2 * k) * (2 * k) = 4 * a
    BY <2>1
  <2> QED
    BY <1>1, <2>1, <2>2, <2>3 DEF EaseInOutQuad
<1>2. CASE ~(2 * k < n)
  <2>1. PICK j \in Nat : j = n - k
    OBVIOUS
  <2>2. (2 * j) * (2 * j) <= n * n
    BY <1>2, <2>1
  <2>3. PICK a \in Nat : a = j * j
    OBVIOUS
  <2>4. (2 * j) * (2 * j) = 4 * a
    BY <2>3
  <2>5. EaseInOutQuad(k, n) = n * n - 2 * a
    BY <1>2, <2>1, <2>3 DEF EaseInOutQuad
  <2> QED
    BY <2>2, <2>3, <2>4, <2>5
<1> QED
  BY <1>1, <1>2

\* The error rate stays below its rule's second threshold under any noise.
LEMMA CoreErrorsStayLow ==
    ASSUME NEW n \in Nat \ {0}, NEW k \in 0 .. n, NEW draw \in Draws
    PROVE  Tier(Curve(CoreErrors, k, n, FALSE, draw), AlertRules[CoreErrorsRule]) \notin {"SEV1", "SEV2"}
<1> DEFINE noise == IF k \in {0, n} THEN 0 ELSE 3 * Abs(335) * draw
           x == Curve(CoreErrors, k, n, FALSE, draw)
<1>1. Grain \in Nat \ {0} /\ draw \in Int /\ draw <= Grain
  BY ScenariosAssumption DEF Draws
<1>2. PICK q \in Nat \ {0} : q = n * n
  OBVIOUS
<1>3. PICK s \in Int : s = EaseInOutQuad(k, n) /\ 0 <= s /\ s <= q
  BY <1>2, EaseBounds
<1>4. noise \in Int /\ noise <= 1005 * Grain
  BY <1>1 DEF Abs
<1>5. CoreErrors.baseline = 15 /\ CoreErrors.target = 350
  BY DEF CoreErrors, Moves
<1>6. x = [num |-> 50 * Grain * (15 * n * n + 335 * s) + noise * n * n, den |-> 50 * Grain * n * n]
  BY <1>3, <1>5 DEF Curve
<1> HIDE DEF noise, x
<1>7. PICK z \in Int : z = noise
  BY <1>4
<1>8. PICK d \in Nat \ {0} : d = Grain * q
  BY <1>1, <1>2
<1>9. x.den = 50 * d
  <2>1. 50 * Grain * n * n = 50 * (Grain * q)
    BY <1>1, <1>2
  <2> QED
    BY <1>6, <1>8, <2>1
<1>10. x.num \in Int /\ x.num <= 18505 * d
  <2>1. 15 * n * n + 335 * s <= 350 * q /\ 15 * n * n + 335 * s \in Int
    <3>1. 15 * n * n = 15 * q
      BY <1>2
    <3> QED
      BY <1>2, <1>3, <3>1
  <2>2. PICK y \in Int : y = 15 * n * n + 335 * s
    BY <2>1
  <2>3. Grain * y <= Grain * (350 * q)
    BY <1>1, <2>1, <2>2
  <2>4. Grain * (350 * q) = 350 * d
    BY <1>1, <1>8
  <2>5. PICK g \in Int : g = Grain * y
    BY <1>1
  <2>6. 50 * Grain * y = 50 * g
    BY <1>1, <2>5
  <2>7. z * q <= (1005 * Grain) * q
    BY <1>1, <1>4, <1>7
  <2>8. (1005 * Grain) * q = 1005 * d
    BY <1>1, <1>8
  <2>9. PICK h \in Int : h = z * q
    OBVIOUS
  <2>10. noise * n * n = h
    BY <1>2, <1>7, <2>9
  <2>11. x.num = 50 * g + h
    BY <1>6, <2>2, <2>6, <2>10
  <2> QED
    BY <2>3, <2>4, <2>5, <2>7, <2>8, <2>9, <2>11
<1>11. ~(x.num > 1000 * x.den) /\ ~(x.num > 500 * x.den) /\ x.den \in Nat \ {0}
  BY <1>9, <1>10
<1>12. AlertRules[CoreErrorsRule].tiers[1] = 1000 /\ AlertRules[CoreErrorsRule].tiers[2] = 500
  BY RulesOfPrimaries DEF CoreErrorsRule, Rule
<1>13. Tier(x, AlertRules[CoreErrorsRule]) \notin {"SEV1", "SEV2"}
  BY <1>10, <1>11, <1>12, TierBelow
<1> QED
  BY <1>13 DEF x

-----------------------------------------------------------------------------
(* The run.                                                                *)

\* What a run has opened and triggered once it has left DEGRADING.
SevereOne(def) == [s \in {"SEV1", "SEV2"} |-> IF s = "SEV1" THEN {def.primary} ELSE {}]

ScenarioTypeOK ==
    /\ scenario \in ScenarioNames /\ intensity \in {"LOW", "MEDIUM", "HIGH"}
    /\ demoPhase \in {"BASELINE", "DEGRADING", "INCIDENT", "REMEDIATING", "RESOLVED"}
    /\ ticks \in Nat /\ target \in Nat /\ ticks < target
    /\ firing \in [Ruling -> Kinds]

\* The alert of a primary metric fires from the last tick of DEGRADING until the
\* run has recovered: when another run begins, no primary metric has one.
PrimariesQuiet ==
    /\ \A c \in ScenarioNames \ {scenario} : firing[PrimaryRule(c)] = Quiet
    /\ IF demoPhase \in {"BASELINE", "DEGRADING", "RESOLVED"}
       THEN firing[PrimaryRule(scenario)] = Quiet
       ELSE firing[PrimaryRule(scenario)] # Quiet

OpenedSoFar ==
    IF demoPhase \in {"BASELINE", "DEGRADING"}
    THEN opened = NothingOpened /\ remedied = {}
    ELSE opened = SevereOne(Def) /\ remedied = {Def.action}

ScenarioInv == ScenarioTypeOK /\ PrimariesQuiet /\ OpenedSoFar

LEMMA ProfileTicks ==
    ASSUME NEW i \in {"LOW", "MEDIUM", "HIGH"}
    PROVE  /\ IntensityProfiles[i].baseline \subseteq Nat \ {0}
           /\ IntensityProfiles[i].degrading \subseteq Nat \ {0}
           /\ IntensityProfiles[i].incident \subseteq Nat \ {0}
           /\ IntensityProfiles[i].remediating \subseteq Nat \ {0}
<1>1. CASE i = "LOW"
  BY <1>1 DEF IntensityProfiles
<1>2. CASE i = "MEDIUM"
  BY <1>2 DEF IntensityProfiles
<1>3. CASE i = "HIGH"
  BY <1>3 DEF IntensityProfiles
<1> QED
  BY <1>1, <1>2, <1>3

LEMMA ScaledTicks ==
    ASSUME NEW range, range \subseteq Nat \ {0}, NEW ramp
    PROVE  RampScaledTicks(range, ramp) \subseteq Nat \ {0}
<1>1. \A n \in Nat \ {0} : (18 * n + 5) \div 10 \in Nat \ {0}
  OBVIOUS
<1> QED
  BY <1>1 DEF RampScaledTicks

\* What one tick's samples do: at most the primary metric opens an incident.
Sampled(p) ==
    /\ firing' \in [Ruling -> Kinds]
    /\ firing'[PrimaryRule(scenario)] = p
    /\ \A c \in ScenarioNames \ {scenario} : firing'[PrimaryRule(c)] = firing[PrimaryRule(c)]
    /\ opened' = [s \in {"SEV1", "SEV2"} |->
                    opened[s] \cup IF firing[PrimaryRule(scenario)] = Quiet /\ p = s
                                   THEN {Def.primary} ELSE {}]
    /\ remedied' = remedied \cup IF firing[PrimaryRule(scenario)] = Quiet /\ p = "SEV1"
                                 THEN {Def.action} ELSE {}

LEMMA TickSamples ==
    ASSUME ScenarioTypeOK, NEW n \in Nat \ {0}, NEW pk \in 0 .. n, NEW k \in 0 .. n,
           RecordAt(pk, k, n), EvaluateMetrics
    PROVE  \E d \in Draws :
             Sampled(Tier(Curve(Def.primary, pk, n, Def.ramp, d), AlertRules[PrimaryRule(scenario)]))
<1> DEFINE pr == PrimaryRule(scenario)
           one == Def.primary
<1>1. PICK draw \in [Metrics(Def) -> Draws] :
        sample' = [m \in Metrics(Def) |->
                     Curve(m, IF m = one THEN pk ELSE k, n, Def.ramp, draw[m])]
  BY DEF RecordAt
<1>2. Fits(Def, AlertRules[pr]) /\ OneRuled(Def) /\ pr = RuleOf(one)
  BY PrimaryFits, CorrelatedFits DEF ScenarioTypeOK, Def, PrimaryRule, RuleOf, RuleIn
<1>3. DOMAIN AlertRules = Ruling
  BY RulingNames
<1>4. one \in Metrics(Def) /\ one \in Ruled /\ draw[one] \in Draws
  BY <1>1, <1>2, <1>3 DEF OneRuled, Fits, Ruled, RuleOf, RuleIn
<1> DEFINE p == Tier(Curve(one, pk, n, Def.ramp, draw[one]), AlertRules[pr])
<1>5. FiringNow(one, sample'[one]) = p
  <2>1. sample'[one] = Curve(one, pk, n, Def.ramp, draw[one])
    BY <1>1, <1>4
  <2> QED
    BY <1>2, <2>1 DEF FiringNow
<1>6. ASSUME NEW m \in Ruled, m # one
      PROVE  RuleOf(m) = CoreErrorsRule /\ FiringNow(m, sample'[m]) \notin {"SEV1", "SEV2"}
  <2>1. m \in Metrics(Def) /\ RuleOf(m) \in Ruling
    BY <1>3 DEF Ruled
  <2>2. m = CoreErrors /\ RuleOf(m) = CoreErrorsRule /\ Def.ramp = FALSE
    BY <1>2, <1>6, <2>1 DEF OneRuled, RuleOf, RuleIn
  <2>3. sample'[m] = Curve(CoreErrors, k, n, FALSE, draw[m]) /\ draw[m] \in Draws
    BY <1>1, <1>6, <2>1, <2>2
  <2> QED
    BY <2>2, <2>3, CoreErrorsStayLow DEF FiringNow
<1>7. pr \in Ruling /\ pr # CoreErrorsRule
  BY <1>2 DEF Fits, RuleOf, RuleIn
<1>8. ASSUME NEW m \in Ruled, RuleOf(m) = pr PROVE m = one
  BY <1>2, <1>6, <1>7, <1>8
<1>9. \A m \in Ruled : FiringNow(m, sample'[m]) \in Kinds
  BY TierKinds DEF FiringNow
<1> DEFINE At(r) == CHOOSE m \in Ruled : RuleOf(m) = r
<1>10. At(pr) = one
  BY <1>2, <1>4, <1>8
<1>11. DOMAIN firing = Ruling
  BY DEF ScenarioTypeOK
<1>12. firing' = [r \in Ruling |->
                    IF \E m \in Ruled : RuleOf(m) = r THEN FiringNow(At(r), sample'[At(r)]) ELSE firing[r]]
  BY <1>11 DEF EvaluateMetrics
<1>13. firing' \in [Ruling -> Kinds]
  <2>1. ASSUME NEW r \in Ruling, \E m \in Ruled : RuleOf(m) = r
        PROVE  FiringNow(At(r), sample'[At(r)]) \in Kinds
    <3>1. At(r) \in Ruled
      BY <2>1
    <3> HIDE DEF At
    <3> QED
      BY <1>9, <3>1
  <2>2. \A r \in Ruling : firing[r] \in Kinds
    BY DEF ScenarioTypeOK
  <2> HIDE DEF At
  <2> QED
    BY <1>12, <2>1, <2>2
<1>14. firing'[pr] = p
  BY <1>2, <1>4, <1>5, <1>7, <1>10, <1>12
<1>15. ASSUME NEW c \in ScenarioNames \ {scenario}
       PROVE  firing'[PrimaryRule(c)] = firing[PrimaryRule(c)]
  <2>1. Fits(DemoScenarioDefs[c], AlertRules[PrimaryRule(c)])
    BY PrimaryFits DEF PrimaryRule
  <2>2. PrimaryRule(c) \in Ruling /\ PrimaryRule(c) # CoreErrorsRule
    BY <2>1 DEF Fits, PrimaryRule
  <2>3. PrimaryRule(c) # pr
    BY PrimariesDiffer DEF ScenarioTypeOK
  <2>4. ~ \E m \in Ruled : RuleOf(m) = PrimaryRule(c)
    BY <1>2, <1>6, <2>2, <2>3
  <2> QED
    BY <1>12, <2>2, <2>4
<1>16. ASSUME NEW s \in {"SEV1", "SEV2"}
       PROVE  NewlyFiring({s}) = IF firing[pr] = Quiet /\ p = s THEN {one} ELSE {}
  <2>1. ASSUME NEW m \in NewlyFiring({s}) PROVE m = one /\ firing[pr] = Quiet /\ p = s
    <3>1. m \in Ruled /\ firing[RuleOf(m)] = Quiet /\ FiringNow(m, sample'[m]) = s
      BY <2>1 DEF NewlyFiring
    <3>2. m = one
      BY <1>6, <1>16, <3>1
    <3> QED
      BY <1>2, <1>5, <3>1, <3>2
  <2>2. ASSUME firing[pr] = Quiet, p = s PROVE one \in NewlyFiring({s})
    BY <1>2, <1>4, <1>5, <2>2 DEF NewlyFiring
  <2> HIDE DEF p, pr, one
  <2> QED
    BY <2>1, <2>2
<1>17. opened' = [s \in {"SEV1", "SEV2"} |->
                    opened[s] \cup IF firing[pr] = Quiet /\ p = s THEN {one} ELSE {}]
  <2> HIDE DEF p, pr, one
  <2>1. opened' = [s \in {"SEV1", "SEV2"} |-> opened[s] \cup NewlyFiring({s})]
    BY DEF EvaluateMetrics
  <2> QED
    BY <1>16, <2>1
<1>18. remedied' = remedied \cup IF firing[pr] = Quiet /\ p = "SEV1" THEN {Def.action} ELSE {}
  <2>1. remedied' = remedied \cup ({AlertRules[RuleOf(m)].action : m \in NewlyFiring({"SEV1"})} \ {Quiet})
    BY DEF EvaluateMetrics
  <2>2. AlertRules[RuleOf(one)].action = Def.action /\ Def.action # Quiet
    BY <1>2, ScenariosAssumption DEF Fits
  <2>3. NewlyFiring({"SEV1"}) = IF firing[pr] = Quiet /\ p = "SEV1" THEN {one} ELSE {}
    BY <1>16
  <2> HIDE DEF p, pr, one
  <2> QED
    BY <2>1, <2>2, <2>3
<1> QED
  BY <1>4, <1>13, <1>14, <1>15, <1>17, <1>18 DEF Sampled

\* At the two ends of the curve the sample is the baseline and the target.
LEMMA PrimaryEnds ==
    ASSUME ScenarioTypeOK, NEW n \in Nat \ {0}, NEW d \in Draws
    PROVE  /\ Tier(Curve(Def.primary, 0, n, Def.ramp, d), AlertRules[PrimaryRule(scenario)]) = Quiet
           /\ Tier(Curve(Def.primary, n, n, Def.ramp, d), AlertRules[PrimaryRule(scenario)]) = "SEV1"
<1> DEFINE r == AlertRules[PrimaryRule(scenario)]
           m == Def.primary
<1>1. Fits(Def, r)
  BY PrimaryFits DEF ScenarioTypeOK, Def, PrimaryRule
<1>2. m.baseline \in Int /\ m.target \in Int /\ Def.ramp \in BOOLEAN
  BY <1>1 DEF Fits
<1> DEFINE x == Curve(m, 0, n, Def.ramp, d)
           y == Curve(m, n, n, Def.ramp, d)
<1>3. x.den \in Nat \ {0} /\ x.num = m.baseline * x.den
  BY <1>2, CurveStarts
<1>4. y.den \in Nat \ {0} /\ y.num = m.target * y.den
  BY <1>2, CurveEnds
<1>5. r.tiers \in [1 .. 4 -> Int] /\ (\A i \in 1 .. 4 : m.baseline <= r.tiers[i]) /\ m.target > r.tiers[1]
  BY <1>1 DEF Fits
<1> HIDE DEF x, y, r, m
<1>6. Tier(x, r) = Quiet
  BY <1>2, <1>3, <1>5, TierAt DEF m
<1>7. Tier(y, r) = "SEV1"
  BY <1>2, <1>4, <1>5, TierAt DEF m
<1> QED
  BY <1>6, <1>7 DEF x, y, r, m

\* While the primary metric has its alert, samples open and trigger nothing; nor
\* do they while it stays at its baseline.
LEMMA SampledAgain ==
    ASSUME NEW p, Sampled(p), p = Quiet \/ firing[PrimaryRule(scenario)] # Quiet,
           opened = NothingOpened \/ opened = SevereOne(Def)
    PROVE  opened' = opened /\ remedied' = remedied
<1>1. Quiet # "SEV1" /\ Quiet # "SEV2"
  BY ScenariosAssumption DEF Severities
<1>2. \A s \in {"SEV1", "SEV2"} : ~(firing[PrimaryRule(scenario)] = Quiet /\ p = s)
  BY <1>1
<1>3. opened' = [s \in {"SEV1", "SEV2"} |-> opened[s]]
  BY <1>2 DEF Sampled
<1>4. opened' = opened
  BY <1>3 DEF NothingOpened, SevereOne
<1>5. remedied' = remedied
  BY <1>2 DEF Sampled
<1> QED
  BY <1>4, <1>5

LEMMA ScenariosInitInv == ScenariosInit => ScenarioInv
<1> SUFFICES ASSUME ScenariosInit PROVE ScenarioInv
  OBVIOUS
<1>1. scenario \in ScenarioNames /\ intensity \in {"LOW", "MEDIUM", "HIGH"}
  BY Names, ScenariosAssumption DEF ScenariosInit
<1>2. target \in Nat \ {0}
  BY <1>1, ProfileTicks DEF ScenariosInit
<1>3. firing = [r \in Ruling |-> Quiet]
  BY RulingNames DEF ScenariosInit
<1>4. \A c \in ScenarioNames : PrimaryRule(c) \in Ruling
  BY PrimaryFits DEF Fits, PrimaryRule
<1>5. ScenarioTypeOK
  BY <1>1, <1>2, <1>3 DEF ScenariosInit, ScenarioTypeOK, Kinds
<1>6. PrimariesQuiet
  BY <1>1, <1>3, <1>4 DEF ScenariosInit, PrimariesQuiet
<1>7. OpenedSoFar
  BY DEF ScenariosInit, OpenedSoFar
<1> QED
  BY <1>5, <1>6, <1>7 DEF ScenarioInv

LEMMA BaselineKeeps == ScenarioInv /\ HandleBaseline => ScenarioInv'
<1> SUFFICES ASSUME ScenarioInv, HandleBaseline PROVE ScenarioInv'
  OBVIOUS
<1> USE DEF ScenarioInv
<1>1. target \in Nat \ {0} /\ scenario' = scenario /\ intensity' = intensity /\ demoPhase = "BASELINE"
      /\ RecordAt(0, 0, target) /\ EvaluateMetrics
  BY DEF ScenarioTypeOK, HandleBaseline
<1>2. PICK d \in Draws :
        Sampled(Tier(Curve(Def.primary, 0, target, Def.ramp, d), AlertRules[PrimaryRule(scenario)]))
  BY <1>1, TickSamples
<1>3. Sampled(Quiet)
  BY <1>1, <1>2, PrimaryEnds
<1>4. opened = NothingOpened /\ remedied = {}
  BY <1>1 DEF OpenedSoFar
<1>5. opened' = NothingOpened /\ remedied' = {}
  BY <1>3, <1>4, SampledAgain
<1>6. /\ demoPhase' \in {"BASELINE", "DEGRADING"}
      /\ ticks' \in Nat /\ target' \in Nat /\ ticks' < target'
  <2>1. CASE LastTick
    <3>1. demoPhase' = "DEGRADING" /\ ticks' = 0
          /\ target' \in RampScaledTicks(IntensityProfiles[intensity].degrading, Def.ramp)
      BY <2>1 DEF HandleBaseline, Enter
    <3>2. target' \in Nat \ {0}
      BY <3>1, ProfileTicks, ScaledTicks DEF ScenarioTypeOK
    <3> QED
      BY <3>1, <3>2
  <2>2. CASE ~LastTick
    BY <1>1, <2>2 DEF HandleBaseline, Stay, LastTick, ScenarioTypeOK
  <2> QED
    BY <2>1, <2>2
<1>7. ScenarioTypeOK'
  BY <1>1, <1>3, <1>6 DEF ScenarioTypeOK, Sampled
<1>8. PrimariesQuiet'
  BY <1>1, <1>3, <1>6 DEF PrimariesQuiet, Sampled
<1>9. OpenedSoFar'
  BY <1>5, <1>6 DEF OpenedSoFar
<1> QED
  BY <1>7, <1>8, <1>9

LEMMA DegradingKeeps == ScenarioInv /\ HandleDegrading => ScenarioInv'
<1> SUFFICES ASSUME ScenarioInv, HandleDegrading PROVE ScenarioInv'
  OBVIOUS
<1> USE DEF ScenarioInv
<1>1. target \in Nat \ {0} /\ scenario' = scenario /\ intensity' = intensity /\ demoPhase = "DEGRADING"
      /\ ticks \in Nat /\ ticks < target
      /\ RecordAt(PrimaryProgress, ticks + 1, target) /\ EvaluateMetrics
  BY DEF ScenarioTypeOK, HandleDegrading
<1>2. PrimaryProgress \in 0 .. target /\ ticks + 1 \in 0 .. target
  BY <1>1 DEF PrimaryProgress
<1>3. PICK d \in Draws :
        Sampled(Tier(Curve(Def.primary, PrimaryProgress, target, Def.ramp, d),
                     AlertRules[PrimaryRule(scenario)]))
  BY <1>1, <1>2, TickSamples
<1>4. opened = NothingOpened /\ remedied = {} /\ firing[PrimaryRule(scenario)] = Quiet
  BY <1>1 DEF OpenedSoFar, PrimariesQuiet
<1>5. RuleOf(Def.primary) = PrimaryRule(scenario)
  BY DEF RuleOf, PrimaryRule, RuleIn, Def
<1>6. Quiet # "SEV1" /\ Quiet # "SEV2"
  BY ScenariosAssumption DEF Severities
<1>7. CASE LastTick
  <2>1. Sampled("SEV1")
    BY <1>1, <1>3, <1>7, PrimaryEnds DEF PrimaryProgress
  <2>2. opened' = SevereOne(Def)
    BY <1>4, <2>1 DEF Sampled, NothingOpened, SevereOne
  <2>3. remedied' = {Def.action}
    BY <1>4, <2>1 DEF Sampled
  <2>4. firing'[RuleOf(Def.primary)] = "SEV1" /\ Def.primary \in opened'["SEV1"]
    BY <1>5, <2>1, <2>2 DEF Sampled, SevereOne
  <2>5. demoPhase' = "INCIDENT" /\ ticks' = 0 /\ target' \in IntensityProfiles[intensity].incident
    BY <2>4 DEF HandleDegrading, Enter
  <2>6. target' \in Nat \ {0}
    BY <2>5, ProfileTicks DEF ScenarioTypeOK
  <2>7. ScenarioTypeOK'
    BY <1>1, <2>1, <2>5, <2>6 DEF ScenarioTypeOK, Sampled
  <2>8. PrimariesQuiet'
    BY <1>1, <1>6, <2>1, <2>5 DEF PrimariesQuiet, Sampled
  <2>9. OpenedSoFar'
    BY <1>1, <2>2, <2>3, <2>5 DEF OpenedSoFar, Def
  <2> QED
    BY <2>7, <2>8, <2>9
<1>8. CASE ~LastTick
  <2>1. Sampled(Quiet)
    BY <1>1, <1>3, <1>8, PrimaryEnds DEF PrimaryProgress
  <2>2. opened' = NothingOpened /\ remedied' = {}
    BY <1>4, <2>1, SampledAgain
  <2>3. firing'[RuleOf(Def.primary)] # "SEV1"
    BY <1>5, <1>6, <2>1 DEF Sampled
  <2>4. demoPhase' = "DEGRADING" /\ target' = target /\ ticks' = ticks + 1
    BY <1>1, <1>8, <2>3 DEF HandleDegrading
  <2>5. ticks + 1 < target
    BY <1>1, <1>8 DEF LastTick
  <2>6. ScenarioTypeOK'
    BY <1>1, <2>1, <2>4, <2>5 DEF ScenarioTypeOK, Sampled
  <2>7. PrimariesQuiet'
    BY <1>1, <2>1, <2>4 DEF PrimariesQuiet, Sampled
  <2>8. OpenedSoFar'
    BY <2>2, <2>4 DEF OpenedSoFar
  <2> QED
    BY <2>6, <2>7, <2>8
<1> QED
  BY <1>7, <1>8

LEMMA IncidentKeeps == ScenarioInv /\ HandleIncident => ScenarioInv'
<1> SUFFICES ASSUME ScenarioInv, HandleIncident PROVE ScenarioInv'
  OBVIOUS
<1> USE DEF ScenarioInv
<1>1. target \in Nat \ {0} /\ scenario' = scenario /\ intensity' = intensity /\ demoPhase = "INCIDENT"
      /\ RecordAt(target, target, target) /\ EvaluateMetrics
  BY DEF ScenarioTypeOK, HandleIncident
<1>2. PICK d \in Draws :
        Sampled(Tier(Curve(Def.primary, target, target, Def.ramp, d), AlertRules[PrimaryRule(scenario)]))
  BY <1>1, TickSamples
<1>3. Sampled("SEV1")
  BY <1>1, <1>2, PrimaryEnds
<1>4. opened = SevereOne(Def) /\ remedied = {Def.action} /\ firing[PrimaryRule(scenario)] # Quiet
  BY <1>1 DEF OpenedSoFar, PrimariesQuiet
<1>5. opened' = SevereOne(Def) /\ remedied' = {Def.action}
  BY <1>3, <1>4, SampledAgain
<1>6. /\ demoPhase' \in {"INCIDENT", "REMEDIATING"}
      /\ ticks' \in Nat /\ target' \in Nat /\ ticks' < target'
  <2>1. CASE LastTick
    <3>1. demoPhase' = "REMEDIATING" /\ ticks' = 0
          /\ target' \in RampScaledTicks(IntensityProfiles[intensity].remediating, Def.ramp)
      BY <2>1 DEF HandleIncident, Enter
    <3>2. target' \in Nat \ {0}
      BY <3>1, ProfileTicks, ScaledTicks DEF ScenarioTypeOK
    <3> QED
      BY <3>1, <3>2
  <2>2. CASE ~LastTick
    BY <1>1, <2>2 DEF HandleIncident, Stay, LastTick, ScenarioTypeOK
  <2> QED
    BY <2>1, <2>2
<1>7. Quiet # "SEV1"
  BY ScenariosAssumption DEF Severities
<1>8. ScenarioTypeOK'
  BY <1>1, <1>3, <1>6 DEF ScenarioTypeOK, Sampled
<1>9. PrimariesQuiet'
  BY <1>1, <1>3, <1>6, <1>7 DEF PrimariesQuiet, Sampled
<1>10. OpenedSoFar'
  BY <1>1, <1>5, <1>6 DEF OpenedSoFar, Def
<1> QED
  BY <1>8, <1>9, <1>10

LEMMA RemediatingKeeps == ScenarioInv /\ HandleRemediating => ScenarioInv'
<1> SUFFICES ASSUME ScenarioInv, HandleRemediating PROVE ScenarioInv'
  OBVIOUS
<1> USE DEF ScenarioInv
<1>1. target \in Nat \ {0} /\ scenario' = scenario /\ intensity' = intensity /\ demoPhase = "REMEDIATING"
      /\ ticks \in Nat /\ ticks < target
      /\ RecordAt(RecoveryTicks, RecoveryTicks, target) /\ EvaluateMetrics
  BY DEF ScenarioTypeOK, HandleRemediating
<1>2. RecoveryTicks \in 0 .. target
  BY <1>1 DEF RecoveryTicks
<1>3. PICK d \in Draws :
        Sampled(Tier(Curve(Def.primary, RecoveryTicks, target, Def.ramp, d),
                     AlertRules[PrimaryRule(scenario)]))
  BY <1>1, <1>2, TickSamples
<1>4. PICK p : /\ p = Tier(Curve(Def.primary, RecoveryTicks, target, Def.ramp, d),
                           AlertRules[PrimaryRule(scenario)])
               /\ Sampled(p)
  BY <1>3
<1>5. LastTick => p = Quiet
  BY <1>1, <1>4, PrimaryEnds DEF RecoveryTicks
<1>6. opened = SevereOne(Def) /\ remedied = {Def.action} /\ firing[PrimaryRule(scenario)] # Quiet
  BY <1>1 DEF OpenedSoFar, PrimariesQuiet
<1>7. opened' = SevereOne(Def) /\ remedied' = {Def.action}
  BY <1>4, <1>6, SampledAgain
<1>8. firing'[RuleOf(Def.primary)] = p /\ firing[RuleOf(Def.primary)] # Quiet
      /\ firing'[PrimaryRule(scenario)] = p
  BY <1>4, <1>6 DEF Sampled, RuleOf, PrimaryRule, RuleIn, Def
<1>9. CASE p = Quiet
  <2>1. PrimaryResolved
    BY <1>8, <1>9 DEF PrimaryResolved
  <2>2. demoPhase' = "RESOLVED" /\ ticks' = 0 /\ target' = 1
    BY <2>1 DEF HandleRemediating, Enter
  <2>3. ScenarioTypeOK'
    BY <1>1, <1>4, <2>2 DEF ScenarioTypeOK, Sampled
  <2>4. PrimariesQuiet'
    BY <1>1, <1>4, <1>9, <2>2 DEF PrimariesQuiet, Sampled
  <2>5. OpenedSoFar'
    BY <1>1, <1>7, <2>2 DEF OpenedSoFar, Def
  <2> QED
    BY <2>3, <2>4, <2>5
<1>10. CASE p # Quiet
  <2>1. ~PrimaryResolved /\ ~LastTick
    BY <1>5, <1>8, <1>10 DEF PrimaryResolved
  <2>2. demoPhase' = "REMEDIATING" /\ ticks' = ticks + 1 /\ target' = target /\ ticks + 1 < target
    BY <1>1, <2>1 DEF HandleRemediating, Stay, LastTick
  <2>3. ScenarioTypeOK'
    BY <1>1, <1>4, <2>2 DEF ScenarioTypeOK, Sampled
  <2>4. PrimariesQuiet'
    BY <1>1, <1>4, <1>8, <1>10, <2>2 DEF PrimariesQuiet, Sampled
  <2>5. OpenedSoFar'
    BY <1>1, <1>7, <2>2 DEF OpenedSoFar, Def
  <2> QED
    BY <2>3, <2>4, <2>5
<1> QED
  BY <1>9, <1>10

LEMMA BeginKeeps == ScenarioInv /\ BeginScenario => ScenarioInv'
<1> SUFFICES ASSUME ScenarioInv, BeginScenario PROVE ScenarioInv'
  OBVIOUS
<1> USE DEF ScenarioInv
<1>1. /\ demoPhase = "RESOLVED" /\ scenario' \in ScenarioNames /\ intensity' = intensity
      /\ firing' = firing /\ demoPhase' = "BASELINE" /\ ticks' = 0
      /\ target' \in IntensityProfiles[intensity].baseline
      /\ opened' = NothingOpened /\ remedied' = {}
  BY Names DEF BeginScenario, Enter
<1>2. target' \in Nat \ {0}
  BY <1>1, ProfileTicks DEF ScenarioTypeOK
<1>3. \A c \in ScenarioNames : firing[PrimaryRule(c)] = Quiet
  BY <1>1 DEF PrimariesQuiet
<1>4. ScenarioTypeOK'
  BY <1>1, <1>2 DEF ScenarioTypeOK
<1>5. PrimariesQuiet'
  BY <1>1, <1>3 DEF PrimariesQuiet
<1>6. OpenedSoFar'
  BY <1>1 DEF OpenedSoFar, NothingOpened
<1> QED
  BY <1>4, <1>5, <1>6

LEMMA InvGivesOne == ScenarioInv => OneSevereIncident
<1> SUFFICES ASSUME ScenarioInv PROVE OneSevereIncident
  OBVIOUS
<1>1. CASE demoPhase \in {"BASELINE", "DEGRADING"}
  BY <1>1 DEF ScenarioInv, OpenedSoFar, OneSevereIncident
<1>2. CASE demoPhase \notin {"BASELINE", "DEGRADING"}
  <2>1. opened = SevereOne(Def) /\ remedied = {Def.action}
    BY <1>2 DEF ScenarioInv, OpenedSoFar
  <2>2. SevereOne(Def) = [SEV1 |-> {Def.primary}, SEV2 |-> {}]
    BY DEF SevereOne
  <2>3. demoPhase = "RESOLVED" => firing[RuleOf(Def.primary)] = Quiet
    BY DEF ScenarioInv, PrimariesQuiet, RuleOf, PrimaryRule, RuleIn, Def
  <2> QED
    BY <1>2, <2>1, <2>2, <2>3 DEF OneSevereIncident
<1> QED
  BY <1>1, <1>2

\* Every run of demo-mode.service.ts opens one incident, a SEV1 of its primary
\* metric, triggers the one remediation its summary names, and leaves no alert of
\* that metric: for any intensities, any lengths they allow and any noise,
\* however finely it is drawn, and after any runs before it.
THEOREM OneSevereIncidentHolds == ScenariosInit /\ [][ScenariosNext]_scenarioVars => []OneSevereIncident
<1>1. ScenarioInv /\ [ScenariosNext]_scenarioVars => ScenarioInv'
  <2> SUFFICES ASSUME ScenarioInv, [ScenariosNext]_scenarioVars PROVE ScenarioInv'
    OBVIOUS
  <2>1. CASE UNCHANGED scenarioVars
    BY <2>1 DEF scenarioVars, ScenarioInv, ScenarioTypeOK, PrimariesQuiet, OpenedSoFar, Def
  <2> QED
    BY <2>1, BaselineKeeps, DegradingKeeps, IncidentKeeps, RemediatingKeeps, BeginKeeps DEF ScenariosNext
<1> QED
  BY <1>1, ScenariosInitInv, InvGivesOne, PTL

-----------------------------------------------------------------------------
(* The blast radius.                                                       *)

LEMMA LeastOf ==
    ASSUME NEW S \in SUBSET Nat, S # {}
    PROVE  \E n \in S : \A m \in S : n <= m
<1> DEFINE R == OpToRel(<, Nat)
<1>1. IsWellFoundedOn(R, Nat)
  BY NatLessThanWellFounded
<1>2. ASSUME NEW x \in Nat, NEW y \in Nat PROVE <<y, x>> \in R <=> y < x
  BY DEF OpToRel
<1> HIDE DEF R
<1>3. PICK n \in S : \A m \in S : <<m, n>> \notin R
  BY <1>1, WFMin
<1>4. ASSUME NEW m \in S PROVE n <= m
  <2>1. m \in Nat /\ n \in Nat /\ <<m, n>> \notin R
    BY <1>3
  <2>2. ~(m < n)
    BY <1>2, <2>1
  <2> QED
    BY <2>1, <2>2
<1> QED
  BY <1>4

-----------------------------------------------------------------------------

\* What a function that gives the levels up to n says of each.
LevelsUpTo(edges, s, f, n) ==
    f = [k \in 0 .. n |-> IF k = 0 THEN {s} ELSE DependentsOf(edges, f[k - 1])]

LEMMA LevelsExist ==
    ASSUME NEW edges, NEW s, NEW n \in Nat
    PROVE  \E f : LevelsUpTo(edges, s, f, n)
<1> DEFINE Missing == {m \in Nat : ~ \E f : LevelsUpTo(edges, s, f, m)}
<1> SUFFICES ASSUME Missing # {} PROVE FALSE
  OBVIOUS
<1>1. PICK m \in Missing : \A j \in Missing : m <= j
  BY LeastOf
<1>2. CASE m = 0
  <2>1. LevelsUpTo(edges, s, [k \in 0 .. 0 |-> {s}], 0)
    BY DEF LevelsUpTo
  <2> QED
    BY <1>1, <1>2, <2>1
<1>3. CASE m # 0
  <2>1. m - 1 \in Nat /\ m - 1 \notin Missing
    BY <1>1, <1>3
  <2>2. PICK g : LevelsUpTo(edges, s, g, m - 1)
    BY <2>1
  <2>3. PICK f : f = [k \in 0 .. m |-> IF k = 0 THEN {s} ELSE DependentsOf(edges, g[k - 1])]
    OBVIOUS
  <2>4. \A j \in 0 .. m - 1 : g[j] = IF j = 0 THEN {s} ELSE DependentsOf(edges, g[j - 1])
    BY <2>2 DEF LevelsUpTo
  <2>5. \A j \in 0 .. m - 1 : f[j] = g[j]
    <3>1. \A j \in 0 .. m : f[j] = IF j = 0 THEN {s} ELSE DependentsOf(edges, g[j - 1])
      BY <2>3
    <3>2. \A j \in 0 .. m - 1 : j \in 0 .. m
      BY <1>1
    <3> QED
      BY <2>4, <3>1, <3>2
  <2>6. \A k \in 0 .. m : k # 0 => f[k - 1] = g[k - 1]
    BY <2>1, <2>5
  <2>7. LevelsUpTo(edges, s, f, m)
    BY <2>3, <2>6 DEF LevelsUpTo
  <2> QED
    BY <1>1, <2>7
<1> QED
  BY <1>2, <1>3

LEMMA LevelFacts ==
    ASSUME NEW edges, NEW s
    PROVE  /\ Levels(edges, s)[0] = {s}
           /\ \A k \in 1 .. MaxDepth :
                Levels(edges, s)[k] = DependentsOf(edges, Levels(edges, s)[k - 1])
<1>1. MaxDepth \in Nat
  BY BlastRadiusAssumption
<1>2. Levels(edges, s) = CHOOSE f : LevelsUpTo(edges, s, f, MaxDepth)
  BY DEF Levels, LevelsUpTo
<1>3. LevelsUpTo(edges, s, Levels(edges, s), MaxDepth)
  BY <1>1, <1>2, LevelsExist
<1> DEFINE L == Levels(edges, s)
<1>4. L = [k \in 0 .. MaxDepth |-> IF k = 0 THEN {s} ELSE DependentsOf(edges, L[k - 1])]
  BY <1>3 DEF LevelsUpTo
<1> HIDE DEF L
<1>5. \A k \in 0 .. MaxDepth : L[k] = IF k = 0 THEN {s} ELSE DependentsOf(edges, L[k - 1])
  BY <1>4
<1> QED
  BY <1>1, <1>5 DEF L

LEMMA ChainOfNone ==
    ASSUME NEW nodes, NEW edges, NEW s \in nodes, NEW t \in nodes
    PROVE  Chain(nodes, edges, t, s, 0) <=> t = s
<1>1. ASSUME t = s PROVE Chain(nodes, edges, t, s, 0)
  <2>1. PICK w \in [0 .. 0 -> nodes] : w = [k \in 0 .. 0 |-> t]
    OBVIOUS
  <2>2. w[0] = t /\ w[0] = s /\ \A k \in 1 .. 0 : <<w[k - 1], w[k]>> \in edges
    BY <1>1, <2>1
  <2> QED
    BY <2>2 DEF Chain
<1>2. Chain(nodes, edges, t, s, 0) => t = s
  BY DEF Chain
<1> QED
  BY <1>1, <1>2

\* A chain is a first dependency and a chain that is one shorter.
LEMMA ChainOfMore ==
    ASSUME NEW nodes, NEW edges, NEW s \in nodes, NEW t \in nodes, NEW n \in Nat \ {0}
    PROVE  Chain(nodes, edges, t, s, n) <=>
             \E u \in nodes : <<t, u>> \in edges /\ Chain(nodes, edges, u, s, n - 1)
<1>1. ASSUME Chain(nodes, edges, t, s, n)
      PROVE  \E u \in nodes : <<t, u>> \in edges /\ Chain(nodes, edges, u, s, n - 1)
  <2>1. PICK w \in [0 .. n -> nodes] :
          w[0] = t /\ w[n] = s /\ \A k \in 1 .. n : <<w[k - 1], w[k]>> \in edges
    BY <1>1 DEF Chain
  <2>2. PICK x \in [0 .. n - 1 -> nodes] : x = [k \in 0 .. n - 1 |-> w[k + 1]]
    <3>1. [k \in 0 .. n - 1 |-> w[k + 1]] \in [0 .. n - 1 -> nodes]
      BY <2>1
    <3> QED
      BY <3>1
  <2>3. x[0] = w[1] /\ x[n - 1] = s
    BY <2>1, <2>2
  <2>4. \A k \in 1 .. n - 1 : <<x[k - 1], x[k]>> \in edges
    <3>1. \A k \in 1 .. n - 1 : x[k - 1] = w[k] /\ x[k] = w[k + 1]
      BY <2>2
    <3>2. \A k \in 1 .. n - 1 : <<w[k], w[k + 1]>> \in edges
      BY <2>1
    <3> QED
      BY <3>1, <3>2
  <2>5. Chain(nodes, edges, w[1], s, n - 1)
    BY <2>3, <2>4 DEF Chain
  <2>6. w[1] \in nodes /\ <<t, w[1]>> \in edges
    BY <2>1
  <2> QED
    BY <2>5, <2>6
<1>2. ASSUME NEW u \in nodes, <<t, u>> \in edges, Chain(nodes, edges, u, s, n - 1)
      PROVE  Chain(nodes, edges, t, s, n)
  <2>1. PICK x \in [0 .. n - 1 -> nodes] :
          x[0] = u /\ x[n - 1] = s /\ \A k \in 1 .. n - 1 : <<x[k - 1], x[k]>> \in edges
    BY <1>2 DEF Chain
  <2>2. PICK w \in [0 .. n -> nodes] : w = [k \in 0 .. n |-> IF k = 0 THEN t ELSE x[k - 1]]
    <3>1. [k \in 0 .. n |-> IF k = 0 THEN t ELSE x[k - 1]] \in [0 .. n -> nodes]
      BY <2>1
    <3> QED
      BY <3>1
  <2>3. w[0] = t /\ w[1] = u /\ w[n] = s /\ \A k \in 1 .. n : w[k] = x[k - 1]
    BY <2>1, <2>2
  <2>4. ASSUME NEW k \in 1 .. n PROVE <<w[k - 1], w[k]>> \in edges
    <3>1. CASE k = 1
      BY <1>2, <2>3, <3>1
    <3>2. CASE k # 1
      <4>1. k - 1 \in 1 .. n - 1 /\ k - 1 \in 1 .. n
        BY <3>2
      <4>2. w[k - 1] = x[(k - 1) - 1] /\ w[k] = x[k - 1]
        BY <2>3, <4>1
      <4> QED
        BY <2>1, <4>1, <4>2
    <3> QED
      BY <3>1, <3>2
  <2> QED
    BY <2>3, <2>4 DEF Chain
<1> QED
  BY <1>1, <1>2

\* Level k is who is a chain of k dependencies away.
LEMMA LevelsAreChains ==
    ASSUME NEW nodes, NEW edges \in SUBSET (nodes \X nodes), NEW s \in nodes,
           NEW n \in 0 .. MaxDepth, NEW t
    PROVE  t \in Levels(edges, s)[n] <=> t \in nodes /\ Chain(nodes, edges, t, s, n)
<1> DEFINE L == Levels(edges, s)
           Right(k) == \A u : u \in L[k] <=> u \in nodes /\ Chain(nodes, edges, u, s, k)
           Wrong == {k \in 0 .. MaxDepth : ~Right(k)}
<1> SUFFICES ASSUME Wrong # {} PROVE FALSE
  <2>1. Wrong = {} => Right(n)
    OBVIOUS
  <2> QED
    BY <2>1
<1>0. MaxDepth \in Nat
  BY BlastRadiusAssumption
<1>1. PICK k \in Wrong : \A j \in Wrong : k <= j
  <2>1. Wrong \in SUBSET Nat
    BY <1>0
  <2> HIDE DEF Wrong
  <2> QED
    BY <2>1, LeastOf
<1>2. k \in 0 .. MaxDepth /\ ~Right(k)
  BY <1>1
<1>3. L[0] = {s} /\ \A j \in 1 .. MaxDepth : L[j] = DependentsOf(edges, L[j - 1])
  BY LevelFacts
<1> HIDE DEF L
<1>4. Right(0)
  <2>1. \A u \in nodes : Chain(nodes, edges, u, s, 0) <=> u = s
    BY ChainOfNone
  <2> QED
    BY <1>3, <2>1
<1>5. k # 0
  BY <1>2, <1>4
<1>6. k - 1 \in 0 .. MaxDepth /\ k \in 1 .. MaxDepth /\ k \in Nat \ {0}
  BY <1>0, <1>2, <1>5
<1>7. Right(k - 1)
  BY <1>1, <1>6
<1>8. ASSUME NEW u
      PROVE  u \in L[k] <=> u \in nodes /\ Chain(nodes, edges, u, s, k)
  <2>1. u \in L[k] <=> \E e \in edges : e[2] \in L[k - 1] /\ u = e[1]
    BY <1>3, <1>6 DEF DependentsOf
  <2>2. u \in L[k] <=> \E v \in nodes : u \in nodes /\ <<u, v>> \in edges /\ v \in L[k - 1]
    <3>1. ASSUME NEW e \in edges PROVE e = <<e[1], e[2]>> /\ e[1] \in nodes /\ e[2] \in nodes
      OBVIOUS
    <3>2. ASSUME NEW v \in nodes, <<u, v>> \in edges, v \in L[k - 1] PROVE u \in L[k]
      BY <2>1, <3>2
    <3> QED
      BY <2>1, <3>1, <3>2
  <2>3. \A v \in nodes : v \in L[k - 1] <=> Chain(nodes, edges, v, s, k - 1)
    BY <1>7
  <2>4. u \in nodes => (Chain(nodes, edges, u, s, k) <=>
                          \E v \in nodes : <<u, v>> \in edges /\ Chain(nodes, edges, v, s, k - 1))
    <3> SUFFICES ASSUME u \in nodes
                 PROVE  Chain(nodes, edges, u, s, k) <=>
                          \E v \in nodes : <<u, v>> \in edges /\ Chain(nodes, edges, v, s, k - 1)
      OBVIOUS
    <3> QED
      BY <1>6, ChainOfMore
  <2> QED
    BY <2>2, <2>3, <2>4
<1> QED
  BY <1>2, <1>8

\* The recursive query of service-dependencies.repository.ts finds exactly the
\* services from which a chain of at most MaxDepth dependencies leads to the one
\* asked about, each with the length of its shortest, on every graph, with loops
\* or without.
THEOREM QueryFindsShortestChains ==
    ASSUME NEW nodes, NEW edges \in SUBSET (nodes \X nodes), NEW s \in nodes
    PROVE  Affected(edges, s) = ShortestChains(nodes, edges, s)
<1> DEFINE L == Levels(edges, s)
           first(p) == p[1] \in L[p[2]] /\ \A j \in 1 .. p[2] - 1 : p[1] \notin L[j]
           least(p) == /\ Chain(nodes, edges, p[1], s, p[2])
                       /\ \A j \in 1 .. p[2] - 1 : ~Chain(nodes, edges, p[1], s, j)
<1>0. MaxDepth \in Nat
  BY BlastRadiusAssumption
<1>1. \A k \in 1 .. MaxDepth : \A t : t \in L[k] <=> t \in nodes /\ Chain(nodes, edges, t, s, k)
  BY <1>0, LevelsAreChains
<1>2. Affected(edges, s) = {p \in (UNION {L[k] : k \in 1 .. MaxDepth}) \X (1 .. MaxDepth) : first(p)}
  BY DEF Affected
<1>3. ShortestChains(nodes, edges, s) = {p \in nodes \X (1 .. MaxDepth) : least(p)}
  BY DEF ShortestChains
<1> HIDE DEF L
<1>4. ASSUME NEW t, NEW k \in 1 .. MaxDepth
      PROVE  /\ t \in nodes => (first(<<t, k>>) <=> least(<<t, k>>))
             /\ first(<<t, k>>) => t \in nodes /\ t \in UNION {L[j] : j \in 1 .. MaxDepth}
  <2>1. \A j \in 1 .. k - 1 : j \in 1 .. MaxDepth
    BY <1>0
  <2> QED
    BY <1>1, <2>1
<1>5. ASSUME NEW t, NEW k
      PROVE  <<t, k>> \in Affected(edges, s) <=> <<t, k>> \in ShortestChains(nodes, edges, s)
  <2> HIDE DEF first, least
  <2>1. <<t, k>> \in Affected(edges, s) <=>
          t \in UNION {L[j] : j \in 1 .. MaxDepth} /\ k \in 1 .. MaxDepth /\ first(<<t, k>>)
    BY <1>2
  <2>2. <<t, k>> \in ShortestChains(nodes, edges, s) <=>
          t \in nodes /\ k \in 1 .. MaxDepth /\ least(<<t, k>>)
    BY <1>3
  <2>3. CASE k \in 1 .. MaxDepth
    BY <1>4, <2>1, <2>2, <2>3
  <2> QED
    BY <2>1, <2>2, <2>3
<1>6. \A p \in Affected(edges, s) : p = <<p[1], p[2]>>
  BY <1>2
<1>7. \A p \in ShortestChains(nodes, edges, s) : p = <<p[1], p[2]>>
  BY <1>3
<1>8. ASSUME NEW p PROVE p \in Affected(edges, s) <=> p \in ShortestChains(nodes, edges, s)
  BY <1>5, <1>6, <1>7
<1> QED
  BY <1>8

\* Whatever is asked, of any graph or of the seeded one.
QueryFits ==
    /\ query.edges \in SUBSET (query.nodes \X query.nodes)
    /\ query.service \in query.nodes

LEMMA SeededGraphFits == SeededGraph \in SUBSET (SeededServices \X SeededServices)
<1>1. \A t \in SeededServices : DependsOn(t) \subseteq SeededServices
  BY DEF SeededServices, DependsOn
<1>2. SeededGraph = UNION {{t} \X DependsOn(t) : t \in SeededServices}
  BY DEF SeededGraph
<1> QED
  BY <1>1, <1>2

\* And so every question that is asked is answered, on any set of services and
\* on the seeded graph.
THEOREM BlastIsShortestChainsHolds ==
    ASSUME NEW CONSTANT nodes
    PROVE  BlastInit(nodes) /\ [][UNCHANGED query]_query => []BlastIsShortestChains
<1>1. BlastInit(nodes) => QueryFits
  BY SeededGraphFits DEF BlastInit, QueryFits
<1>2. QueryFits /\ [UNCHANGED query]_query => QueryFits'
  BY DEF QueryFits
<1>3. QueryFits => BlastIsShortestChains
  BY QueryFindsShortestChains DEF QueryFits, BlastIsShortestChains
<1> QED
  BY <1>1, <1>2, <1>3, PTL

=============================================================================
