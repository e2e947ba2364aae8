----------------------------- MODULE SeedScripts -----------------------------
(***************************************************************************)
(* The two seed scripts and the foreign keys they run against.  The seed   *)
(* upserts a small demonstration set; the history script wipes what was    *)
(* generated before, table by table, and writes six months anew.  Neither  *)
(* is one transaction: a script can be cut off between any two statements  *)
(* and run again, or the other one next, and the platform may have been    *)
(* used in between.                                                        *)
(*                                                                         *)
(* A table is empty or not: a deleteMany without a condition empties it,   *)
(* or fails if a row left refers to it by a restricting key.               *)
(***************************************************************************)
EXTENDS Naturals, Sequences, FiniteSets

CONSTANT PlatformTables  \* the tables the platform writes meanwhile (a bound)

VARIABLES
    rows,      \* the tables that have rows
    script,    \* the statements the running script has left
    failed,    \* the last script's statement was refused
    met        \* history: the platform has written during the last script

seedVars == <<rows, script, failed, met>>

-----------------------------------------------------------------------------
(* The schema: what a row of a table must refer to, and what becomes of it *)
(* when that is deleted.  Keys that may be null are set to null.           *)

Cascades ==
    [ serviceDependency |-> {"service"}, metric |-> {"service"}, alert |-> {"service"},
      alertRule |-> {"service"}, failureSimulation |-> {"service"}, slaRecord |-> {"service"},
      incidentTimelineEvent |-> {"incident"}, incidentComment |-> {"incident"},
      incidentRunbook |-> {"incident"}, rcaReport |-> {"incident"},
      correctiveAction |-> {"rcaReport"}, incident |-> {}, service |-> {}, runbook |-> {},
      user |-> {}, auditLog |-> {}, demoModeState |-> {} ]

Tables == DOMAIN Cascades

ASSUME PlatformAssumption == PlatformTables \subseteq Tables

\* Only keys to tables that some script deletes from: none deletes users.
Restricts ==
    [t \in Tables |-> CASE t = "incident" -> {"service"}
                        [] t = "incidentRunbook" -> {"runbook"}
                        [] OTHER -> {}]

\* Every one of them is written by a user but these.
Required ==
    [t \in Tables |->
       Cascades[t] \cup Restricts[t]
         \cup (IF t \in {"user", "service", "serviceDependency", "metric", "alert", "slaRecord",
                         "incident", "incidentTimelineEvent", "incidentRunbook", "demoModeState"}
               THEN {} ELSE {"user"})]

\* What goes when all rows of a table go: no key leads further than two hops.
Gone(t) ==
    LET children == {u \in Tables : t \in Cascades[u]}
        grandchildren == {u \in Tables : Cascades[u] \cap children # {}}
    IN {t} \cup children \cup grandchildren

Restricted(t) == \E u \in rows \ Gone(t) : t \in Restricts[u]

-----------------------------------------------------------------------------
(* The scripts.                                                            *)

Delete(tables) == [i \in DOMAIN tables |-> [deletes |-> TRUE, table |-> tables[i]]]
Write(tables) == [i \in DOMAIN tables |-> [deletes |-> FALSE, table |-> tables[i]]]

\* The mutated form: runbooks go before the records of their execution.
WipeRunbooksFirst ==
    Delete(<<"correctiveAction", "rcaReport", "incidentComment", "incidentTimelineEvent",
             "runbook", "incidentRunbook", "alert", "incident", "alertRule", "slaRecord",
             "metric", "failureSimulation", "serviceDependency", "service">>)

WipeGeneratedData ==
    Delete(<<"correctiveAction", "rcaReport", "incidentComment", "incidentTimelineEvent",
             "incidentRunbook", "alert", "incident", "alertRule", "slaRecord", "metric",
             "failureSimulation", "serviceDependency", "runbook", "service">>)

HistoryCatalog == Write(<<"user", "service", "serviceDependency", "runbook", "alertRule">>)

\* One incident's rows, in the order they are written.
HistoryIncident ==
    Write(<<"incident", "alert", "incidentTimelineEvent", "incidentComment",
            "incidentRunbook", "rcaReport", "correctiveAction">>)

HistoryScript ==
    WipeGeneratedData \o HistoryCatalog \o Write(<<"metric">>) \o HistoryIncident
      \o Write(<<"slaRecord">>)

\* An upsert leaves a row there; so do the updates that link an alert.
SeedUsersAndCatalog == Write(<<"user", "service", "serviceDependency">>)
SeedMetricsAndRunbook == Write(<<"metric", "runbook">>)
SeedOpenIncident == Write(<<"alert", "incident", "alert", "incidentRunbook">>)
SeedClosedIncident == Write(<<"alert", "incident", "alert", "rcaReport", "correctiveAction">>)
SeedSlaAndAudit == Write(<<"slaRecord", "auditLog">>)

SeedScript ==
    SeedUsersAndCatalog \o SeedMetricsAndRunbook \o SeedOpenIncident \o SeedClosedIncident
      \o SeedSlaAndAudit

-----------------------------------------------------------------------------

SeedInit ==
    /\ rows = {}
    /\ script = <<>>
    /\ failed = FALSE /\ met = FALSE

RunSeed ==
    /\ script = <<>>
    /\ script' = SeedScript
    /\ failed' = FALSE /\ met' = FALSE
    /\ UNCHANGED rows

RunHistory ==
    /\ script = <<>>
    /\ script' = HistoryScript
    /\ failed' = FALSE /\ met' = FALSE
    /\ UNCHANGED rows

DeleteMany ==
    LET t == Head(script).table IN
    /\ script # <<>> /\ Head(script).deletes /\ ~Restricted(t)
    /\ rows' = rows \ Gone(t)
    /\ script' = Tail(script)
    /\ UNCHANGED <<failed, met>>

WriteRows ==
    LET t == Head(script).table IN
    /\ script # <<>> /\ ~Head(script).deletes /\ Required[t] \subseteq rows
    /\ rows' = rows \cup {t}
    /\ script' = Tail(script)
    /\ UNCHANGED <<failed, met>>

\* A refused statement ends the script, as any exception does.
StatementRefused ==
    LET t == Head(script).table IN
    /\ script # <<>>
    /\ IF Head(script).deletes THEN Restricted(t) ELSE ~(Required[t] \subseteq rows)
    /\ script' = <<>> /\ failed' = TRUE
    /\ UNCHANGED <<rows, met>>

CutOff ==
    /\ script # <<>>
    /\ script' = <<>>
    /\ UNCHANGED <<rows, failed, met>>

\* The running platform deletes nothing that others refer to.
PlatformWrites(t) ==
    /\ t \in PlatformTables \ rows
    /\ Required[t] \subseteq rows
    /\ rows' = rows \cup {t}
    /\ met' = (met \/ script # <<>>)
    /\ UNCHANGED <<script, failed>>

SeedNext ==
    \/ RunSeed \/ RunHistory
    \/ DeleteMany \/ WriteRows \/ StatementRefused \/ CutOff
    \/ \E t \in PlatformTables : PlatformWrites(t)

-----------------------------------------------------------------------------
(* Properties.                                                             *)

\* No statement of a script is refused by a foreign key, whatever the scripts
\* before were cut off at and the platform has written since, unless the
\* platform writes while the script runs (it can open an incident between the
\* wipe of incidents and that of services).
ScriptsAreAccepted == failed => met

=============================================================================
