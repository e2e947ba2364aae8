-------------------------------- MODULE MCApi --------------------------------
(***************************************************************************)
(* One API process and what surrounds it, for TLC: the way of a request,   *)
(* the audit log and its reader, the process, the remediation engine with  *)
(* the circuit breaker it keeps in memory, the review of a report by three *)
(* requests, and the console.  They share no state, so a behaviour is of   *)
(* one part: the state of the others stays as it starts.                   *)
(***************************************************************************)
EXTENDS Access, AuditTrail, Server, Remediation, Rca, Console

CONSTANTS ann, id, noToken, ra, t1, t2, c1, c2

VARIABLE part

MCSeedRole == [a \in {ann} |-> "COMMANDER"]
MCCalls == {c1, c2}

Asked(method, path) == [method |-> method, path |-> path]

\* One request of each kind: public, the webhook's, guarded and not found, a
\* fixed path beside a path with an identifier, and with roles to have, once
\* behind a router that authenticates again.
MCAsks == {Login, Logout,
           Asked("GET", <<"ready">>),
           Asked("POST", <<"internal", "alerts", "webhook">>),
           Asked("GET", <<"users", id>>),
           Asked("GET", <<"rca", "open-actions">>),
           Asked("POST", <<"rca", id, "approve">>),
           Asked("POST", <<"services", id, "dependencies">>)}

MCFilters == [r \in {"table", "health"} |->
                 IF r = "table" THEN {"all", "active", "inactive"} ELSE {"all"}]

AllVars == <<accessVars, trailVars, serverVars, vars, rcaVars, consoleVars, part>>

MCInit ==
    /\ AccessInit /\ TrailInit /\ ServerInit /\ Init /\ RcaInit /\ ConsoleInit
    /\ part \in {"access", "trail", "server", "engine", "review", "console"}
    /\ part # "server" => database /\ seeded
    /\ part # "engine" => service = "HEALTHY"
    /\ part # "console" => signedIn

\* Once every report is approved no request on one can do anything.
Reviewed == \A i \in Incidents : reports[i].status = "APPROVED"

PlatformNext ==
    /\ \/ part = "access" /\ AccessNext /\ UNCHANGED <<trailVars, serverVars, vars>>
       \/ part = "trail" /\ TrailNext /\ UNCHANGED <<accessVars, serverVars, vars>>
       \/ part = "server" /\ ServerNext /\ UNCHANGED <<accessVars, trailVars, vars>>
       \/ part = "engine" /\ Next /\ UNCHANGED <<accessVars, trailVars, serverVars>>
    /\ UNCHANGED <<rcaVars, consoleVars>>

PeopleNext ==
    /\ \/ part = "review" /\ RcaNext /\ UNCHANGED consoleVars
       \/ part = "review" /\ Reviewed /\ UNCHANGED <<rcaVars, consoleVars>>
       \/ part = "console" /\ ConsoleNext /\ UNCHANGED rcaVars
    /\ UNCHANGED <<accessVars, trailVars, serverVars, vars>>

MCNext == (PlatformNext \/ PeopleNext) /\ UNCHANGED part

\* The fairness of the process, and that of the engine where it is the part
\* that moves.
MCFairness ==
    /\ ServerFairness
    /\ WF_vars(part = "engine" /\ Tick)
    /\ \A c \in Calls :
         /\ WF_vars(part = "engine" /\ \E scoped, autoResolve \in BOOLEAN : Begin(c, scoped, autoResolve))
         /\ WF_vars(part = "engine" /\ Continue(c))

MCSpec == MCInit /\ [][MCNext]_AllVars /\ MCFairness
=============================================================================
