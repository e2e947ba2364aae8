------------------------------- MODULE Routes -------------------------------
(***************************************************************************)
(* The routes of the API, router by router in the order Express tries      *)
(* them, and who may call each: a user of one of some roles, anyone at     *)
(* all, or Alertmanager with its secret.                                   *)
(*                                                                         *)
(* A path is a sequence of segments, and Id stands for a parameter in a    *)
(* route and for some identifier in a request; identifiers are generated,  *)
(* so they are no word of a route.  What a handler does with its request   *)
(* is the business of the other modules.                                   *)
(***************************************************************************)
EXTENDS Naturals, Sequences, SequencesExt

CONSTANT Id  \* a path parameter, or an identifier in its place

Role == {"VIEWER", "RESPONDER", "COMMANDER", "ADMIN"}

\* One group per list of roles in the routers.
ResponderUp == {"RESPONDER", "COMMANDER", "ADMIN"}
CommanderUp == {"COMMANDER", "ADMIN"}
Admin == {"ADMIN"}
Anyone == Role \cup {"NOBODY"}
Alertmanager == {"ALERTMANAGER"}

On(method, path, roles) == [method |-> method, path |-> path, roles |-> roles]
Get(path) == On("GET", path, Role)
Post(path, roles) == On("POST", path, roles)
Patch(path, roles) == On("PATCH", path, roles)

\* The routes of a router, mounted under a prefix.
Use(prefix, routes) == [i \in DOMAIN routes |-> [routes[i] EXCEPT !.path = prefix \o @]]

-----------------------------------------------------------------------------

HealthRoutes ==
    << On("GET", <<"live">>, Anyone), On("GET", <<"ready">>, Anyone),
       On("GET", <<"health">>, Anyone), On("GET", <<"metrics">>, Anyone) >>

WebhookRoutes == << Post(<<"webhook">>, Alertmanager) >>

AuthRoutes == << Post(<<"login">>, Anyone), Post(<<"logout">>, Role), Get(<<"me">>) >>

UsersRoutes == << On("GET", <<>>, Admin) >>

ServiceDependenciesRoutes ==
    << Get(<<>>), Get(<<"dependents">>), Get(<<"blast-radius">>),
       Post(<<>>, CommanderUp), On("DELETE", <<Id>>, CommanderUp) >>

ServiceMetricsRoutes == << Get(<<>>), Get(<<"health">>), Post(<<>>, ResponderUp) >>

ServicesRoutes ==
    << Get(<<>>), Get(<<Id>>), Post(<<>>, CommanderUp), Patch(<<Id>>, CommanderUp),
       Patch(<<Id, "status">>, ResponderUp), On("DELETE", <<Id>>, Admin) >>
      \o Use(<<Id, "dependencies">>, ServiceDependenciesRoutes)
      \o Use(<<Id, "metrics">>, ServiceMetricsRoutes)

IncidentsRoutes ==
    << Post(<<"escalations", "sweep">>, Admin),
       Get(<<>>), Post(<<>>, ResponderUp),
       Get(<<Id>>), Get(<<Id, "timeline">>), Get(<<Id, "escalation">>),
       Patch(<<Id, "severity">>, CommanderUp), Post(<<Id, "assign">>, ResponderUp),
       Post(<<Id, "acknowledge">>, ResponderUp), Post(<<Id, "mitigate">>, ResponderUp),
       Post(<<Id, "resolve">>, ResponderUp),
       Post(<<Id, "close">>, CommanderUp), Post(<<Id, "reopen">>, CommanderUp),
       Get(<<Id, "comments">>), Post(<<Id, "comments">>, ResponderUp) >>

RemediationRoutes == << Get(<<"circuit-breakers">>), Post(<<"execute">>, ResponderUp) >>

RunbooksRoutes ==
    << Get(<<>>), Get(<<"incidents", Id, "links">>), Get(<<Id>>),
       Post(<<>>, CommanderUp), Patch(<<Id>>, CommanderUp),
       Post(<<Id, "link">>, ResponderUp), Patch(<<"links", Id, "outcome">>, ResponderUp) >>

SlaRoutes ==
    << Get(<<"breaches">>), Get(<<"services", Id, "latest">>), Get(<<"services", Id, "history">>),
       Post(<<"services", Id, "calculate">>, CommanderUp), Post(<<"rollup">>, Admin) >>

RcaRoutes ==
    << Get(<<"open-actions">>),
       Get(<<"incidents", Id>>), Get(<<"incidents", Id, "report">>),
       Post(<<"incidents", Id>>, ResponderUp), Post(<<"actions", Id, "complete">>, ResponderUp),
       Get(<<Id>>), Patch(<<Id>>, ResponderUp), Post(<<Id, "submit">>, ResponderUp),
       Post(<<Id, "approve">>, CommanderUp),
       Get(<<Id, "actions">>), Post(<<Id, "actions">>, ResponderUp) >>

AlertsRoutes ==
    << Get(<<"rules", Id>>), Post(<<"rules", Id>>, CommanderUp), Patch(<<"rules", Id, Id>>, CommanderUp),
       Get(<<>>), Get(<<Id>>),
       Post(<<Id, "acknowledge">>, ResponderUp), Post(<<Id, "resolve">>, ResponderUp) >>

FailureSimulatorRoutes ==
    << Get(<<>>), Get(<<Id>>), Post(<<>>, CommanderUp), Post(<<Id, "stop">>, CommanderUp) >>

DemoModeRoutes ==
    << Get(<<>>), Post(<<"enable">>, CommanderUp), Post(<<"disable">>, CommanderUp) >>

AuditRoutes == << On("GET", <<>>, Admin) >>

\* The page of the API's documentation is one more route anyone may get.
DocsRoutes == << On("GET", <<>>, Anyone) >>

Routes ==
    HealthRoutes
      \o Use(<<"docs">>, DocsRoutes)
      \o Use(<<"internal", "alerts">>, WebhookRoutes)
      \o Use(<<"auth">>, AuthRoutes)
      \o Use(<<"users">>, UsersRoutes)
      \o Use(<<"services">>, ServicesRoutes)
      \o Use(<<"incidents">>, IncidentsRoutes)
      \o Use(<<"remediation">>, RemediationRoutes)
      \o Use(<<"runbooks">>, RunbooksRoutes)
      \o Use(<<"sla">>, SlaRoutes)
      \o Use(<<"rca">>, RcaRoutes)
      \o Use(<<"alerts">>, AlertsRoutes)
      \o Use(<<"failure-simulations">>, FailureSimulatorRoutes)
      \o Use(<<"demo-mode">>, DemoModeRoutes)
      \o Use(<<"audit-logs">>, AuditRoutes)

-----------------------------------------------------------------------------

Matches(route, request) ==
    /\ route.method = request.method
    /\ Len(route.path) = Len(request.path)
    /\ \A i \in DOMAIN route.path : route.path[i] \in {Id, request.path[i]}

\* Express takes the first route that matches; 0 when none does.
RouteOf(request) == SelectInSeq(Routes, LAMBDA route : Matches(route, request))

\* The routers that authenticate whatever comes under their prefix, before
\* they look for a route; the last two also ask for an administrator there.
GuardedPrefixes == {"services", "incidents", "remediation", "runbooks", "sla", "rca", "alerts",
                    "failure-simulations", "demo-mode", "users", "audit-logs"}
AdminPrefixes == {"users", "audit-logs"}

\* Who may pass: the roles of the route, or those of the router when it has
\* no such route.
Demanded(request) ==
    IF RouteOf(request) # 0 THEN Routes[RouteOf(request)].roles
    ELSE IF request.path = <<>> THEN Anyone
    ELSE IF Head(request.path) \in AdminPrefixes THEN Admin
    ELSE IF Head(request.path) \in GuardedPrefixes THEN Role
    ELSE Anyone

\* The routers mounted inside the services router authenticate once more.
Authentications(request) ==
    IF /\ Len(request.path) > 2
       /\ request.path[1] = "services"
       /\ request.path[3] \in {"dependencies", "metrics"}
    THEN 2 ELSE 1

=============================================================================
