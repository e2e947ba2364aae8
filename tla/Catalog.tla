------------------------------ MODULE Catalog -------------------------------
(***************************************************************************)
(* The service catalog and the dependency graph: people register, edit and *)
(* archive services and draw dependencies between them; incidents are      *)
(* opened against services beside that.  A request is one async handler    *)
(* without a transaction, so others run at each of its awaits: between the *)
(* read that allows a write and the write.  No code deletes a service.     *)
(*                                                                         *)
(* A refused request changes nothing and is no step.  Names, tiers and     *)
(* owners are left out (a name is unique by an index, as a slug is).       *)
(***************************************************************************)
CONSTANTS
    Services,      \* service ids (a bound: no more are registered)
    Slugs,
    Statuses,      \* health statuses people may set
    Dependencies,  \* ids of dependency rows (a bound; never given out twice)
    Incidents,     \* incident ids (a bound)
    Requests,      \* handlers that may run side by side
    Unset,         \* null
    Deleted        \* a dependency row that was deleted

ASSUME CatalogAssumption ==
    /\ Unset \notin Slugs \cup Services \cup Dependencies
    /\ Unset \notin Services \X Services /\ Deleted \notin Services \X Services
    /\ Unset # Deleted

VARIABLES
    services,      \* the services table
    dependencies,  \* the service_dependencies table: <<service, dependsOnService>>
    open,          \* open incidents: the service of each
    request,       \* where each handler is
    outdated       \* history: archivals a dependent or incident came in behind

catalogVars == <<services, dependencies, open, request, outdated>>

-----------------------------------------------------------------------------

Counts == {"dependents", "incidents"}

\* counted: which of the two counts of archive are back; used: one was not 0.
Idle == [pc |-> "idle", service |-> Unset, slug |-> Unset, upstream |-> Unset,
         dependency |-> Unset, counted |-> {}, used |-> FALSE]

NoService == [slug |-> Unset, status |-> "UNKNOWN", archived |-> FALSE]

\* The seed registers some services.
CatalogInit ==
    /\ services \in [Services -> {[NoService EXCEPT !.slug = g] : g \in Slugs \cup {Unset}}]
    /\ \A s, t \in Services : services[s].slug = services[t].slug =>
                                s = t \/ services[s].slug = Unset
    /\ dependencies = [d \in Dependencies |-> Unset]
    /\ open = [i \in Incidents |-> Unset]
    /\ request = [r \in Requests |-> Idle]
    /\ outdated = {}

-----------------------------------------------------------------------------

Registered(s) == services[s].slug # Unset

\* findBySlug.
BySlug(slug) == {s \in Services : services[s].slug = slug}

\* The edges <<service, dependsOnService>> of the graph.
Edges == {dependencies[d] : d \in Dependencies} \ {Unset, Deleted}

\* What the two counts of archive count.
Dependents(s) == {e \in Edges : e[2] = s}
OpenIncidents(s) == {i \in Incidents : open[i] = s}

Used(s, what) ==
    IF what = "dependents" THEN Dependents(s) # {} ELSE OpenIncidents(s) # {}

\* Request r leaves its handler, or begins or goes on with one at v.
At(r, v) == request' = [request EXCEPT ![r] = v]
Done(r) == At(r, Idle) /\ outdated' = outdated \ {r}

\* An archival that has counted what now came in at service s.
Overtaken(s, what) ==
    {r \in Requests : request[r].service = s /\ what \in request[r].counted}

-----------------------------------------------------------------------------
(* Services.                                                               *)

Register(r, slug) ==
    /\ request[r].pc = "idle" /\ BySlug(slug) = {}
    /\ At(r, [Idle EXCEPT !.pc = "create", !.slug = slug])
    /\ UNCHANGED <<services, dependencies, open, outdated>>

\* The unique index rejects a slug that was taken meanwhile.
Create(r) ==
    LET slug == request[r].slug IN
    /\ request[r].pc = "create"
    /\ \/ BySlug(slug) # {} /\ UNCHANGED services
       \/ /\ BySlug(slug) = {}
          /\ \E s \in Services :
               /\ ~Registered(s)
               /\ services' = [services EXCEPT ![s] = [NoService EXCEPT !.slug = slug]]
    /\ Done(r)
    /\ UNCHANGED <<dependencies, open>>

Update(r, s, slug) ==
    /\ request[r].pc = "idle" /\ Registered(s) /\ BySlug(slug) \subseteq {s}
    /\ At(r, [Idle EXCEPT !.pc = "update", !.service = s, !.slug = slug])
    /\ UNCHANGED <<services, dependencies, open, outdated>>

WriteUpdate(r) ==
    LET s == request[r].service slug == request[r].slug IN
    /\ request[r].pc = "update"
    /\ \/ ~ BySlug(slug) \subseteq {s} /\ UNCHANGED services
       \/ /\ BySlug(slug) \subseteq {s}
          /\ services' = [services EXCEPT ![s].slug = slug]
    /\ Done(r)
    /\ UNCHANGED <<dependencies, open>>

\* One write, of the status alone; what was read before is only audited.
UpdateStatus(s, status) ==
    /\ Registered(s)
    /\ services' = [services EXCEPT ![s].status = status]
    /\ UNCHANGED <<dependencies, open, request, outdated>>

Archive(r, s) ==
    /\ request[r].pc = "idle" /\ Registered(s)
    /\ At(r, [Idle EXCEPT !.pc = "count", !.service = s])
    /\ UNCHANGED <<services, dependencies, open, outdated>>

\* The mutated form: only one of the counts decides.
CountIgnoresIncidents(r, what) ==
    LET v == request[r]
        w == [v EXCEPT !.counted = @ \cup {what},
                       !.used = @ \/ (what = "dependents" /\ Used(v.service, what))]
    IN
    /\ v.pc = "count" /\ what \notin v.counted
    /\ \/ w.counted # Counts /\ At(r, w) /\ UNCHANGED outdated
       \/ w.counted = Counts /\ w.used /\ Done(r)
       \/ w.counted = Counts /\ ~w.used /\ At(r, [w EXCEPT !.pc = "archive"])
            /\ UNCHANGED outdated
    /\ UNCHANGED <<services, dependencies, open>>

\* The two counts are queries of their own, in either order; archive goes on
\* when both are back.
Count(r, what) ==
    LET v == request[r]
        w == [v EXCEPT !.counted = @ \cup {what}, !.used = @ \/ Used(v.service, what)]
    IN
    /\ v.pc = "count" /\ what \notin v.counted
    /\ \/ w.counted # Counts /\ At(r, w) /\ UNCHANGED outdated
       \/ w.counted = Counts /\ w.used /\ Done(r)
       \/ w.counted = Counts /\ ~w.used /\ At(r, [w EXCEPT !.pc = "archive"])
            /\ UNCHANGED outdated
    /\ UNCHANGED <<services, dependencies, open>>

WriteArchive(r) ==
    /\ request[r].pc = "archive"
    /\ services' = [services EXCEPT ![request[r].service].archived = TRUE]
    /\ Done(r)
    /\ UNCHANGED <<dependencies, open>>

-----------------------------------------------------------------------------
(* Dependencies.                                                           *)

\* Both services must be there; an archived one is.
AddDependency(r, s, t) ==
    /\ request[r].pc = "idle" /\ s # t /\ Registered(s) /\ Registered(t)
    /\ At(r, [Idle EXCEPT !.pc = "add", !.service = s, !.upstream = t])
    /\ UNCHANGED <<services, dependencies, open, outdated>>

\* The unique index on the pair turns a second row into a conflict.
InsertDependency(r) ==
    LET s == request[r].service t == request[r].upstream IN
    /\ request[r].pc = "add"
    /\ \/ <<s, t>> \in Edges /\ Done(r) /\ UNCHANGED dependencies
       \/ /\ <<s, t>> \notin Edges
          /\ \E d \in Dependencies :
               /\ dependencies[d] = Unset
               /\ dependencies' = [dependencies EXCEPT ![d] = <<s, t>>]
          /\ At(r, Idle)
          /\ outdated' = (outdated \cup Overtaken(t, "dependents")) \ {r}
    /\ UNCHANGED <<services, open>>

\* The row must be one of the service in the path.
RemoveDependency(r, d) ==
    /\ request[r].pc = "idle" /\ dependencies[d] \notin {Unset, Deleted}
    /\ At(r, [Idle EXCEPT !.pc = "remove", !.dependency = d])
    /\ UNCHANGED <<services, dependencies, open, outdated>>

\* Deleting a row that is gone throws, which changes nothing either.
DeleteDependency(r) ==
    /\ request[r].pc = "remove"
    /\ dependencies' = [dependencies EXCEPT ![request[r].dependency] = Deleted]
    /\ Done(r)
    /\ UNCHANGED <<services, open>>

-----------------------------------------------------------------------------
(* Incidents, as module Incidents has them.                                *)

\* The service must be there; an archived one is.
OpenIncident(i, s) ==
    /\ open[i] = Unset /\ Registered(s)
    /\ open' = [open EXCEPT ![i] = s]
    /\ outdated' = outdated \cup Overtaken(s, "incidents")
    /\ UNCHANGED <<services, dependencies, request>>

\* It may be opened again, by the same service.
ResolveIncident(i) ==
    /\ open[i] # Unset
    /\ open' = [open EXCEPT ![i] = Unset]
    /\ UNCHANGED <<services, dependencies, request, outdated>>

-----------------------------------------------------------------------------

\* An await rejects or the process dies.
AbortRequest(r) ==
    /\ request[r].pc # "idle"
    /\ Done(r)
    /\ UNCHANGED <<services, dependencies, open>>

RequestStep(r) ==
    \/ \E slug \in Slugs : Register(r, slug)
    \/ Create(r)
    \/ \E s \in Services, slug \in Slugs : Update(r, s, slug)
    \/ WriteUpdate(r)
    \/ \E s \in Services : Archive(r, s)
    \/ \E what \in Counts : Count(r, what)
    \/ WriteArchive(r)
    \/ \E s, t \in Services : AddDependency(r, s, t)
    \/ InsertDependency(r)
    \/ \E d \in Dependencies : RemoveDependency(r, d)
    \/ DeleteDependency(r)
    \/ AbortRequest(r)

CatalogNext ==
    \/ \E r \in Requests : RequestStep(r)
    \/ \E s \in Services, status \in Statuses : UpdateStatus(s, status)
    \/ \E i \in Incidents : (\E s \in Services : OpenIncident(i, s)) \/ ResolveIncident(i)

-----------------------------------------------------------------------------
(* What must hold.                                                         *)

\* "A service still depended on, or still fighting an open incident, shouldn't
\* quietly vanish from the active catalog" (services.service.ts:103): the
\* moment a service is archived nothing depends on it and no incident of it is
\* open, unless that dependency was added or that incident opened after this
\* very archival had counted.
OnlyOutdatedCountsArchive ==
    [][\A s \in Services :
         ~services[s].archived /\ services'[s].archived =>
           \/ Dependents(s) = {} /\ OpenIncidents(s) = {}
           \/ \E r \in outdated : request[r].pc = "archive" /\ request[r].service = s]_catalogVars

=============================================================================
