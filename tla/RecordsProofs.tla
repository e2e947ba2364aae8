---------------------------- MODULE RecordsProofs ----------------------------
(***************************************************************************)
(* Theorems about the service catalog, the runbooks and the SLA records,   *)
(* for any number of services, runbooks, incidents, and of requests and    *)
(* calculations side by side.                                              *)
(*                                                                         *)
(* All handlers read in one await and write in a later one without a       *)
(* transaction.  The invariants say what such a handler still knows: an    *)
(* archival that nothing came in behind, that what it counted is still not *)
(* there (CountsStand); one that records an outcome and that nobody        *)
(* overtook, that the link still waits for it (LinksWait); a calculation   *)
(* none of whose incidents was rewritten for a time it had looked at, that *)
(* what it gathered is what they still say (GatheredStands).  The number   *)
(* of a version needs none of these, as the database increments it.        *)
(***************************************************************************)
EXTENDS Catalog, Runbooks, Sla, FiniteSetTheorems, TLAPS

Service == [slug : Slugs \cup {Unset}, status : Statuses \cup {"UNKNOWN"}, archived : BOOLEAN]

CatalogRequest ==
    [pc : {"idle", "create", "update", "count", "archive", "add", "remove"},
     service : Services \cup {Unset}, slug : Slugs \cup {Unset},
     upstream : Services \cup {Unset}, dependency : Dependencies \cup {Unset},
     counted : SUBSET Counts, used : BOOLEAN]

CatalogTypeOK ==
    /\ services \in [Services -> Service]
    /\ dependencies \in [Dependencies -> (Services \X Services) \cup {Unset, Deleted}]
    /\ open \in [Incidents -> Services \cup {Unset}]
    /\ request \in [Requests -> CatalogRequest]
    /\ outdated \in SUBSET Requests

\* What a request in flight names is there to be named.
RequestNames ==
    \A r \in Requests :
      /\ request[r].pc \in {"update", "count", "archive", "add"} => request[r].service \in Services
      /\ request[r].pc \in {"create", "update"} => request[r].slug \in Slugs
      /\ request[r].pc = "add" => request[r].upstream \in Services
      /\ request[r].pc = "remove" => request[r].dependency \in Dependencies
      /\ request[r].pc \notin {"count", "archive"} => request[r].counted = {}
      /\ request[r].pc = "archive" => request[r].counted = Counts /\ ~request[r].used

\* What an archival has counted and found none of is still not there, unless
\* something came in behind it.
CountsStand ==
    \A r \in Requests \ outdated :
      \A what \in request[r].counted :
        ~request[r].used => ~Used(request[r].service, what)

CatalogInv == CatalogTypeOK /\ RequestNames /\ CountsStand

-----------------------------------------------------------------------------
(* The catalog.                                                            *)

\* A request is replaced by one of the right type.
LEMMA IdleRequest ==
    /\ Idle \in CatalogRequest /\ Idle.pc = "idle" /\ Idle.counted = {}
  BY DEF Idle, CatalogRequest, Counts

\* A step of request r that writes neither edges nor incidents: it goes on with
\* nothing counted, and loses no claim of others.
LEMMA AtKeeps ==
    ASSUME CatalogInv, NEW r \in Requests, NEW v \in CatalogRequest, At(r, v),
           outdated' \in {outdated, outdated \ {r}},
           services' \in [Services -> Service],
           v.counted = {}, v.pc \notin {"count", "archive"} \/ v.service \in Services,
           v.pc # "archive",
           v.pc \in {"update", "add"} => v.service \in Services,
           v.pc \in {"create", "update"} => v.slug \in Slugs,
           v.pc = "add" => v.upstream \in Services,
           v.pc = "remove" => v.dependency \in Dependencies,
           dependencies' \in [Dependencies -> (Services \X Services) \cup {Unset, Deleted}],
           open' = open, Edges' \subseteq Edges
    PROVE  CatalogInv'
<1>1. /\ request'[r] = v
      /\ \A q \in Requests \ {r} : request'[q] = request[q]
  BY DEF At, CatalogInv, CatalogTypeOK
<1>2. CatalogTypeOK'
  BY DEF At, CatalogInv, CatalogTypeOK
<1>3. RequestNames'
  BY <1>1 DEF CatalogInv, RequestNames
<1>4. \A s, what : Used(s, what)' => Used(s, what)
  BY DEF Used, Dependents, OpenIncidents
<1>5. CountsStand'
  BY <1>1, <1>4 DEF CatalogInv, CountsStand
<1> QED
  BY <1>2, <1>3, <1>5 DEF CatalogInv

\* A step that ends request r.
LEMMA DoneKeeps ==
    ASSUME CatalogInv, NEW r \in Requests, Done(r),
           services' \in [Services -> Service], open' = open,
           dependencies' \in [Dependencies -> (Services \X Services) \cup {Unset, Deleted}],
           Edges' \subseteq Edges
    PROVE  CatalogInv'
BY IdleRequest, AtKeeps DEF Done

\* Writing one column keeps the type of a service.
LEMMA ServiceFacts ==
    ASSUME NEW row \in Service, NEW slug \in Slugs, NEW status \in Statuses
    PROVE  /\ [row EXCEPT !.slug = slug] \in Service
           /\ [row EXCEPT !.slug = slug].archived = row.archived
           /\ [row EXCEPT !.status = status] \in Service
           /\ [row EXCEPT !.status = status].archived = row.archived
           /\ [row EXCEPT !.archived = TRUE] \in Service
           /\ [NoService EXCEPT !.slug = slug] \in Service
           /\ [NoService EXCEPT !.slug = slug].archived = FALSE
BY DEF Service, NoService

LEMMA CatalogInitInv == CatalogInit => CatalogInv
<1> SUFFICES ASSUME CatalogInit PROVE CatalogInv
  OBVIOUS
<1>1. services \in [Services -> Service]
  <2>1. \A g \in Slugs \cup {Unset} : [NoService EXCEPT !.slug = g] \in Service
    BY DEF NoService, Service
  <2> QED
    BY <2>1 DEF CatalogInit
<1>2. CatalogTypeOK
  BY <1>1, IdleRequest DEF CatalogInit, CatalogTypeOK
<1>3. RequestNames /\ CountsStand
  BY IdleRequest DEF CatalogInit, RequestNames, CountsStand
<1> QED
  BY <1>2, <1>3 DEF CatalogInv

\* Requests that begin: they have read what they name.
LEMMA CatalogBegins ==
    ASSUME CatalogInv, NEW r \in Requests,
           \/ \E slug \in Slugs : Register(r, slug)
           \/ \E s \in Services, slug \in Slugs : Update(r, s, slug)
           \/ \E s \in Services : Archive(r, s)
           \/ \E s, t \in Services : AddDependency(r, s, t)
           \/ \E d \in Dependencies : RemoveDependency(r, d)
    PROVE  CatalogInv'
<1> USE DEF CatalogInv, CatalogTypeOK
<1>0. Edges' = Edges
  BY ZenonT(40) DEF Register, Update, Archive, AddDependency, RemoveDependency, Edges
<1>1. ASSUME NEW slug \in Slugs, Register(r, slug) PROVE CatalogInv'
  <2> DEFINE v == [Idle EXCEPT !.pc = "create", !.slug = slug]
  <2>1. v \in CatalogRequest /\ v.pc = "create" /\ v.slug = slug /\ v.counted = {}
    BY DEF Idle, CatalogRequest, Counts
  <2> HIDE DEF v
  <2> QED
    BY <1>0, <1>1, <2>1, AtKeeps DEF Register, v
<1>2. ASSUME NEW s \in Services, NEW slug \in Slugs, Update(r, s, slug) PROVE CatalogInv'
  <2> DEFINE v == [Idle EXCEPT !.pc = "update", !.service = s, !.slug = slug]
  <2>1. /\ v \in CatalogRequest /\ v.pc = "update" /\ v.service = s /\ v.slug = slug
        /\ v.counted = {}
    BY DEF Idle, CatalogRequest, Counts
  <2>2. At(r, v)
    BY <1>2 DEF Update
  <2> HIDE DEF v
  <2> QED
    BY <1>0, <1>2, <2>1, <2>2, AtKeeps DEF Update
<1>3. ASSUME NEW s \in Services, Archive(r, s) PROVE CatalogInv'
  <2> DEFINE v == [Idle EXCEPT !.pc = "count", !.service = s]
  <2>1. v \in CatalogRequest /\ v.pc = "count" /\ v.service = s /\ v.counted = {}
    BY DEF Idle, CatalogRequest, Counts
  <2>2. At(r, v)
    BY <1>3 DEF Archive
  <2> HIDE DEF v
  <2> QED
    BY <1>0, <1>3, <2>1, <2>2, AtKeeps DEF Archive
<1>4. ASSUME NEW s \in Services, NEW t \in Services, AddDependency(r, s, t) PROVE CatalogInv'
  <2> DEFINE v == [Idle EXCEPT !.pc = "add", !.service = s, !.upstream = t]
  <2>1. /\ v \in CatalogRequest /\ v.pc = "add" /\ v.service = s /\ v.upstream = t
        /\ v.counted = {}
    BY DEF Idle, CatalogRequest, Counts
  <2>2. At(r, v)
    BY <1>4 DEF AddDependency
  <2> HIDE DEF v
  <2> QED
    BY <1>0, <1>4, <2>1, <2>2, AtKeeps DEF AddDependency
<1>5. ASSUME NEW d \in Dependencies, RemoveDependency(r, d) PROVE CatalogInv'
  <2> DEFINE v == [Idle EXCEPT !.pc = "remove", !.dependency = d]
  <2>1. v \in CatalogRequest /\ v.pc = "remove" /\ v.dependency = d /\ v.counted = {}
    BY DEF Idle, CatalogRequest, Counts
  <2>2. At(r, v)
    BY <1>5 DEF RemoveDependency
  <2> HIDE DEF v
  <2> QED
    BY <1>0, <1>5, <2>1, <2>2, AtKeeps DEF RemoveDependency
<1> QED
  BY <1>1, <1>2, <1>3, <1>4, <1>5

\* Requests that end: none leaves an edge more.
LEMMA CatalogEnds ==
    ASSUME CatalogInv, NEW r \in Requests,
           Create(r) \/ WriteUpdate(r) \/ WriteArchive(r) \/ DeleteDependency(r) \/ AbortRequest(r)
    PROVE  CatalogInv'
<1> USE DEF CatalogInv, CatalogTypeOK
<1>1. CASE Create(r)
  <2>1. request[r].slug \in Slugs
    BY <1>1 DEF Create, RequestNames
  <2>2. services' \in [Services -> Service]
    BY ZenonT(40), <1>1, <2>1 DEF Create, NoService, Service
  <2> QED
    BY <1>1, <2>2, DoneKeeps DEF Create, Edges
<1>2. CASE WriteUpdate(r)
  <2>1. request[r].slug \in Slugs
    BY <1>2 DEF WriteUpdate, RequestNames
  <2>2. services' \in [Services -> Service]
    BY <1>2, <2>1 DEF WriteUpdate, Service
  <2> QED
    BY <1>2, <2>2, DoneKeeps DEF WriteUpdate, Edges
<1>3. CASE WriteArchive(r)
  <2>1. services' \in [Services -> Service]
    BY <1>3 DEF WriteArchive, Service
  <2> QED
    BY <1>3, <2>1, DoneKeeps DEF WriteArchive, Edges
<1>4. CASE DeleteDependency(r)
  <2>1. request[r].dependency \in Dependencies
    BY <1>4 DEF DeleteDependency, RequestNames
  <2>2. dependencies' \in [Dependencies -> (Services \X Services) \cup {Unset, Deleted}]
    BY <1>4, <2>1 DEF DeleteDependency
  <2>3. Edges' \subseteq Edges
    BY <1>4, <2>1 DEF DeleteDependency, Edges
  <2> QED
    BY <1>4, <2>2, <2>3, DoneKeeps DEF DeleteDependency
<1>5. CASE AbortRequest(r)
  BY <1>5, DoneKeeps DEF AbortRequest, Edges
<1> QED
  BY <1>1, <1>2, <1>3, <1>4, <1>5

\* A count that is back says what is there now.
LEMMA CountKeeps ==
    ASSUME CatalogInv, NEW r \in Requests, NEW what \in Counts, Count(r, what)
    PROVE  CatalogInv'
<1> USE DEF CatalogInv, CatalogTypeOK
<1> DEFINE v == request[r]
           w == [v EXCEPT !.counted = @ \cup {what}, !.used = @ \/ Used(v.service, what)]
<1>1. /\ v \in CatalogRequest /\ v.pc = "count" /\ v.service \in Services
      /\ services' = services /\ dependencies' = dependencies /\ open' = open
      /\ \A s, x : Used(s, x)' <=> Used(s, x)
  BY DEF Count, RequestNames, Used, Dependents, OpenIncidents, Edges
<1>2. Used(v.service, what) \in BOOLEAN
  BY DEF Used
<1>3. /\ w \in CatalogRequest /\ w.pc = "count" /\ w.service = v.service
      /\ w.counted = v.counted \cup {what} /\ w.used = (v.used \/ Used(v.service, what))
  BY <1>1, <1>2 DEF CatalogRequest
<1>4. /\ [w EXCEPT !.pc = "archive"] \in CatalogRequest
      /\ [w EXCEPT !.pc = "archive"].pc = "archive"
      /\ [w EXCEPT !.pc = "archive"].service = w.service
      /\ [w EXCEPT !.pc = "archive"].counted = w.counted
      /\ [w EXCEPT !.pc = "archive"].used = w.used
  BY <1>3 DEF CatalogRequest
<1>5. \/ Done(r)
      \/ /\ outdated' = outdated
         /\ \E z \in CatalogRequest :
              /\ At(r, z)
              /\ z.service = v.service /\ z.counted = w.counted /\ z.used = w.used
              /\ \/ z.pc = "count"
                 \/ z.pc = "archive" /\ w.counted = Counts /\ ~w.used
  BY <1>3, <1>4 DEF Count
<1> HIDE DEF w
<1>6. CASE Done(r)
  BY <1>1, <1>6, DoneKeeps DEF Edges
<1>7. ASSUME outdated' = outdated, NEW z \in CatalogRequest, At(r, z),
             z.service = v.service, z.counted = w.counted, z.used = w.used,
             z.pc = "count" \/ (z.pc = "archive" /\ w.counted = Counts /\ ~w.used)
      PROVE  CatalogInv'
  <2>1. request'[r] = z /\ \A q \in Requests \ {r} : request'[q] = request[q]
    BY <1>7 DEF At
  <2>2. CatalogTypeOK'
    BY <1>1, <1>7 DEF At
  <2>3. RequestNames'
    BY <1>1, <1>7, <2>1 DEF RequestNames
  <2>4. ASSUME NEW q \in Requests \ outdated, NEW x \in request'[q].counted, ~request'[q].used
        PROVE  ~Used(request'[q].service, x)
    <3>1. CASE q # r
      BY <2>1, <2>4, <3>1 DEF CountsStand
    <3>2. CASE q = r
      <4>1. ~v.used /\ ~Used(v.service, what) /\ (x = what \/ x \in v.counted)
        BY <1>3, <1>7, <2>1, <2>4, <3>2
      <4> QED
        BY <1>7, <2>1, <2>4, <3>2, <4>1 DEF CountsStand
    <3> QED
      BY <3>1, <3>2
  <2>5. CountsStand'
    BY <1>1, <1>7, <2>4 DEF CountsStand
  <2> QED
    BY <2>2, <2>3, <2>5
<1> QED
  BY <1>5, <1>6, <1>7

\* An edge or an incident that comes in makes the archivals that counted before
\* outdated.
LEMMA InsertDependencyKeeps ==
    ASSUME CatalogInv, NEW r \in Requests, InsertDependency(r)
    PROVE  CatalogInv'
<1> USE DEF CatalogInv, CatalogTypeOK
<1> DEFINE s == request[r].service
           t == request[r].upstream
<1>1. s \in Services /\ t \in Services /\ services' = services /\ open' = open
  BY DEF InsertDependency, RequestNames
<1>2. CASE Done(r) /\ dependencies' = dependencies
  BY <1>1, <1>2, DoneKeeps DEF Edges
<1>3. CASE /\ \E d \in Dependencies :
                dependencies[d] = Unset /\ dependencies' = [dependencies EXCEPT ![d] = <<s, t>>]
           /\ At(r, Idle)
           /\ outdated' = (outdated \cup Overtaken(t, "dependents")) \ {r}
  <2>1. PICK d \in Dependencies : dependencies' = [dependencies EXCEPT ![d] = <<s, t>>]
    BY <1>3
  <2>2. Edges' \subseteq Edges \cup {<<s, t>>}
    BY <2>1 DEF Edges
  <2>3. request'[r] = Idle /\ \A q \in Requests \ {r} : request'[q] = request[q]
    BY <1>3 DEF At
  <2>4. CatalogTypeOK'
    <3>1. dependencies' \in [Dependencies -> (Services \X Services) \cup {Unset, Deleted}]
      BY <1>1, <2>1
    <3>2. request' \in [Requests -> CatalogRequest]
      BY <1>3, IdleRequest DEF At
    <3>3. outdated' \in SUBSET Requests
      BY <1>3 DEF Overtaken
    <3> QED
      BY <1>1, <3>1, <3>2, <3>3
  <2>5. RequestNames'
    BY <2>3, IdleRequest DEF RequestNames
  <2>6. ASSUME NEW q \in Requests, q \notin outdated', NEW x \in request'[q].counted,
               ~request'[q].used
        PROVE  ~Used(request[q].service, x)'
    <3>1. q # r /\ request'[q] = request[q]
      BY <2>3, <2>6, IdleRequest
    <3>2. q \notin outdated /\ (request[q].service = t => x # "dependents")
      BY <1>3, <2>6, <3>1 DEF Overtaken
    <3>3. ~Used(request[q].service, x)
      BY <2>6, <3>1, <3>2 DEF CountsStand
    <3>4. CASE x = "dependents"
      <4>1. Dependents(request[q].service)' \subseteq Dependents(request[q].service)
        BY <2>2, <3>1, <3>2, <3>4 DEF Dependents
      <4> QED
        BY <3>1, <3>3, <3>4, <4>1 DEF Used, Dependents
    <3>5. CASE x # "dependents"
      BY <1>1, <3>1, <3>3, <3>5 DEF Used, OpenIncidents
    <3> QED
      BY <3>4, <3>5
  <2>7. CountsStand'
    BY <2>6 DEF CountsStand
  <2> QED
    BY <2>4, <2>5, <2>7
<1> QED
  BY <1>2, <1>3 DEF InsertDependency

LEMMA OpenIncidentKeeps ==
    ASSUME CatalogInv, NEW i \in Incidents, NEW s \in Services, OpenIncident(i, s)
    PROVE  CatalogInv'
<1> USE DEF CatalogInv, CatalogTypeOK
<1>1. /\ request' = request /\ Edges' = Edges
      /\ open' = [open EXCEPT ![i] = s]
      /\ outdated' = outdated \cup Overtaken(s, "incidents")
  BY DEF OpenIncident, Edges
<1>2. CatalogTypeOK'
  BY <1>1 DEF OpenIncident, Overtaken
<1>3. ASSUME NEW q \in Requests, q \notin outdated', NEW x \in request[q].counted,
             ~request[q].used
      PROVE  ~Used(request[q].service, x)'
  <2>1. q \notin outdated /\ (request[q].service = s => x # "incidents")
    BY <1>1, <1>3 DEF Overtaken
  <2>2. ~Used(request[q].service, x) /\ x \in Counts
    BY <1>3, <2>1 DEF CountsStand, CatalogRequest
  <2>3. CASE x = "incidents"
    BY <1>1, <2>1, <2>2, <2>3 DEF Used, OpenIncidents
  <2>4. CASE x = "dependents"
    BY <1>1, <2>2, <2>4 DEF Used, Dependents
  <2> QED
    BY <2>2, <2>3, <2>4 DEF Counts
<1>4. CountsStand'
  BY <1>1, <1>3 DEF CountsStand
<1> QED
  BY <1>1, <1>2, <1>4 DEF RequestNames

LEMMA ResolveIncidentKeeps ==
    ASSUME CatalogInv, NEW i \in Incidents, ResolveIncident(i)
    PROVE  CatalogInv'
<1> USE DEF CatalogInv, CatalogTypeOK
<1>1. /\ request' = request /\ Edges' = Edges /\ outdated' = outdated
      /\ open' = [open EXCEPT ![i] = Unset]
  BY DEF ResolveIncident, Edges
<1>2. ASSUME NEW q \in Requests \ outdated, NEW x \in request[q].counted, ~request[q].used
      PROVE  ~Used(request[q].service, x)'
  <2>1. ~Used(request[q].service, x) /\ request[q].service \in Services
    BY <1>2 DEF CountsStand, RequestNames
  <2>2. OpenIncidents(request[q].service)' \subseteq OpenIncidents(request[q].service)
    BY <1>1, <2>1, CatalogAssumption DEF OpenIncidents
  <2> QED
    BY <1>1, <2>1, <2>2 DEF Used, Dependents
<1>3. CountsStand'
  BY <1>1, <1>2 DEF CountsStand
<1> QED
  BY <1>1, <1>3 DEF ResolveIncident, RequestNames

LEMMA CatalogStep == CatalogInv /\ [CatalogNext]_catalogVars => CatalogInv'
<1> SUFFICES ASSUME CatalogInv, [CatalogNext]_catalogVars PROVE CatalogInv'
  OBVIOUS
<1>1. ASSUME NEW r \in Requests, RequestStep(r) PROVE CatalogInv'
  BY <1>1, CatalogBegins, CatalogEnds, CountKeeps, InsertDependencyKeeps DEF RequestStep
<1>2. ASSUME NEW s \in Services, NEW status \in Statuses, UpdateStatus(s, status)
      PROVE  CatalogInv'
  <2>1. services' \in [Services -> Service]
    BY <1>2 DEF UpdateStatus, CatalogInv, CatalogTypeOK, Service
  <2> QED
    BY <1>2, <2>1 DEF UpdateStatus, CatalogInv, CatalogTypeOK, RequestNames, CountsStand,
       Used, Dependents, OpenIncidents, Edges
<1>3. CASE UNCHANGED catalogVars
  BY <1>3 DEF catalogVars, CatalogInv, CatalogTypeOK, RequestNames, CountsStand,
     Used, Dependents, OpenIncidents, Edges
<1> QED
  BY <1>1, <1>2, <1>3, OpenIncidentKeeps, ResolveIncidentKeeps DEF CatalogNext

\* Only an archival archives, and it has counted both.
LEMMA ArchivesOnlyUncounted ==
    ASSUME CatalogInv, CatalogNext, NEW s \in Services,
           ~services[s].archived, services'[s].archived
    PROVE  \E r \in Requests :
             /\ request[r].pc = "archive" /\ request[r].service = s
             /\ r \notin outdated => Dependents(s) = {} /\ OpenIncidents(s) = {}
<1> USE DEF CatalogInv, CatalogTypeOK
<1>1. services' # services
  OBVIOUS
<1>2. ASSUME NEW r \in Requests, Create(r) PROVE FALSE
  <2>1. PICK t \in Services :
          services' = [services EXCEPT ![t] = [NoService EXCEPT !.slug = request[r].slug]]
    BY <1>1, <1>2 DEF Create
  <2>2. ~[NoService EXCEPT !.slug = request[r].slug].archived
    BY DEF NoService
  <2> QED
    BY <2>1, <2>2 DEF Service
<1>3. ASSUME NEW r \in Requests, WriteUpdate(r) PROVE FALSE
  BY <1>1, <1>3 DEF WriteUpdate, Service
<1>4. ASSUME NEW t \in Services, NEW status \in Statuses, UpdateStatus(t, status) PROVE FALSE
  BY <1>4 DEF UpdateStatus, Service
<1>5. PICK r \in Requests : WriteArchive(r)
  BY <1>1, <1>2, <1>3, <1>4 DEF CatalogNext, RequestStep, Register, Update, Archive, Count,
     AddDependency, InsertDependency, RemoveDependency, DeleteDependency, AbortRequest,
     OpenIncident, ResolveIncident
<1>6. request[r].pc = "archive" /\ request[r].service = s
  BY <1>5 DEF WriteArchive, Service
<1>7. r \notin outdated => ~Used(s, "dependents") /\ ~Used(s, "incidents")
  BY <1>6 DEF RequestNames, CountsStand, Counts
<1> QED
  BY <1>6, <1>7 DEF Used

\* "A service still depended on, or still fighting an open incident, shouldn't
\* quietly vanish" (services.service.ts:103): it takes a dependency or an
\* incident that came in after the archival had counted.
THEOREM ArchivedOnlyWhenUnused ==
    CatalogInit /\ [][CatalogNext]_catalogVars => OnlyOutdatedCountsArchive
<1> DEFINE A == \A s \in Services :
                  ~services[s].archived /\ services'[s].archived =>
                    \/ Dependents(s) = {} /\ OpenIncidents(s) = {}
                    \/ \E r \in outdated : request[r].pc = "archive" /\ request[r].service = s
<1>1. CatalogInv /\ [CatalogNext]_catalogVars => [A]_catalogVars
  BY ArchivesOnlyUncounted
<1> QED
  BY <1>1, CatalogInitInv, CatalogStep, PTL DEF OnlyOutdatedCountsArchive

-----------------------------------------------------------------------------
(* The runbooks.                                                           *)

Runbook == [slug : RunbookSlugs \cup {Null}, version : Nat, text : Nat]

Link == [runbook : Runbooks \cup {Null}, version : Nat, incident : Linkable \cup {Null},
         outcome : Outcome \cup {"NONE", "PENDING"}, by : Users \cup {Null}]

RunbookHandler ==
    [pc : {"idle", "create", "edit", "link", "record"},
     runbook : Runbooks \cup {Null}, slug : RunbookSlugs \cup {Null}, version : Nat,
     text : Nat, incident : Linkable \cup {Null}, link : Links \cup {Null},
     outcome : Outcome \cup {"NONE"}, user : Users \cup {Null}]

RunbooksTypeOK ==
    /\ runbooks \in [Runbooks -> Runbook]
    /\ links \in [Links -> Link]
    /\ handler \in [Handlers -> RunbookHandler]
    /\ written \in [Runbooks -> Nat]
    /\ seen \in [Links -> Nat]
    /\ overtaken \in SUBSET Handlers

\* What a handler in flight names is there: no runbook and no link is deleted.
HandlerNames ==
    \A r \in Handlers :
      /\ handler[r].pc = "create" => handler[r].slug \in RunbookSlugs
      /\ handler[r].pc \in {"edit", "link"} =>
           handler[r].runbook \in Runbooks /\ Written(handler[r].runbook)
      /\ handler[r].pc = "link" => handler[r].incident \in Linkable
      /\ handler[r].pc = "record" =>
           /\ handler[r].link \in Links /\ links[handler[r].link].outcome # "NONE"
           /\ handler[r].outcome \in Outcome /\ handler[r].user \in Users

\* A runbook's version counts its texts.
VersionsCount ==
    /\ \A b \in Runbooks :
         Written(b) => runbooks[b].version = runbooks[b].text + 1
                       /\ runbooks[b].version = written[b]
    /\ \A l \in Links : links[l].outcome # "NONE" => links[l].version = seen[l] + 1
    /\ \A r \in Handlers : handler[r].pc = "link" => handler[r].version = handler[r].text + 1

\* A link about to be recorded on still waits, unless the handler was overtaken.
LinksWait ==
    \A r \in Handlers \ overtaken :
      handler[r].pc = "record" => links[handler[r].link].outcome = "PENDING"

RunbooksInv == RunbooksTypeOK /\ HandlerNames /\ VersionsCount /\ LinksWait

LEMMA RunbooksInitInv == RunbooksInit => RunbooksInv
BY RunbooksAssumption DEF RunbooksInit, RunbooksInv, RunbooksTypeOK, HandlerNames,
   VersionsCount, LinksWait, NoRunbook, NoLink, Resting, Runbook, Link, RunbookHandler,
   Written, Outcome

\* A handler goes on or leaves, with what it names there; nothing else changes.
LEMMA HandlerMoves ==
    ASSUME RunbooksInv, NEW r \in Handlers, NEW v \in RunbookHandler, HandlerAt(r, v),
           UNCHANGED <<runbooks, links, written, seen>>,
           overtaken' \in SUBSET Handlers, overtaken \ {r} \subseteq overtaken',
           v.pc = "create" => v.slug \in RunbookSlugs,
           v.pc \in {"edit", "link"} => v.runbook \in Runbooks /\ Written(v.runbook),
           v.pc = "link" => v.incident \in Linkable /\ v.version = v.text + 1,
           v.pc = "record" => /\ v.link \in Links /\ links[v.link].outcome = "PENDING"
                              /\ v.outcome \in Outcome /\ v.user \in Users
    PROVE  RunbooksInv'
<1> USE DEF RunbooksInv, RunbooksTypeOK
<1>1. handler'[r] = v /\ \A q \in Handlers \ {r} : handler'[q] = handler[q]
  BY DEF HandlerAt
<1>2. RunbooksTypeOK'
  BY DEF HandlerAt
<1>3. HandlerNames'
  BY <1>1 DEF HandlerNames, Written
<1>4. VersionsCount'
  BY <1>1 DEF VersionsCount, Written
<1>5. LinksWait'
  BY <1>1 DEF LinksWait
<1> QED
  BY <1>2, <1>3, <1>4, <1>5

LEMMA RestingFits == Resting \in RunbookHandler /\ Resting.pc = "idle"
BY DEF Resting, RunbookHandler

\* The rows that the writes put in place of another.
LEMMA NewRunbook ==
    ASSUME NEW slug \in RunbookSlugs,
           NEW row, row = [NoRunbook EXCEPT !.slug = slug, !.version = 1]
    PROVE  row \in Runbook /\ row.slug # Null /\ row.version = 1 /\ row.text = 0
BY RunbooksAssumption DEF NoRunbook, Runbook

LEMMA NewLink ==
    ASSUME NEW v \in RunbookHandler,
           NEW row, row = [NoLink EXCEPT !.runbook = v.runbook, !.version = v.version,
                                         !.incident = v.incident, !.outcome = "PENDING"]
    PROVE  row \in Link /\ row.version = v.version /\ row.outcome = "PENDING"
BY DEF NoLink, Link, RunbookHandler

LEMMA HandlerBegins ==
    ASSUME RunbooksInv, NEW r \in Handlers,
           \/ \E slug \in RunbookSlugs : CreateRunbook(r, slug)
           \/ \E b \in Runbooks : Edit(r, b)
           \/ \E b \in Runbooks, i \in Linkable : LinkToIncident(r, b, i)
           \/ \E l \in Links, outcome \in Outcome, u \in Users : RecordOutcome(r, l, outcome, u)
           \/ AbortRunbookHandler(r)
    PROVE  RunbooksInv'
<1> USE DEF Resting, RunbookHandler
<1>1. ASSUME NEW slug \in RunbookSlugs, CreateRunbook(r, slug) PROVE RunbooksInv'
  BY <1>1, HandlerMoves DEF CreateRunbook, RunbooksInv, RunbooksTypeOK
<1>2. ASSUME NEW b \in Runbooks, Edit(r, b) PROVE RunbooksInv'
  <2>1. runbooks[b].version \in Nat
    BY DEF RunbooksInv, RunbooksTypeOK, Runbook
  <2> QED
    BY <1>2, <2>1, HandlerMoves DEF Edit, RunbooksInv, RunbooksTypeOK
<1>3. ASSUME NEW b \in Runbooks, NEW i \in Linkable, LinkToIncident(r, b, i)
      PROVE  RunbooksInv'
  <2>1. /\ runbooks[b].version \in Nat /\ runbooks[b].text \in Nat
        /\ runbooks[b].version = runbooks[b].text + 1
    BY <1>3 DEF RunbooksInv, RunbooksTypeOK, Runbook, VersionsCount, LinkToIncident
  <2> QED
    BY <1>3, <2>1, HandlerMoves DEF LinkToIncident, RunbooksInv, RunbooksTypeOK
<1>4. ASSUME NEW l \in Links, NEW outcome \in Outcome, NEW u \in Users,
             RecordOutcome(r, l, outcome, u)
      PROVE  RunbooksInv'
  BY <1>4, HandlerMoves DEF RecordOutcome, RunbooksInv, RunbooksTypeOK
<1>5. CASE AbortRunbookHandler(r)
  BY <1>5, HandlerMoves DEF AbortRunbookHandler, Leaves, RunbooksInv, RunbooksTypeOK
<1> QED
  BY <1>1, <1>2, <1>3, <1>4, <1>5

LEMMA InsertRunbookKeeps ==
    ASSUME RunbooksInv, NEW r \in Handlers, InsertRunbook(r)
    PROVE  RunbooksInv'
<1> USE DEF RunbooksInv, RunbooksTypeOK
<1> DEFINE slug == handler[r].slug
<1>1. CASE UNCHANGED <<runbooks, written>>
  BY <1>1, HandlerMoves, RestingFits DEF InsertRunbook, Leaves
<1>2. ASSUME NEW b \in Runbooks, ~Written(b),
             runbooks' = [runbooks EXCEPT ![b] = [NoRunbook EXCEPT !.slug = slug,
                                                                  !.version = 1]],
             written' = [written EXCEPT ![b] = 1]
      PROVE  RunbooksInv'
  <2>1. slug \in RunbookSlugs
    BY DEF InsertRunbook, HandlerNames
  <2> DEFINE row == [NoRunbook EXCEPT !.slug = slug, !.version = 1]
  <2>2. row \in Runbook /\ row.version = 1 /\ row.text = 0 /\ row.slug # Null
    BY <2>1, NewRunbook
  <2>3. runbooks' = [runbooks EXCEPT ![b] = row]
    BY <1>2
  <2> HIDE DEF row, slug
  <2>4. /\ handler'[r] = Resting /\ \A q \in Handlers \ {r} : handler'[q] = handler[q]
        /\ links' = links /\ seen' = seen /\ overtaken' = overtaken \ {r}
    BY DEF InsertRunbook, Leaves, HandlerAt
  <2>5. RunbooksTypeOK'
    BY <1>2, <2>2, <2>3, <2>4, RestingFits DEF InsertRunbook, Leaves, HandlerAt
  <2>6. \A c \in Runbooks : Written(c) => Written(c)'
    BY <2>2, <2>3 DEF Written
  <2>7. HandlerNames'
    BY <2>4, <2>6, RestingFits DEF HandlerNames
  <2>8. VersionsCount'
    <3>1. /\ runbooks'[b].version = 1 /\ runbooks'[b].text = 0 /\ written'[b] = 1
          /\ \A c \in Runbooks \ {b} : runbooks'[c] = runbooks[c] /\ written'[c] = written[c]
      BY <1>2, <2>2, <2>3
    <3> QED
      BY <2>4, <3>1, RestingFits DEF VersionsCount, Written
  <2>9. LinksWait'
    BY <2>4, RestingFits DEF LinksWait
  <2> QED
    BY <2>5, <2>7, <2>8, <2>9
<1> QED
  BY <1>1, <1>2 DEF InsertRunbook

LEMMA WriteEditKeeps ==
    ASSUME RunbooksInv, NEW r \in Handlers, WriteEdit(r)
    PROVE  RunbooksInv'
<1> USE DEF RunbooksInv, RunbooksTypeOK
<1> DEFINE b == handler[r].runbook
<1>1. b \in Runbooks /\ Written(b)
  BY DEF WriteEdit, HandlerNames
<1>2. runbooks[b].version = written[b] /\ written[b] \in Nat
  BY <1>1 DEF VersionsCount
<1>3. /\ runbooks' \in [Runbooks -> Runbook] /\ runbooks'[b].slug = runbooks[b].slug
      /\ runbooks'[b].version = written[b] + 1 /\ runbooks'[b].text = written[b]
      /\ \A c \in Runbooks \ {b} : runbooks'[c] = runbooks[c]
  BY <1>1, <1>2 DEF WriteEdit, Runbook
<1>4. written' = [written EXCEPT ![b] = written[b] + 1]
  BY <1>1 DEF WriteEdit
<1>5. /\ handler'[r] = Resting /\ \A q \in Handlers \ {r} : handler'[q] = handler[q]
      /\ links' = links /\ seen' = seen /\ overtaken' = overtaken \ {r}
  BY DEF WriteEdit, Leaves, HandlerAt
<1> HIDE DEF b
<1>6. RunbooksTypeOK'
  BY SMTT(30), <1>1, <1>2, <1>3, <1>4, <1>5, RestingFits DEF WriteEdit, Leaves, HandlerAt
<1>7. \A c \in Runbooks : Written(c) => Written(c)'
  BY <1>1, <1>3 DEF Written
<1>8. HandlerNames'
  BY <1>5, <1>7, RestingFits DEF HandlerNames
<1>9. VersionsCount'
  BY <1>1, <1>2, <1>3, <1>4, <1>5, RestingFits DEF VersionsCount, Written
<1>10. LinksWait'
  BY <1>5, RestingFits DEF LinksWait
<1> QED
  BY <1>6, <1>8, <1>9, <1>10

LEMMA InsertLinkKeeps ==
    ASSUME RunbooksInv, NEW r \in Handlers, InsertLink(r)
    PROVE  RunbooksInv'
<1> USE DEF RunbooksInv, RunbooksTypeOK
<1> DEFINE v == handler[r]
           row == [NoLink EXCEPT !.runbook = v.runbook, !.version = v.version,
                                 !.incident = v.incident, !.outcome = "PENDING"]
<1>1. PICK l \in Links : /\ links[l].outcome = "NONE"
                         /\ links' = [links EXCEPT ![l] = row]
                         /\ seen' = [seen EXCEPT ![l] = v.text]
  BY DEF InsertLink
<1>2. /\ row \in Link /\ row.version = v.text + 1 /\ row.outcome = "PENDING" /\ v.text \in Nat
  <2>1. v \in RunbookHandler
    OBVIOUS
  <2>2. v.version = v.text + 1 /\ v.text \in Nat
    BY <2>1 DEF RunbookHandler, InsertLink, VersionsCount
  <2>3. row \in Link /\ row.version = v.version /\ row.outcome = "PENDING"
    BY <2>1, NewLink, Zenon
  <2> QED
    BY <2>2, <2>3
<1>3. /\ handler'[r] = Resting /\ \A q \in Handlers \ {r} : handler'[q] = handler[q]
      /\ runbooks' = runbooks /\ written' = written /\ overtaken' = overtaken \ {r}
  BY DEF InsertLink, Leaves, HandlerAt
<1> HIDE DEF row
<1>4. RunbooksTypeOK'
  BY <1>1, <1>2, <1>3, RestingFits DEF InsertLink, Leaves, HandlerAt
<1>5. HandlerNames'
  BY <1>1, <1>2, <1>3, RestingFits DEF HandlerNames, Written
<1>6. VersionsCount'
  BY <1>1, <1>2, <1>3, RestingFits DEF VersionsCount, Written
<1>7. LinksWait'
  BY <1>1, <1>2, <1>3, RestingFits DEF LinksWait, HandlerNames
<1> QED
  BY <1>4, <1>5, <1>6, <1>7

\* Whoever else is about to record on the same link is overtaken.
LEMMA WriteOutcomeKeeps ==
    ASSUME RunbooksInv, NEW r \in Handlers, WriteOutcome(r)
    PROVE  RunbooksInv'
<1> USE DEF RunbooksInv, RunbooksTypeOK
<1> DEFINE l == handler[r].link
<1>1. l \in Links /\ handler[r].outcome \in Outcome /\ handler[r].user \in Users
  BY DEF WriteOutcome, HandlerNames
<1>2. /\ links' \in [Links -> Link] /\ links'[l].version = links[l].version
      /\ links'[l].outcome = handler[r].outcome
      /\ \A k \in Links \ {l} : links'[k] = links[k]
  BY SMTT(30), <1>1 DEF WriteOutcome, Link
<1>3. links[l].outcome # "NONE" /\ links'[l].outcome # "NONE"
  BY <1>1, <1>2 DEF WriteOutcome, HandlerNames, Outcome
<1>4. /\ handler'[r] = Resting /\ \A q \in Handlers \ {r} : handler'[q] = handler[q]
      /\ runbooks' = runbooks /\ written' = written /\ seen' = seen
      /\ overtaken' = (overtaken \cup {p \in Handlers : handler[p].pc = "record"
                                                       /\ handler[p].link = l}) \ {r}
  BY DEF WriteOutcome, HandlerAt
<1> HIDE DEF l
<1>5. RunbooksTypeOK'
  <2>1. handler' \in [Handlers -> RunbookHandler]
    BY RestingFits DEF WriteOutcome, HandlerAt
  <2>2. overtaken' \in SUBSET Handlers
    BY <1>4
  <2> QED
    BY <1>2, <1>4, <2>1, <2>2
<1>6. HandlerNames'
  BY <1>1, <1>2, <1>3, <1>4, RestingFits DEF HandlerNames, Written
<1>7. VersionsCount'
  BY <1>1, <1>2, <1>3, <1>4, RestingFits DEF VersionsCount, Written
<1>8. LinksWait'
  BY <1>1, <1>2, <1>4, RestingFits DEF LinksWait, HandlerNames
<1> QED
  BY <1>5, <1>6, <1>7, <1>8

LEMMA RunbooksStepKeeps == RunbooksInv /\ [RunbooksNext]_runbookVars => RunbooksInv'
<1> SUFFICES ASSUME RunbooksInv, [RunbooksNext]_runbookVars PROVE RunbooksInv'
  OBVIOUS
<1>1. ASSUME NEW r \in Handlers, RunbooksStep(r) PROVE RunbooksInv'
  BY <1>1, HandlerBegins, InsertRunbookKeeps, WriteEditKeeps, InsertLinkKeeps,
     WriteOutcomeKeeps DEF RunbooksStep
<1>2. CASE UNCHANGED runbookVars
  BY <1>2 DEF runbookVars, RunbooksInv, RunbooksTypeOK, HandlerNames, VersionsCount,
     LinksWait, Written
<1> QED
  BY <1>1, <1>2 DEF RunbooksNext

\* "A later edit never silently rewrites what an incident's history says
\* actually happened" (runbooks.repository.ts:68): a version is one text.
THEOREM VersionsNameTexts ==
    RunbooksInit /\ [][RunbooksNext]_runbookVars => []VersionNamesItsText
<1>1. RunbooksInv => VersionNamesItsText
  BY DEF RunbooksInv, VersionsCount, VersionNamesItsText
<1> QED
  BY <1>1, RunbooksInitInv, RunbooksStepKeeps, PTL

\* Only two steps write links; the one that records knows that the link waits.
LEMMA LinksChangeOnce ==
    ASSUME RunbooksInv, RunbooksNext, NEW l \in Links, links'[l] # links[l]
    PROVE  \/ links[l].outcome = "NONE" /\ links'[l].outcome = "PENDING"
           \/ links[l].outcome = "PENDING" /\ links'[l].outcome \in Outcome
           \/ \E r \in overtaken : handler[r].link = l
<1> USE DEF RunbooksInv, RunbooksTypeOK
<1>1. PICK r \in Handlers : InsertLink(r) \/ WriteOutcome(r)
  BY DEF RunbooksNext, RunbooksStep, CreateRunbook, InsertRunbook, Edit, WriteEdit,
     LinkToIncident, RecordOutcome, AbortRunbookHandler
<1>2. CASE InsertLink(r)
  BY <1>2 DEF InsertLink, NoLink
<1>3. CASE WriteOutcome(r)
  <2>1. handler[r].link = l /\ handler[r].outcome \in Outcome
    BY <1>3 DEF WriteOutcome, HandlerNames
  <2>2. links'[l].outcome \in Outcome
    BY <1>3, <2>1 DEF WriteOutcome, Link
  <2>3. r \notin overtaken => links[l].outcome = "PENDING"
    BY <1>3, <2>1 DEF LinksWait, WriteOutcome
  <2> QED
    BY <2>1, <2>2, <2>3
<1> QED
  BY <1>1, <1>2, <1>3

\* An outcome is recorded once (runbooks.service.ts:89), but by a handler that
\* another one overtook between its read and its write.
THEOREM OutcomesRecordedOnce ==
    RunbooksInit /\ [][RunbooksNext]_runbookVars => OnlyOvertakenHandlersRewriteOutcomes
<1> DEFINE A == \A l \in Links :
                  links'[l] # links[l] =>
                    \/ links[l].outcome = "NONE" /\ links'[l].outcome = "PENDING"
                    \/ links[l].outcome = "PENDING" /\ links'[l].outcome \in Outcome
                    \/ \E r \in overtaken : handler[r].link = l
<1>1. RunbooksInv /\ [RunbooksNext]_runbookVars => [A]_runbookVars
  BY LinksChangeOnce
<1> QED
  BY <1>1, RunbooksInitInv, RunbooksStepKeeps, PTL DEF OnlyOvertakenHandlersRewriteOutcomes

-----------------------------------------------------------------------------
(* The records of the SLA.  First the arithmetic.                          *)

\* What \div is for.
LEMMA DivFacts ==
    ASSUME NEW n \in Int, NEW d \in Nat \ {0}
    PROVE  /\ n \div d \in Int
           /\ d * (n \div d) <= n
           /\ n < d * (n \div d) + d
  OBVIOUS

\* A quotient between two whole bounds.
LEMMA DivBounds ==
    ASSUME NEW n \in Int, NEW d \in Nat \ {0}, NEW k \in Int
    PROVE  /\ d * k <= n => k <= n \div d
           /\ n < d * (k + 1) => n \div d <= k
<1> DEFINE q == n \div d
<1>1. q \in Int /\ d * q <= n /\ n < d * q + d
  BY DivFacts
<1> HIDE DEF q
<1>2. ASSUME d * k <= n PROVE k <= q
  <2> SUFFICES ASSUME q + 1 <= k PROVE FALSE
    BY <1>1
  <2>1. d * (q + 1) <= d * k
    BY <1>1
  <2> QED
    BY <1>1, <1>2, <2>1
<1>3. ASSUME n < d * (k + 1) PROVE q <= k
  <2> SUFFICES ASSUME k + 1 <= q PROVE FALSE
    BY <1>1
  <2>1. d * (k + 1) <= d * q
    BY <1>1
  <2> QED
    BY <1>1, <1>3, <2>1
<1> QED
  BY <1>2, <1>3 DEF q

\* What it is to be a nearest hundredth.
LEMMA Round2Facts ==
    ASSUME NEW n \in Int, NEW d \in Nat \ {0}
    PROVE  /\ Round2(n, d) \subseteq Int
           /\ \A q \in Round2(n, d) :
                2 * (d * q) <= 200 * n + d /\ 200 * n - d <= 2 * (d * q)
<1>1. /\ 2 * d \in Nat \ {0} /\ d - 200 * n \in Int /\ 200 * n + d \in Int
  OBVIOUS
<1>2. PICK a \in Int, b \in Int : a = (d - 200 * n) \div (2 * d) /\ b = (200 * n + d) \div (2 * d)
  BY <1>1, DivFacts
<1>3. (2 * d) * a <= d - 200 * n /\ (2 * d) * b <= 200 * n + d
  BY <1>1, <1>2, DivFacts
<1>4. Round2(n, d) = -a .. b
  BY <1>2 DEF Round2
<1>5. ASSUME NEW q \in -a .. b PROVE 2 * (d * q) <= 200 * n + d /\ 200 * n - d <= 2 * (d * q)
  <2>1. q \in Int /\ b - q \in Nat /\ q + a \in Nat
    OBVIOUS
  <2>2. (2 * d) * (b - q) >= 0 /\ (2 * d) * (q + a) >= 0
    BY <2>1
  <2> QED
    BY <1>3, <2>1, <2>2
<1>6. Round2(n, d) \subseteq Int
  BY <1>4
<1> QED
  BY <1>4, <1>5, <1>6

\* The figures of a record say the same as its flag, within slack hundredths.
FiguresAgree(r, slack) ==
    IF r.breached THEN r.actual <= TargetPercent /\ r.consumed >= r.budget - slack
                  ELSE r.actual >= TargetPercent /\ r.consumed <= r.budget + slack

\* What may come of a calculation.
LEMMA CalculateType ==
    ASSUME NEW w \in Nat, NEW d \in Nat, NEW r \in Calculate(w, d)
    PROVE  /\ r.actual \in ActualPercent(w, d) /\ r.actual \in Int
           /\ r.budget \in ErrorBudget(w) /\ r.budget \in Int
           /\ r.consumed \in Round2(d, MinuteLength) /\ r.consumed \in Int
           /\ r.breached \in Breached(w, d) /\ r.breached \in BOOLEAN
<1>1. /\ r.actual \in ActualPercent(w, d) /\ r.budget \in ErrorBudget(w)
      /\ r.consumed \in Round2(d, MinuteLength) /\ r.breached \in Breached(w, d)
  BY DEF Calculate
<1>2. r.actual \in Int
  <2>1. CASE w = 0
    BY <1>1, <2>1 DEF ActualPercent
  <2>2. CASE w > 0
    <3>1. (w - d) * 100 \in Int /\ w \in Nat \ {0}
      BY <2>2
    <3> QED
      BY <1>1, <2>2, <3>1, Round2Facts DEF ActualPercent
  <2> QED
    BY <2>1, <2>2
<1>3. r.budget \in Int
  <2>1. /\ w * (10000 - TargetPercent) \in Int
        /\ 10000 * MinuteLength \in Nat \ {0}
    BY SlaAssumption
  <2> QED
    BY <1>1, <2>1, Round2Facts DEF ErrorBudget
<1>4. r.consumed \in Int
  BY <1>1, Round2Facts, SlaAssumption
<1> QED
  BY <1>1, <1>2, <1>3, <1>4 DEF Breached

\* Whatever a window, its downtime, the target and the fall of the halves: the
\* rounded availability and budget of sla-calculator.ts contradict the breach it
\* decided before it rounded them only when the budget is spent exactly, and
\* then by a hundredth of a minute at most.
THEOREM CalculateAgrees ==
    ASSUME NEW w \in Nat, NEW d \in Nat, w = 0 => d = 0, NEW r \in Calculate(w, d)
    PROVE  /\ FiguresAgree(r, 1)
           /\ 10000 * d # w * (10000 - TargetPercent) => FiguresAgree(r, 0)
<1> DEFINE T == TargetPercent
           M == MinuteLength
<1>1. T \in 0 .. 10000 /\ M \in Nat \ {0}
  BY SlaAssumption
<1> HIDE DEF T, M
<1>2. PICK a \in Int, b \in Int, c \in Int : a = r.actual /\ b = r.budget /\ c = r.consumed
  BY CalculateType
<1>3. PICK x \in Int : x = w * (10000 - T)
  BY <1>1
<1>4. w * T = 10000 * w - x /\ (w = 0 => x = 0)
  BY <1>1, <1>3
<1>5. PICK P \in Int, Q \in Int : P = M * c /\ Q = M * b
  BY <1>1, <1>2
<1>6. 2 * P <= 200 * d + M /\ 200 * d - M <= 2 * P
  BY <1>1, <1>2, <1>5, CalculateType, Round2Facts DEF M
<1>7. 20000 * Q <= 200 * x + 10000 * M /\ 200 * x - 10000 * M <= 20000 * Q
  <2>1. b \in Round2(x, 10000 * M)
    BY <1>2, <1>3, CalculateType DEF ErrorBudget, T, M
  <2>2. 10000 * M \in Nat \ {0}
    BY <1>1
  <2>3. /\ 2 * ((10000 * M) * b) <= 200 * x + 10000 * M
        /\ 200 * x - 10000 * M <= 2 * ((10000 * M) * b)
    BY <2>1, <2>2, Round2Facts
  <2>4. (10000 * M) * b = 10000 * Q
    BY <1>1, <1>5
  <2> QED
    BY <1>1, <2>3, <2>4
<1>8. /\ 10000 * d >= x => c >= b - 1
      /\ 10000 * d > x => c >= b
      /\ 10000 * d <= x => c <= b + 1
      /\ 10000 * d < x => c <= b
  <2>1. M * (c - b) = P - Q /\ M * (b - c) = Q - P
    BY <1>1, <1>2, <1>5
  <2>2. /\ c - b >= 1 => P - Q >= M
        /\ c - b >= 2 => P - Q >= 2 * M
        /\ b - c >= 1 => Q - P >= M
        /\ b - c >= 2 => Q - P >= 2 * M
    <3>1. \A e \in Int : /\ e >= 1 => M * e >= M
                         /\ e >= 2 => M * e >= 2 * M
      BY <1>1
    <3>2. c - b \in Int /\ b - c \in Int
      BY <1>2
    <3> QED
      BY <2>1, <3>1, <3>2
  <2> QED
    BY <1>1, <1>2, <1>6, <1>7, <2>2
<1>9. CASE w = 0
  <2>1. r.breached = FALSE /\ a = 10000
    BY <1>2, <1>9, CalculateType DEF Breached, ActualPercent
  <2> QED
    BY <1>1, <1>2, <1>3, <1>4, <1>8, <1>9, <2>1 DEF FiguresAgree, T
<1>10. CASE w > 0
  <2>1. PICK R \in Int : R = w * a
    BY <1>2
  <2>2. 2 * R <= 20000 * (w - d) + w /\ 20000 * (w - d) - w <= 2 * R
    <3>1. a \in Round2((w - d) * 100, w)
      BY <1>2, <1>10, CalculateType DEF ActualPercent
    <3>2. (w - d) * 100 \in Int /\ w \in Nat \ {0}
      BY <1>10
    <3>3. 2 * (w * a) <= 200 * ((w - d) * 100) + w /\ 200 * ((w - d) * 100) - w <= 2 * (w * a)
      BY <3>1, <3>2, Round2Facts
    <3> QED
      BY <2>1, <3>3
  <2>3. /\ a >= T + 1 => R >= 10000 * w - x + w
        /\ a <= T - 1 => R <= 10000 * w - x - w
    <3>1. a >= T + 1 => w * (a - (T + 1)) >= 0
      BY <1>1, <1>2
    <3>2. a <= T - 1 => w * ((T - 1) - a) >= 0
      BY <1>1, <1>2
    <3>3. w * (a - (T + 1)) = R - w * T - w /\ w * ((T - 1) - a) = w * T - w - R
      BY <1>1, <1>2, <2>1
    <3> QED
      BY <1>1, <1>2, <1>3, <1>4, <2>1, <3>1, <3>2, <3>3
  <2>4. /\ 10000 * d >= x => a <= T
        /\ 10000 * d <= x => a >= T
    BY <1>1, <1>2, <1>10, <2>1, <2>2, <2>3
  <2>5. T * w = 10000 * w - x
    BY <1>1, <1>4
  <2>6. /\ r.breached \in BOOLEAN
        /\ r.breached => 10000 * d >= x
        /\ ~r.breached => 10000 * d <= x
    <3>1. /\ r.breached \in BOOLEAN
          /\ (w - d) * 10000 < T * w => r.breached
          /\ r.breached => (w - d) * 10000 <= T * w
      BY CalculateType DEF Breached, T
    <3> QED
      BY <1>3, <2>5, <3>1
  <2> QED
    BY <1>1, <1>2, <1>3, <1>8, <2>4, <2>6 DEF FiguresAgree, T
<1> QED
  BY <1>9, <1>10

-----------------------------------------------------------------------------

Stamp == Nat \cup {Never}

SlaIncident == [openedAt : Stamp, resolvedAt : Stamp, resolving : Stamp]

SlaRecord == [asOf : Stamp, settled : BOOLEAN, actual : Int, budget : Int, consumed : Int,
              breached : BOOLEAN, recover : Int \cup {Never}]

Calculation == [pc : {"idle", "begin", "gather", "upsert"}, month : Month, end : Nat,
                downtime : Nat, recover : Int \cup {Never}, gathered : SUBSET Queries,
                settled : BOOLEAN]

SlaTypeOK ==
    /\ now \in Nat
    /\ incidents \in [SlaIncidents -> SlaIncident]
    /\ records \in [Month -> SlaRecord]
    /\ calculation \in [Calculations -> Calculation]

\* Nothing is stamped, gathered or recorded for a time to come, and what is
\* being resolved is open.
Past ==
    /\ \A i \in SlaIncidents :
         /\ incidents[i].openedAt # Never => incidents[i].openedAt <= now
         /\ incidents[i].resolvedAt # Never =>
              /\ incidents[i].openedAt # Never /\ incidents[i].resolvedAt <= now
              /\ incidents[i].resolving = Never
         /\ incidents[i].resolving # Never =>
              incidents[i].openedAt # Never /\ incidents[i].resolving <= now
    /\ \A c \in Calculations : calculation[c].end <= now
    /\ \A m \in Month : records[m].asOf # Never => records[m].asOf <= now

\* Each incident with each unit of time of the month, up to end, that it lasted.
Lost(m, end) == {p \in SlaIncidents \X (Start(m) .. end - 1) : DownAt(p[1], p[2])}

\* What a calculation has gathered is what the incidents still say, unless one
\* of them was rewritten for a time it has looked at.
Stands(v) ==
    /\ v.pc \in {"idle", "begin"} => v.gathered = {} /\ v.downtime = 0
    /\ v.pc = "upsert" => v.gathered = Queries
    /\ v.end <= Start(v.month) => v.downtime = 0
    /\ v.settled /\ "downtime" \in v.gathered =>
         v.downtime = Cardinality(Lost(v.month, v.end))
    /\ v.settled /\ "recovery" \in v.gathered =>
         v.recover \in MeanTimeToRecover(Start(v.month), v.end)

\* And so is what was recorded for month m.
Recorded(m, r) ==
    /\ r.asOf # Never /\ r.settled =>
         /\ r.consumed \in Round2(Cardinality(Lost(m, r.asOf)), MinuteLength)
         /\ r.recover \in MeanTimeToRecover(Start(m), r.asOf)
    /\ FiguresAgree(r, 1)

GatheredStands == \A c \in Calculations : Stands(calculation[c])
RecordsStand == \A m \in Month : Recorded(m, records[m])

SlaInv == SlaTypeOK /\ Past /\ GatheredStands /\ RecordsStand

-----------------------------------------------------------------------------

\* The windows lie in the time there is.
LEMMA MonthFacts ==
    /\ Month \subseteq Nat /\ 0 \in Month
    /\ \A m \in Month : Start(m) \in Nat /\ End(m) \in Nat
  BY SlaAssumption DEF Month, Start, End

\* Pairs of an incident and a unit of time can be counted.
LEMMA PairsAreFinite ==
    ASSUME NEW S, IsFiniteSet(S), NEW a \in Int, NEW b \in Int, NEW P \in SUBSET (S \X (a .. b))
    PROVE  IsFiniteSet(P) /\ Cardinality(P) \in Nat /\ (P = {} <=> Cardinality(P) = 0)
<1>1. IsFiniteSet(a .. b)
  BY FS_Interval
<1>2. IsFiniteSet(S \X (a .. b))
  BY <1>1, FS_Product
<1>3. IsFiniteSet(P)
  BY <1>2, FS_Subset
<1> QED
  BY <1>3, FS_CardinalityType, FS_EmptySet

\* The sum over the incidents that touch the window is the time that each was
\* not resolved.
LEMMA DowntimeIsLost ==
    ASSUME SlaTypeOK, NEW m \in Month, NEW end \in Nat
    PROVE  /\ Downtime(Start(m), end) = Cardinality(Lost(m, end))
           /\ Downtime(Start(m), end) \in Nat
           /\ end <= Start(m) => Downtime(Start(m), end) = 0
<1> DEFINE start == Start(m)
           touching == {i \in SlaIncidents :
                          /\ incidents[i].openedAt # Never /\ incidents[i].openedAt < end
                          /\ \/ incidents[i].resolvedAt = Never
                             \/ incidents[i].resolvedAt > start}
           share(i) == Overlap(incidents[i].openedAt,
                               IF incidents[i].resolvedAt = Never THEN end
                                                                  ELSE incidents[i].resolvedAt,
                               start, end)
           counted == UNION {{i} \X share(i) : i \in touching}
<1>1. start \in Nat
  BY MonthFacts
<1>2. ASSUME NEW i \in SlaIncidents, NEW t
      PROVE  (i \in touching /\ t \in share(i)) <=> (t \in start .. end - 1 /\ DownAt(i, t))
  <2>1. incidents[i].openedAt \in Stamp /\ incidents[i].resolvedAt \in Stamp
    BY DEF SlaTypeOK, SlaIncident
  <2> QED
    BY <1>1, <2>1, SlaAssumption DEF Stamp, DownAt, Overlap, Greater, Lesser
<1>3. ASSUME NEW p PROVE p \in counted <=> p \in Lost(m, end)
  <2>1. p \in counted <=> \E i \in touching : p \in {i} \X share(i)
    OBVIOUS
  <2> HIDE DEF counted, share, touching
  <2>2. ASSUME p \in counted PROVE p \in Lost(m, end)
    <3>1. PICK i \in touching : p \in {i} \X share(i)
      BY <2>1, <2>2
    <3>2. i \in SlaIncidents
      BY <3>1 DEF touching
    <3>3. p = <<i, p[2]>> /\ p[1] = i /\ p[2] \in share(i)
      BY <3>1
    <3>4. p[2] \in start .. end - 1 /\ DownAt(i, p[2])
      BY <1>2, <3>1, <3>2, <3>3
    <3> QED
      BY <3>2, <3>3, <3>4 DEF Lost, start
  <2>3. ASSUME p \in Lost(m, end) PROVE p \in counted
    <3>1. /\ p \in SlaIncidents \X (start .. end - 1)
          /\ DownAt(p[1], p[2])
      BY <2>3 DEF Lost, start
    <3>2. PICK i \in SlaIncidents, t \in start .. end - 1 : p = <<i, t>>
      BY <3>1
    <3>3. i \in touching /\ t \in share(i)
      BY <1>2, <3>1, <3>2
    <3> QED
      BY <2>1, <3>2, <3>3
  <2> QED
    BY <2>2, <2>3
<1>4. counted = Lost(m, end)
  <2> HIDE DEF counted
  <2> QED
    BY <1>3
<1>5. Downtime(start, end) = Cardinality(counted)
  BY DEF Downtime
<1> HIDE DEF counted
<1>6. Lost(m, end) \in SUBSET (SlaIncidents \X (start .. end - 1)) /\ end - 1 \in Int
  BY DEF Lost, start
<1>7. /\ Cardinality(Lost(m, end)) \in Nat
      /\ Lost(m, end) = {} => Cardinality(Lost(m, end)) = 0
  <2>1. IsFiniteSet(SlaIncidents) /\ start \in Int
    BY <1>1, SlaAssumption
  <2> HIDE DEF start
  <2> QED
    BY <1>6, <2>1, PairsAreFinite
<1>8. end <= start => Lost(m, end) = {}
  BY <1>1, <1>6
<1> QED
  BY <1>4, <1>5, <1>7, <1>8 DEF start

\* What the mean may come out as.
LEMMA RecoveryType ==
    ASSUME SlaTypeOK, Past, NEW m \in Month, NEW end \in Nat
    PROVE  MeanTimeToRecover(Start(m), end) \subseteq Int \cup {Never}
<1> DEFINE recovered == Recovered(Start(m), end)
           took(i) == incidents[i].openedAt .. incidents[i].resolvedAt - 1
           times == UNION {{i} \X took(i) : i \in recovered}
<1>1. IsFiniteSet(recovered) /\ (recovered # {} => Cardinality(recovered) \in Nat \ {0})
  <2>1. recovered \subseteq SlaIncidents
    BY DEF Recovered
  <2>2. IsFiniteSet(recovered)
    BY <2>1, FS_Subset, SlaAssumption
  <2> QED
    BY <2>2, FS_CardinalityType, FS_EmptySet
<1>2. Cardinality(times) \in Nat
  <2>1. ASSUME NEW i \in recovered, NEW t \in took(i) PROVE i \in SlaIncidents /\ t \in 0 .. now
    <3>1. /\ i \in SlaIncidents /\ incidents[i].resolvedAt # Never
          /\ incidents[i].openedAt \in Nat /\ incidents[i].resolvedAt \in Nat
          /\ incidents[i].resolvedAt <= now /\ now \in Nat
      BY <2>1 DEF Recovered, Past, SlaTypeOK, SlaIncident, Stamp
    <3> QED
      BY <3>1
  <2>2. ASSUME NEW p \in times PROVE p \in SlaIncidents \X (0 .. now)
    <3>1. PICK i \in recovered : p \in {i} \X took(i)
      OBVIOUS
    <3> QED
      BY <2>1, <3>1
  <2> HIDE DEF times
  <2>3. times \in SUBSET (SlaIncidents \X (0 .. now)) /\ now \in Int /\ 0 \in Int
    BY <2>2 DEF SlaTypeOK
  <2>4. IsFiniteSet(SlaIncidents)
    BY SlaAssumption
  <2> QED
    BY <2>3, <2>4, PairsAreFinite
<1>3. MeanTimeToRecover(Start(m), end) =
        IF recovered = {} THEN {Never}
        ELSE Round2(Cardinality(times), Cardinality(recovered) * MinuteLength)
  BY DEF MeanTimeToRecover
<1> HIDE DEF recovered, times
<1>4. ASSUME recovered # {}
      PROVE  Round2(Cardinality(times), Cardinality(recovered) * MinuteLength) \subseteq Int
  <2>1. PICK n \in Int, d \in Nat \ {0} :
          n = Cardinality(times) /\ d = Cardinality(recovered) * MinuteLength
    <3>1. PICK k \in Nat \ {0}, l \in Nat \ {0} : k = Cardinality(recovered) /\ l = MinuteLength
      BY <1>1, <1>4, SlaAssumption
    <3>2. k * l \in Nat \ {0}
      BY <3>1
    <3> QED
      BY <1>2, <3>1, <3>2
  <2> QED
    BY <2>1, Round2Facts
<1> QED
  BY <1>3, <1>4

-----------------------------------------------------------------------------

LEMMA InitFacts ==
    /\ NoRecord \in SlaRecord /\ NoCalculation \in Calculation /\ NoIncident \in SlaIncident
    /\ NoRecord.asOf = Never /\ FiguresAgree(NoRecord, 1)
    /\ NoCalculation.end = 0 /\ NoCalculation.pc = "idle" /\ NoCalculation.gathered = {}
    /\ NoCalculation.downtime = 0
<1>1. TargetPercent \in 0 .. 10000 /\ 0 \in Month
  BY SlaAssumption, MonthFacts
<1>2. NoRecord \in SlaRecord /\ NoRecord.asOf = Never /\ FiguresAgree(NoRecord, 1)
  BY <1>1 DEF NoRecord, SlaRecord, Stamp, FiguresAgree
<1>3. NoCalculation \in Calculation
  BY <1>1 DEF NoCalculation, Calculation
<1> QED
  BY <1>2, <1>3 DEF NoCalculation, NoIncident, SlaIncident, Stamp

LEMMA SlaInitInv == SlaInit => SlaInv
<1> SUFFICES ASSUME SlaInit PROVE SlaInv
  OBVIOUS
<1>1. SlaTypeOK
  BY InitFacts DEF SlaInit, SlaTypeOK
<1>2. Past
  BY InitFacts DEF SlaInit, Past, NoIncident
<1>3. GatheredStands
  BY InitFacts DEF SlaInit, GatheredStands, Stands
<1>4. RecordsStand
  BY InitFacts DEF SlaInit, RecordsStand, Recorded
<1> QED
  BY <1>1, <1>2, <1>3, <1>4 DEF SlaInv

\* The incidents say the same as before of every moment before end.
SameUpTo(end) ==
    \A i \in SlaIncidents, t \in Int : t < end =>
      /\ DownAt(i, t)' <=> DownAt(i, t)
      /\ incidents'[i].resolvedAt = t <=> incidents[i].resolvedAt = t
      /\ incidents[i].resolvedAt = t => incidents'[i].openedAt = incidents[i].openedAt

LEMMA SameFigures ==
    ASSUME NEW m \in Month, NEW end \in Nat, SameUpTo(end)
    PROVE  /\ Lost(m, end)' = Lost(m, end)
           /\ MeanTimeToRecover(Start(m), end)' = MeanTimeToRecover(Start(m), end)
<1>1. Start(m) \in Nat
  BY MonthFacts
<1>2. ASSUME NEW p \in SlaIncidents \X (Start(m) .. end - 1)
      PROVE  DownAt(p[1], p[2])' <=> DownAt(p[1], p[2])
  BY <1>1 DEF SameUpTo
<1>3. Lost(m, end)' = Lost(m, end)
  BY <1>2 DEF Lost
<1> DEFINE recovered == Recovered(Start(m), end)
           took(i) == incidents[i].openedAt .. incidents[i].resolvedAt - 1
           times == UNION {{i} \X took(i) : i \in recovered}
<1>4. recovered' = recovered
  <2>1. Start(m)' = Start(m) /\ Never \notin Int
    BY SlaAssumption DEF Start
  <2>2. ASSUME NEW i \in SlaIncidents, NEW t \in Start(m) .. end - 1
        PROVE  incidents'[i].resolvedAt = t <=> incidents[i].resolvedAt = t
    BY <1>1 DEF SameUpTo
  <2> QED
    BY <1>1, <2>1, <2>2 DEF Recovered
<1>5. ASSUME NEW i \in recovered PROVE took(i)' = took(i)
  <2>1. /\ i \in SlaIncidents /\ incidents[i].resolvedAt \in Int
        /\ incidents[i].resolvedAt < end
    BY <1>1 DEF Recovered
  <2>2. /\ incidents'[i].resolvedAt = incidents[i].resolvedAt
        /\ incidents'[i].openedAt = incidents[i].openedAt
    BY <2>1 DEF SameUpTo
  <2> QED
    BY <2>2
<1>6. times' = times
  BY <1>4, <1>5
<1>7. MeanTimeToRecover(Start(m), end)' = MeanTimeToRecover(Start(m), end)
  <2>1. MeanTimeToRecover(Start(m), end) =
          IF recovered = {} THEN {Never}
          ELSE Round2(Cardinality(times), Cardinality(recovered) * MinuteLength)
    BY DEF MeanTimeToRecover
  <2>2. MeanTimeToRecover(Start(m), end)' =
          IF recovered' = {} THEN {Never}
          ELSE Round2(Cardinality(times'), Cardinality(recovered') * MinuteLength)
    BY DEF MeanTimeToRecover, Round2
  <2> HIDE DEF recovered, times
  <2> QED
    BY <1>4, <1>6, <2>1, <2>2
<1> QED
  BY <1>3, <1>7

\* A step of the incidents or the clock: it leaves every figure, and is only
\* passed over by what looked no further than the incidents have stayed.
LEMMA IncidentsStep ==
    ASSUME SlaInv, SlaTypeOK', Past',
           \A c \in Calculations :
             /\ \E settled \in BOOLEAN :
                  calculation'[c] = [calculation[c] EXCEPT !.settled = settled]
             /\ calculation'[c].settled =>
                  /\ calculation[c].settled
                  /\ calculation[c].gathered = {} \/ SameUpTo(calculation[c].end),
           \A m \in Month :
             /\ \E settled \in BOOLEAN : records'[m] = [records[m] EXCEPT !.settled = settled]
             /\ records'[m].settled =>
                  /\ records[m].settled
                  /\ records[m].asOf = Never \/ SameUpTo(records[m].asOf)
    PROVE  SlaInv'
<1>0. SlaTypeOK /\ GatheredStands /\ RecordsStand
  BY DEF SlaInv
<1>1. ASSUME NEW c \in Calculations PROVE Stands(calculation[c])'
  <2>1. PICK v, w : v = calculation[c] /\ w = calculation'[c]
    OBVIOUS
  <2>2. /\ v \in Calculation /\ w.pc = v.pc /\ w.month = v.month /\ w.end = v.end
        /\ w.downtime = v.downtime /\ w.recover = v.recover /\ w.gathered = v.gathered
        /\ w.settled => v.settled /\ (v.gathered = {} \/ SameUpTo(v.end))
    BY <1>0, <2>1 DEF SlaTypeOK, Calculation
  <2>3. Stands(v)
    BY <1>0, <2>1 DEF GatheredStands
  <2>4. v.month \in Month /\ v.end \in Nat
    BY <2>2 DEF Calculation
  <2>5. w.settled /\ v.gathered # {} =>
          /\ Lost(v.month, v.end)' = Lost(v.month, v.end)
          /\ MeanTimeToRecover(Start(v.month), v.end)' = MeanTimeToRecover(Start(v.month), v.end)
    BY <2>2, <2>4, SameFigures
  <2>6. Stands(w)'
    BY <2>2, <2>3, <2>5 DEF Stands
  <2> QED
    BY <2>1, <2>6
<1>2. ASSUME NEW m \in Month PROVE Recorded(m, records[m])'
  <2>1. PICK r, q : r = records[m] /\ q = records'[m]
    OBVIOUS
  <2>2. /\ r \in SlaRecord /\ q.asOf = r.asOf /\ q.actual = r.actual /\ q.budget = r.budget
        /\ q.consumed = r.consumed /\ q.breached = r.breached /\ q.recover = r.recover
        /\ q.settled => r.settled /\ (r.asOf = Never \/ SameUpTo(r.asOf))
    BY <1>0, <2>1 DEF SlaTypeOK, SlaRecord
  <2>3. Recorded(m, r)
    BY <1>0, <2>1 DEF RecordsStand
  <2>4. q.settled /\ r.asOf # Never =>
          /\ Lost(m, r.asOf)' = Lost(m, r.asOf)
          /\ MeanTimeToRecover(Start(m), r.asOf)' = MeanTimeToRecover(Start(m), r.asOf)
    BY <2>2, SameFigures DEF SlaRecord, Stamp
  <2>5. Recorded(m, q)'
    BY <2>2, <2>3, <2>4 DEF Recorded, FiguresAgree
  <2> QED
    BY <2>1, <2>5
<1> QED
  BY <1>1, <1>2 DEF SlaInv, GatheredStands, RecordsStand

LEMMA TickKeeps ==
    ASSUME SlaInv, Tick PROVE SlaInv'
<1>0. SlaTypeOK /\ Past
  BY DEF SlaInv
<1>1. now' = now + 1 /\ incidents' = incidents /\ records' = records /\ calculation' = calculation
  BY DEF Tick
<1>2. SlaTypeOK' /\ Past'
  BY <1>0, <1>1 DEF SlaTypeOK, Past, SlaIncident, Calculation, SlaRecord, Stamp
<1>3. \A end : SameUpTo(end)
  BY <1>1 DEF SameUpTo, DownAt
<1>4. \A c \in Calculations :
        /\ calculation[c].settled \in BOOLEAN
        /\ calculation'[c] = [calculation[c] EXCEPT !.settled = calculation[c].settled]
  BY <1>0, <1>1 DEF SlaTypeOK, Calculation
<1>5. \A m \in Month :
        /\ records[m].settled \in BOOLEAN
        /\ records'[m] = [records[m] EXCEPT !.settled = records[m].settled]
  BY <1>0, <1>1 DEF SlaTypeOK, SlaRecord
<1> QED
  BY <1>1, <1>2, <1>3, <1>4, <1>5, IncidentsStep

\* A step of one incident that leaves the clock alone.
LEMMA IncidentStep ==
    ASSUME SlaInv, NEW i \in SlaIncidents, NEW x \in SlaIncident,
           incidents' = [incidents EXCEPT ![i] = x], now' = now,
           x.openedAt # Never => x.openedAt <= now,
           x.resolvedAt # Never => x.openedAt # Never /\ x.resolvedAt <= now /\ x.resolving = Never,
           x.resolving # Never => x.openedAt # Never /\ x.resolving <= now,
           \/ UNCHANGED <<records, calculation>> /\ \A end \in Nat : end <= now => SameUpTo(end)
           \/ \E t \in Nat : Rewritten(t) /\ \A end \in Nat : end <= t => SameUpTo(end)
    PROVE  SlaInv'
<1>0. SlaTypeOK /\ Past
  BY DEF SlaInv
<1>1. incidents'[i] = x /\ \A j \in SlaIncidents \ {i} : incidents'[j] = incidents[j]
  BY <1>0 DEF SlaTypeOK
<1>2. \A c \in Calculations : calculation[c] \in Calculation /\ calculation[c].end <= now
  BY <1>0 DEF SlaTypeOK, Past
<1>3. \A m \in Month : /\ records[m] \in SlaRecord
                       /\ records[m].asOf # Never => records[m].asOf <= now
  BY <1>0 DEF SlaTypeOK, Past
<1>4. ASSUME NEW c \in Calculations
      PROVE  /\ \E settled \in BOOLEAN :
                  calculation'[c] = [calculation[c] EXCEPT !.settled = settled]
             /\ calculation'[c].settled =>
                  /\ calculation[c].settled
                  /\ calculation[c].gathered = {} \/ SameUpTo(calculation[c].end)
  <2>1. CASE UNCHANGED <<records, calculation>> /\ \A end \in Nat : end <= now => SameUpTo(end)
    <3>1. /\ calculation[c].settled \in BOOLEAN
          /\ calculation'[c] = [calculation[c] EXCEPT !.settled = calculation[c].settled]
      BY <1>2, <2>1 DEF Calculation
    <3>2. SameUpTo(calculation[c].end)
      BY <1>2, <2>1 DEF Calculation
    <3> QED
      BY <2>1, <3>1, <3>2
  <2>2. ASSUME NEW t \in Nat, Rewritten(t), \A end \in Nat : end <= t => SameUpTo(end)
        PROVE  /\ \E settled \in BOOLEAN :
                    calculation'[c] = [calculation[c] EXCEPT !.settled = settled]
               /\ calculation'[c].settled =>
                    /\ calculation[c].settled
                    /\ calculation[c].gathered = {} \/ SameUpTo(calculation[c].end)
    <3> DEFINE kept == calculation[c].settled
                         /\ (\/ calculation[c].gathered = {} \/ calculation[c].end <= t)
    <3>1. calculation'[c] = [calculation[c] EXCEPT !.settled = kept]
      BY <2>2 DEF Rewritten
    <3>2. kept \in BOOLEAN
      BY <1>2 DEF Calculation
    <3>3. kept => /\ calculation[c].settled
                  /\ calculation[c].gathered = {} \/ SameUpTo(calculation[c].end)
      BY <1>2, <2>2 DEF Calculation
    <3> HIDE DEF kept
    <3>4. calculation'[c].settled = kept
      BY <1>2, <3>1 DEF Calculation
    <3> QED
      BY <3>1, <3>2, <3>3, <3>4
  <2> QED
    BY <2>1, <2>2
<1>5. ASSUME NEW m \in Month
      PROVE  /\ \E settled \in BOOLEAN : records'[m] = [records[m] EXCEPT !.settled = settled]
             /\ records'[m].settled =>
                  /\ records[m].settled
                  /\ records[m].asOf = Never \/ SameUpTo(records[m].asOf)
  <2>1. CASE UNCHANGED <<records, calculation>> /\ \A end \in Nat : end <= now => SameUpTo(end)
    <3>1. /\ records[m].settled \in BOOLEAN
          /\ records'[m] = [records[m] EXCEPT !.settled = records[m].settled]
      BY <1>3, <2>1 DEF SlaRecord
    <3>2. records[m].asOf = Never \/ SameUpTo(records[m].asOf)
      BY <1>3, <2>1 DEF SlaRecord, Stamp
    <3> QED
      BY <2>1, <3>1, <3>2
  <2>2. ASSUME NEW t \in Nat, Rewritten(t), \A end \in Nat : end <= t => SameUpTo(end)
        PROVE  /\ \E settled \in BOOLEAN : records'[m] = [records[m] EXCEPT !.settled = settled]
               /\ records'[m].settled =>
                    /\ records[m].settled
                    /\ records[m].asOf = Never \/ SameUpTo(records[m].asOf)
    <3> DEFINE kept == records[m].settled /\ (records[m].asOf = Never \/ records[m].asOf <= t)
    <3>1. records'[m] = [records[m] EXCEPT !.settled = kept]
      BY <2>2 DEF Rewritten
    <3>2. kept \in BOOLEAN
      BY <1>3 DEF SlaRecord
    <3>3. kept => /\ records[m].settled
                  /\ records[m].asOf = Never \/ SameUpTo(records[m].asOf)
      BY <1>3, <2>2 DEF SlaRecord, Stamp
    <3> HIDE DEF kept
    <3>4. records'[m].settled = kept
      BY <1>3, <3>1 DEF SlaRecord
    <3> QED
      BY <3>1, <3>2, <3>3, <3>4
  <2> QED
    BY <2>1, <2>2
<1>6. SlaTypeOK'
  <2>1. incidents' \in [SlaIncidents -> SlaIncident] /\ now' \in Nat
    BY <1>0 DEF SlaTypeOK
  <2>2. ASSUME NEW c \in Calculations PROVE calculation'[c] \in Calculation
    <3>1. PICK v \in Calculation : v = calculation[c]
      BY <1>2
    <3>2. PICK settled \in BOOLEAN : calculation'[c] = [v EXCEPT !.settled = settled]
      BY <1>4, <3>1
    <3> QED
      BY <3>1, <3>2 DEF Calculation
  <2>3. \A m \in Month : records'[m] \in SlaRecord
    BY <1>3, <1>5 DEF SlaRecord
  <2>4. /\ calculation' = [c \in Calculations |-> calculation'[c]]
        /\ records' = [m \in Month |-> records'[m]]
    BY <1>0 DEF Rewritten, SlaTypeOK
  <2> QED
    BY <2>1, <2>2, <2>3, <2>4 DEF SlaTypeOK
<1>7. Past'
  <2>1. \A c \in Calculations : calculation'[c].end = calculation[c].end
    BY <1>2, <1>4 DEF Calculation
  <2>2. \A m \in Month : records'[m].asOf = records[m].asOf
    BY <1>3, <1>5 DEF SlaRecord
  <2> QED
    BY <1>0, <1>1, <2>1, <2>2 DEF Past
<1> QED
  BY <1>4, <1>5, <1>6, <1>7, IncidentsStep

LEMMA IncidentSteps ==
    ASSUME SlaInv, NEW i \in SlaIncidents,
           IncidentOpens(i) \/ TakeResolvedAt(i) \/ WriteResolvedAt(i) \/ IncidentReopens(i)
    PROVE  SlaInv'
<1>0. /\ SlaTypeOK /\ Past /\ now \in Nat /\ Never \notin Int
      /\ incidents \in [SlaIncidents -> SlaIncident] /\ incidents[i] \in SlaIncident
  BY SlaAssumption DEF SlaInv, SlaTypeOK
<1>1. CASE IncidentOpens(i)
  <2> DEFINE x == [incidents[i] EXCEPT !.openedAt = now]
  <2>1. /\ x \in SlaIncident /\ x.openedAt = now /\ x.resolvedAt = Never /\ x.resolving = Never
        /\ incidents[i].openedAt = Never /\ incidents[i].resolvedAt = Never
    BY <1>0, <1>1 DEF IncidentOpens, NoIncident, SlaIncident, Stamp
  <2>2. incidents' = [incidents EXCEPT ![i] = x] /\ UNCHANGED <<now, records, calculation>>
    BY <1>1 DEF IncidentOpens
  <2> HIDE DEF x
  <2>3. \A end \in Nat : end <= now => SameUpTo(end)
    BY <1>0, <2>1, <2>2 DEF SameUpTo, DownAt
  <2>4. now <= now /\ x.openedAt <= now
    BY <1>0, <2>1
  <2> QED
    BY <2>1, <2>2, <2>3, <2>4, IncidentStep
<1>2. CASE TakeResolvedAt(i)
  <2> DEFINE x == [incidents[i] EXCEPT !.resolving = now]
  <2>1. /\ x \in SlaIncident /\ x.openedAt = incidents[i].openedAt /\ x.resolvedAt = Never
        /\ x.resolving = now /\ x.openedAt # Never /\ x.openedAt <= now
        /\ incidents[i].resolvedAt = Never
    BY <1>0, <1>2 DEF TakeResolvedAt, SlaIncident, Stamp, Past
  <2>2. incidents' = [incidents EXCEPT ![i] = x] /\ UNCHANGED <<now, records, calculation>>
    BY <1>2 DEF TakeResolvedAt
  <2> HIDE DEF x
  <2>3. \A end \in Nat : end <= now => SameUpTo(end)
    BY <1>0, <2>1, <2>2 DEF SameUpTo, DownAt
  <2>4. x.resolving <= now
    BY <1>0, <2>1
  <2> QED
    BY <2>1, <2>2, <2>3, <2>4, IncidentStep
<1>3. CASE WriteResolvedAt(i)
  <2> DEFINE t == incidents[i].resolving
             x == [incidents[i] EXCEPT !.resolvedAt = t, !.resolving = Never]
  <2>1. /\ t \in Nat /\ t <= now /\ incidents[i].resolvedAt = Never
        /\ incidents[i].openedAt # Never /\ incidents[i].openedAt <= now
    BY <1>0, <1>3 DEF WriteResolvedAt, SlaIncident, Stamp, Past
  <2>2. /\ x \in SlaIncident /\ x.openedAt = incidents[i].openedAt /\ x.resolvedAt = t
        /\ x.resolving = Never
    BY <1>0, <2>1 DEF SlaIncident, Stamp
  <2>3. incidents' = [incidents EXCEPT ![i] = x] /\ now' = now /\ Rewritten(t)
    BY <1>0, <1>3 DEF WriteResolvedAt, SlaIncident
  <2> HIDE DEF x, t
  <2>4. \A end \in Nat : end <= t => SameUpTo(end)
    BY <1>0, <2>1, <2>2, <2>3 DEF SameUpTo, DownAt
  <2> QED
    BY <2>1, <2>2, <2>3, <2>4, IncidentStep
<1>4. CASE IncidentReopens(i)
  <2> DEFINE t == incidents[i].resolvedAt
             x == [incidents[i] EXCEPT !.resolvedAt = Never]
  <2>1. /\ t \in Nat /\ incidents[i].resolving = Never
        /\ incidents[i].openedAt # Never /\ incidents[i].openedAt <= now
    BY <1>0, <1>4 DEF IncidentReopens, SlaIncident, Stamp, Past
  <2>2. /\ x \in SlaIncident /\ x.openedAt = incidents[i].openedAt /\ x.resolvedAt = Never
        /\ x.resolving = Never
    BY <1>0, <2>1 DEF SlaIncident, Stamp
  <2>3. incidents' = [incidents EXCEPT ![i] = x] /\ now' = now /\ Rewritten(t)
    BY <1>4 DEF IncidentReopens
  <2>4. t = incidents[i].resolvedAt
    OBVIOUS
  <2> HIDE DEF x, t
  <2>5. \A end \in Nat : end <= t => SameUpTo(end)
    BY <1>0, <2>1, <2>2, <2>3, <2>4 DEF SameUpTo, DownAt
  <2> QED
    BY <2>1, <2>2, <2>3, <2>5, IncidentStep
<1> QED
  BY <1>1, <1>2, <1>3, <1>4

\* A step of one calculation, with what it may record.
LEMMA CalculationStep ==
    ASSUME SlaInv, NEW c \in Calculations, NEW v \in Calculation,
           v.end <= now, Stands(v), CalculationAt(c, v), UNCHANGED <<now, incidents>>,
           \/ UNCHANGED records
           \/ \E m \in Month, r \in SlaRecord :
                /\ records' = [records EXCEPT ![m] = r]
                /\ r.asOf # Never => r.asOf <= now
                /\ Recorded(m, r)
    PROVE  SlaInv'
<1>0. SlaTypeOK /\ Past /\ GatheredStands /\ RecordsStand
  BY DEF SlaInv
<1>1. /\ calculation' \in [Calculations -> Calculation] /\ calculation'[c] = v
      /\ \A d \in Calculations \ {c} : calculation'[d] = calculation[d]
  BY <1>0 DEF SlaTypeOK, CalculationAt
<1>2. /\ records' \in [Month -> SlaRecord]
      /\ \A m \in Month : records'[m].asOf # Never => records'[m].asOf <= now
      /\ \A m \in Month : Recorded(m, records'[m])
  <2>1. CASE UNCHANGED records
    BY <1>0, <2>1 DEF SlaTypeOK, Past, RecordsStand
  <2>2. ASSUME NEW n \in Month, NEW r \in SlaRecord, records' = [records EXCEPT ![n] = r],
               r.asOf # Never => r.asOf <= now, Recorded(n, r)
        PROVE  /\ records' \in [Month -> SlaRecord]
               /\ \A m \in Month : records'[m].asOf # Never => records'[m].asOf <= now
               /\ \A m \in Month : Recorded(m, records'[m])
    <3>1. /\ records' \in [Month -> SlaRecord] /\ records'[n] = r
          /\ \A m \in Month \ {n} : records'[m] = records[m]
      BY <1>0, <2>2 DEF SlaTypeOK
    <3>2. \A m \in Month : /\ records[m].asOf # Never => records[m].asOf <= now
                           /\ Recorded(m, records[m])
      BY <1>0 DEF Past, RecordsStand
    <3> QED
      BY <2>2, <3>1, <3>2
  <2> QED
    BY <2>1, <2>2
<1>3. SlaTypeOK' /\ Past'
  BY <1>0, <1>1, <1>2 DEF SlaTypeOK, Past
<1>4. /\ \A m, end : Lost(m, end)' = Lost(m, end)
      /\ \A m, end : MeanTimeToRecover(Start(m), end)' = MeanTimeToRecover(Start(m), end)
  BY DEF Lost, DownAt, MeanTimeToRecover, Recovered
<1>5. \A u : Stands(u) => Stands(u)'
  BY <1>4 DEF Stands
<1>6. GatheredStands'
  BY <1>0, <1>1, <1>5 DEF GatheredStands
<1>7. \A m, r : Recorded(m, r) => Recorded(m, r)'
  BY <1>4 DEF Recorded, FiguresAgree
<1>8. RecordsStand'
  BY <1>2, <1>7 DEF RecordsStand
<1> QED
  BY <1>3, <1>6, <1>8 DEF SlaInv

LEMMA CalculationFacts ==
    ASSUME SlaInv, NEW c \in Calculations
    PROVE  /\ calculation[c] \in Calculation /\ calculation[c].end <= now
           /\ Stands(calculation[c]) /\ calculation[c].month \in Month
           /\ now \in Nat /\ SlaTypeOK /\ Past
  BY DEF SlaInv, SlaTypeOK, Past, GatheredStands, Calculation

LEMMA IdleStands == NoCalculation \in Calculation /\ Stands(NoCalculation)
  BY InitFacts DEF Stands

LEMMA ChooseWindowKeeps ==
    ASSUME SlaInv, NEW c \in Calculations, NEW m \in Month, ChooseWindow(c, m) PROVE SlaInv'
<1>1. PICK v : v = [NoCalculation EXCEPT !.pc = "begin", !.month = m]
  OBVIOUS
<1>2. /\ v \in Calculation /\ v.end = 0 /\ v.gathered = {} /\ v.downtime = 0 /\ v.pc = "begin"
  BY <1>1, IdleStands DEF NoCalculation, Calculation
<1>3. Stands(v)
  BY <1>2 DEF Stands
<1>4. CalculationAt(c, v) /\ UNCHANGED <<now, incidents>> /\ UNCHANGED records
  BY <1>1 DEF ChooseWindow
<1>5. v.end <= now
  BY <1>2, CalculationFacts
<1> QED
  BY <1>2, <1>3, <1>4, <1>5, CalculationStep

LEMMA BeginCalculationKeeps ==
    ASSUME SlaInv, NEW c \in Calculations, BeginCalculation(c) PROVE SlaInv'
<1>0. /\ calculation[c] \in Calculation /\ Stands(calculation[c]) /\ now \in Nat
      /\ End(calculation[c].month) \in Nat
  BY CalculationFacts, MonthFacts
<1>1. PICK e \in Nat : e = Lesser(End(calculation[c].month), now)
  BY <1>0 DEF Lesser
<1>2. e <= now
  BY <1>0, <1>1 DEF Lesser
<1>3. PICK u \in Calculation : u = calculation[c]
  BY <1>0
<1>4. PICK v : v = [u EXCEPT !.pc = "gather", !.end = e]
  OBVIOUS
<1>5. u.pc = "begin" /\ CalculationAt(c, v) /\ UNCHANGED <<now, incidents>> /\ UNCHANGED records
  BY <1>1, <1>3, <1>4 DEF BeginCalculation
<1>6. u.gathered = {} /\ u.downtime = 0
  BY <1>0, <1>3, <1>5 DEF Stands
<1>7. /\ v \in Calculation /\ v.end = e /\ v.pc = "gather" /\ v.gathered = {} /\ v.downtime = 0
  BY <1>4, <1>6 DEF Calculation
<1>8. Stands(v)
  BY <1>7 DEF Stands
<1> QED
  BY <1>2, <1>5, <1>7, <1>8, CalculationStep

\* What a query brings is what the incidents say when it reads them.
LEMMA GatherKeeps ==
    ASSUME SlaInv, NEW c \in Calculations, NEW query \in Queries, Gather(c, query) PROVE SlaInv'
<1>1. PICK u \in Calculation : u = calculation[c]
  BY CalculationFacts
<1>2. /\ Stands(u) /\ u.end <= now /\ u.end \in Nat /\ u.month \in Month /\ SlaTypeOK /\ Past
  BY <1>1, CalculationFacts DEF Calculation
<1>3. PICK down : down = IF query = "downtime" THEN Downtime(Start(u.month), u.end)
                                              ELSE u.downtime
  OBVIOUS
<1>4. PICK g \in SUBSET Queries : g = u.gathered \cup {query}
  BY <1>1 DEF Calculation
<1>5. PICK p \in {"upsert", "gather"} : p = IF g = Queries THEN "upsert" ELSE "gather"
  OBVIOUS
<1>6. PICK mean : /\ IF query = "downtime" THEN mean = u.recover
                     ELSE mean \in MeanTimeToRecover(Start(u.month), u.end)
                  /\ CalculationAt(c, [u EXCEPT !.gathered = g, !.pc = p,
                                                !.downtime = down, !.recover = mean])
  <2>1. CASE query = "downtime"
    <3>1. /\ CalculationAt(c, [[u EXCEPT !.gathered = g, !.pc = p] EXCEPT !.downtime = down])
      BY <1>1, <1>3, <1>4, <1>5, <2>1 DEF Gather
    <3>2. [[u EXCEPT !.gathered = g, !.pc = p] EXCEPT !.downtime = down]
            = [u EXCEPT !.gathered = g, !.pc = p, !.downtime = down, !.recover = u.recover]
      BY <1>1 DEF Calculation
    <3> QED
      BY <2>1, <3>1, <3>2
  <2>2. CASE query = "recovery"
    <3>1. PICK mean \in MeanTimeToRecover(Start(u.month), u.end) :
            CalculationAt(c, [[u EXCEPT !.gathered = g, !.pc = p] EXCEPT !.recover = mean])
      BY <1>1, <1>4, <1>5, <2>2 DEF Gather
    <3>2. [[u EXCEPT !.gathered = g, !.pc = p] EXCEPT !.recover = mean]
            = [u EXCEPT !.gathered = g, !.pc = p, !.downtime = down, !.recover = mean]
      BY <1>1, <1>3, <2>2 DEF Calculation
    <3> QED
      BY <2>2, <3>1, <3>2
  <2> QED
    BY <2>1, <2>2 DEF Queries
<1>7. down \in Nat /\ mean \in Int \cup {Never}
  BY <1>1, <1>2, <1>3, <1>6, DowntimeIsLost, RecoveryType DEF Calculation
<1>8. PICK v : v = [u EXCEPT !.gathered = g, !.pc = p, !.downtime = down, !.recover = mean]
  OBVIOUS
<1>9. /\ u.pc = "gather" /\ query \notin u.gathered /\ CalculationAt(c, v)
      /\ UNCHANGED <<now, incidents>> /\ UNCHANGED records
  BY <1>1, <1>6, <1>8 DEF Gather
<1>10. /\ v \in Calculation /\ v.pc = p /\ v.downtime = down /\ v.recover = mean
       /\ v.gathered = g /\ v.month = u.month /\ v.end = u.end /\ v.settled = u.settled
  BY <1>7, <1>8 DEF Calculation
<1>11. Stands(v)
  <2>1. v.pc = "upsert" => v.gathered = Queries
    BY <1>5, <1>10
  <2>2. v.end <= Start(v.month) => v.downtime = 0
    BY <1>2, <1>3, <1>10, DowntimeIsLost DEF Stands
  <2>3. v.settled /\ "downtime" \in v.gathered => v.downtime = Cardinality(Lost(v.month, v.end))
    BY <1>2, <1>3, <1>4, <1>10, DowntimeIsLost DEF Stands
  <2>4. v.settled /\ "recovery" \in v.gathered =>
          v.recover \in MeanTimeToRecover(Start(v.month), v.end)
    <3>1. "recovery" \in v.gathered => query # "downtime" \/ "recovery" \in u.gathered
      BY <1>4, <1>10
    <3> QED
      BY <1>2, <1>6, <1>10, <3>1 DEF Stands
  <2> QED
    BY <1>5, <1>10, <2>1, <2>2, <2>3, <2>4 DEF Stands
<1> QED
  BY <1>2, <1>9, <1>10, <1>11, CalculationStep

LEMMA AbortCalculationKeeps ==
    ASSUME SlaInv, NEW c \in Calculations, AbortCalculation(c) PROVE SlaInv'
<1>1. CalculationAt(c, NoCalculation) /\ UNCHANGED <<now, incidents>> /\ UNCHANGED records
  BY DEF AbortCalculation
<1>2. NoCalculation.end <= now
  BY InitFacts, CalculationFacts
<1> QED
  BY <1>1, <1>2, IdleStands, CalculationStep

LEMMA UpsertKeeps ==
    ASSUME SlaInv, NEW c \in Calculations, Upsert(c) PROVE SlaInv'
<1>1. PICK u \in Calculation : u = calculation[c]
  BY CalculationFacts
<1>2. /\ Stands(u) /\ u.end <= now /\ u.end \in Nat /\ u.month \in Month /\ u.downtime \in Nat
      /\ u.settled \in BOOLEAN /\ u.recover \in Int \cup {Never} /\ u.pc = "upsert"
      /\ now \in Nat /\ Start(u.month) \in Nat
  BY <1>1, CalculationFacts, MonthFacts DEF Calculation, Upsert
<1>3. PICK w \in Nat : w = Greater(0, u.end - Start(u.month))
  BY <1>2 DEF Greater
<1>4. w = 0 => u.downtime = 0
  BY <1>2, <1>3 DEF Stands, Greater
<1>5. PICK s \in Calculate(w, u.downtime) :
        records' = [records EXCEPT ![u.month] =
                      [ asOf |-> u.end, settled |-> u.settled, recover |-> u.recover,
                        actual |-> s.actual, budget |-> s.budget,
                        consumed |-> s.consumed, breached |-> s.breached ]]
  BY <1>1, <1>3 DEF Upsert
<1>6. /\ FiguresAgree(s, 1) /\ s.actual \in Int /\ s.budget \in Int /\ s.consumed \in Int
      /\ s.consumed \in Round2(u.downtime, MinuteLength) /\ s.breached \in BOOLEAN
  BY <1>2, <1>4, <1>5, CalculateAgrees, CalculateType
<1>7. PICK r : r = [ asOf |-> u.end, settled |-> u.settled, recover |-> u.recover,
                     actual |-> s.actual, budget |-> s.budget,
                     consumed |-> s.consumed, breached |-> s.breached ]
  OBVIOUS
<1>8. /\ records' = [records EXCEPT ![u.month] = r] /\ CalculationAt(c, NoCalculation)
      /\ UNCHANGED <<now, incidents>>
  BY <1>5, <1>7 DEF Upsert
<1>9. r \in SlaRecord /\ r.asOf = u.end /\ r.settled = u.settled /\ FiguresAgree(r, 1)
  BY <1>2, <1>6, <1>7 DEF SlaRecord, Stamp, FiguresAgree
<1>10. Recorded(u.month, r)
  <2>1. u.settled => /\ u.downtime = Cardinality(Lost(u.month, u.end))
                     /\ u.recover \in MeanTimeToRecover(Start(u.month), u.end)
    BY <1>2 DEF Stands, Queries
  <2> QED
    BY <1>6, <1>7, <1>9, <2>1 DEF Recorded
<1>11. NoCalculation.end <= now
  BY <1>2, InitFacts
<1> QED
  BY <1>2, <1>8, <1>9, <1>10, <1>11, IdleStands, CalculationStep

LEMMA SlaStepInv == SlaInv /\ [SlaNext]_slaVars => SlaInv'
<1> SUFFICES ASSUME SlaInv, [SlaNext]_slaVars PROVE SlaInv'
  OBVIOUS
<1>1. CASE Tick
  BY <1>1, TickKeeps
<1>2. ASSUME NEW i \in SlaIncidents,
             IncidentOpens(i) \/ TakeResolvedAt(i) \/ WriteResolvedAt(i) \/ IncidentReopens(i)
      PROVE  SlaInv'
  BY <1>2, IncidentSteps
<1>3. ASSUME NEW c \in Calculations, \E m \in Month : ChooseWindow(c, m) PROVE SlaInv'
  BY <1>3, ChooseWindowKeeps
<1>4. ASSUME NEW c \in Calculations, BeginCalculation(c) PROVE SlaInv'
  BY <1>4, BeginCalculationKeeps
<1>5. ASSUME NEW c \in Calculations, \E query \in Queries : Gather(c, query) PROVE SlaInv'
  BY <1>5, GatherKeeps
<1>6. ASSUME NEW c \in Calculations, Upsert(c) PROVE SlaInv'
  BY <1>6, UpsertKeeps
<1>7. ASSUME NEW c \in Calculations, AbortCalculation(c) PROVE SlaInv'
  BY <1>7, AbortCalculationKeeps
<1>8. CASE UNCHANGED slaVars
  <2>1. UNCHANGED <<now, incidents, records, calculation>>
    BY <1>8 DEF slaVars
  <2>2. SlaTypeOK' /\ Past'
    BY <2>1 DEF SlaInv, SlaTypeOK, Past
  <2>3. \A m, end : /\ Lost(m, end)' = Lost(m, end)
                    /\ MeanTimeToRecover(Start(m), end)' = MeanTimeToRecover(Start(m), end)
    BY <2>1 DEF Lost, DownAt, MeanTimeToRecover, Recovered
  <2>4. GatheredStands'
    BY <2>1, <2>3 DEF SlaInv, GatheredStands, Stands
  <2>5. RecordsStand'
    BY <2>1, <2>3 DEF SlaInv, RecordsStand, Recorded, FiguresAgree
  <2> QED
    BY <2>2, <2>4, <2>5 DEF SlaInv
<1> QED
  BY <1>1, <1>2, <1>3, <1>4, <1>5, <1>6, <1>7, <1>8 DEF SlaNext

LEMMA SlaInvImplies == SlaInv => RecordFitsIncidents
<1> SUFFICES ASSUME SlaInv, NEW m \in Month
             PROVE  LET r == records[m]
                        elapsed == Start(m) .. r.asOf - 1
                    IN
                    /\ r.asOf # Never /\ r.settled =>
                         /\ r.consumed \in Round2(Cardinality({p \in SlaIncidents \X elapsed :
                                                                DownAt(p[1], p[2])}),
                                                  MinuteLength)
                         /\ r.recover \in MeanTimeToRecover(Start(m), r.asOf)
                    /\ FiguresAgree(r, 1)
  BY DEF RecordFitsIncidents, FiguresAgree
<1>1. Recorded(m, records[m])
  BY DEF SlaInv, RecordsStand
<1> QED
  BY <1>1 DEF Recorded, Lost

\* A record is right for the time up to the reading of the clock that its
\* calculation began with, although the incidents were read at two later moments
\* while they went on changing.
THEOREM RecordFitsIncidentsHolds == SlaInit /\ [][SlaNext]_slaVars => []RecordFitsIncidents
<1>1. SlaInit => SlaInv
  BY SlaInitInv
<1>2. SlaInv /\ [SlaNext]_slaVars => SlaInv'
  BY SlaStepInv
<1>3. SlaInv => RecordFitsIncidents
  BY SlaInvImplies
<1> QED
  BY <1>1, <1>2, <1>3, PTL

=============================================================================
