------------------------------ MODULE ApiProofs ------------------------------
(***************************************************************************)
(* What one API process and its surroundings keep, for any number of       *)
(* accounts, requests, rows, ticks, resources and calls: the safety        *)
(* properties of modules Access, AuditTrail, Server, Console and           *)
(* Remediation.  The modules share no state, so each part has an inductive *)
(* invariant of its own.                                                   *)
(*                                                                         *)
(* Access: what is true of a request's account now is among what has been  *)
(* true of it (Watches), and each stage hands the next what it has         *)
(* established (Vouched).                                                  *)
(* AuditTrail: what the reader has seen is at or above its cursor, and     *)
(* what it was to see and has not is below.                                *)
(* Server: a job runs only for a cached actor, and an actor is cached only *)
(* when its row is there, so whoever still looks began before any job ran. *)
(* Console: what is shown settled is invariant with the types of the hooks.*)
(* Remediation: the failures the breaker counts never outnumber the        *)
(* failures there were in a row (CountIsEarned), which is what makes "the  *)
(* count has reached the threshold" say something about the calls.         *)
(***************************************************************************)
EXTENDS Access, AuditTrail, Server, Remediation, Console,
        FiniteSetTheorems, WellFoundedInduction, TLAPS

-----------------------------------------------------------------------------
(* Access: the way of a request.                                           *)

Phase == {"arrived", "authenticating", "authenticated", "handling", "matched", "stamped", "answered"}

OpenRequest ==
    [phase : Phase, ask : Asks, sender : Account, claim : GivenRole \cup {NoToken, Secret},
     role : Role \cup {"NOBODY"}, left : Int, status : Int,
     entitled : BOOLEAN, unfit : BOOLEAN, excused : BOOLEAN]

AccessTypeOK ==
    /\ accounts \in [Account -> [role : Role, active : BOOLEAN]]
    /\ issued \in [Account -> SUBSET Role]
    /\ audited \in [Account -> BOOLEAN]
    /\ requests \in [Request -> {Idle} \cup OpenRequest]

\* A token is signed only for a login on the record.
TokensAreAudited == \A a \in Account : issued[a] # {} => audited[a]

\* What is true of a request's account now is among what has been true of it.
Watches(request) ==
    /\ Entitles(accounts[request.sender], request.ask) => request.entitled
    /\ Excludes(accounts[request.sender], request.ask) => request.unfit
    /\ \/ ~accounts[request.sender].active
       \/ request.claim \notin issued[request.sender]
       => request.excused

\* What the steps so far have established of a request: once authenticated its
\* role is one its account had while active, in its handler it has the right
\* to be there, and a refusal has its cause.
Vouched(request) ==
    /\ request.phase = "authenticated" =>
         /\ audited[request.sender]
         /\ request.role \in Demanded(request.ask) => request.entitled
         /\ request.role \notin Demanded(request.ask) => request.unfit
    /\ request.phase = "handling" /\ Guarded(request.ask) =>
         audited[request.sender] /\ request.entitled
    /\ request.phase \in {"matched", "stamped"} => request.role \in Role
    /\ Guarded(request.ask) =>
         /\ request.status = 401 => request.excused
         /\ request.status = 403 => request.unfit

AccessInv ==
    /\ AccessTypeOK
    /\ TokensAreAudited
    /\ \A r \in Request : Open(r) => Watches(requests[r]) /\ Vouched(requests[r])

-----------------------------------------------------------------------------

LEMMA OpenType ==
    ASSUME AccessTypeOK, NEW r \in Request
    PROVE  Open(r) => requests[r] \in OpenRequest
  BY DEF AccessTypeOK, Open, Idle

LEMMA IdleIsNotOpen == Idle.phase = "idle" /\ \A request \in OpenRequest : request.phase # "idle"
  BY DEF Idle, OpenRequest, Phase

\* What watching notes down of a request.
LEMMA WatchedFacts ==
    ASSUME NEW request \in OpenRequest, NEW account, NEW tokens,
           account \in [role : Role, active : BOOLEAN]
    PROVE  LET after == Watched(request, account, tokens)
           IN  /\ after \in OpenRequest
               /\ after.phase = request.phase /\ after.ask = request.ask
               /\ after.sender = request.sender /\ after.claim = request.claim
               /\ after.role = request.role /\ after.status = request.status
               /\ after.entitled = (request.entitled \/ Entitles(account, request.ask))
               /\ after.unfit = (request.unfit \/ Excludes(account, request.ask))
               /\ after.excused = (request.excused \/ ~account.active \/ request.claim \notin tokens)
  <1>1. /\ Entitles(account, request.ask) \in BOOLEAN
        /\ Excludes(account, request.ask) \in BOOLEAN
    BY DEF Entitles, Excludes
  <1>2. QED
    BY <1>1 DEF Watched, OpenRequest

\* An account is edited or a token expires: the requests of the account are
\* watched, and nothing is taken from them.
LEMMA WatchInv ==
    ASSUME AccessInv, NEW a \in Account, Watch(a), UNCHANGED audited,
           accounts' \in [Account -> [role : Role, active : BOOLEAN]],
           issued' \in [Account -> SUBSET Role],
           \A b \in Account \ {a} : accounts'[b] = accounts[b] /\ issued'[b] = issued[b],
           issued'[a] \subseteq issued[a]
    PROVE  AccessInv'
  <1>1. AccessTypeOK
    BY DEF AccessInv
  <1>2. ASSUME NEW r \in Request, ~Open(r)
        PROVE  requests'[r] = Idle
    BY <1>1, <1>2, IdleIsNotOpen DEF Watch, AccessTypeOK, Open
  <1>3. ASSUME NEW r \in Request, Open(r)
        PROVE  requests'[r] \in OpenRequest /\ Watches(requests[r])' /\ Vouched(requests[r])'
    <2>1. requests[r] \in OpenRequest /\ Watches(requests[r]) /\ Vouched(requests[r])
      BY <1>1, <1>3, OpenType DEF AccessInv
    <2>2. requests[r].sender \in Account
      BY <2>1 DEF OpenRequest
    <2>3. CASE requests[r].sender = a
      <3>1. PICK after : after = Watched(requests[r], accounts'[a], issued'[a])
        OBVIOUS
      <3>2. accounts'[a] \in [role : Role, active : BOOLEAN]
        OBVIOUS
      <3>3. /\ after \in OpenRequest
            /\ after.phase = requests[r].phase /\ after.ask = requests[r].ask
            /\ after.sender = requests[r].sender /\ after.claim = requests[r].claim
            /\ after.role = requests[r].role /\ after.status = requests[r].status
            /\ after.entitled = (requests[r].entitled \/ Entitles(accounts'[a], requests[r].ask))
            /\ after.unfit = (requests[r].unfit \/ Excludes(accounts'[a], requests[r].ask))
            /\ after.excused = (requests[r].excused \/ ~accounts'[a].active
                                  \/ requests[r].claim \notin issued'[a])
        BY <2>1, <3>1, <3>2, WatchedFacts
      <3>4. requests'[r] = after
        BY <1>3, <2>3, <3>1 DEF Watch
      <3>5. Watches(requests[r])'
        BY <2>3, <3>3, <3>4 DEF Watches
      <3>6. /\ requests[r].entitled => after.entitled
            /\ requests[r].unfit => after.unfit
            /\ requests[r].excused => after.excused
        BY <3>3
      <3>7. Vouched(after)'
        BY <2>1, <3>3, <3>6 DEF Vouched, Guarded
      <3>8. Vouched(requests[r])'
        BY <3>4, <3>7 DEF Vouched
      <3>9. QED
        BY <3>3, <3>4, <3>5, <3>8
    <2>4. CASE requests[r].sender # a
      <3>1. requests'[r] = requests[r]
        BY <2>4 DEF Watch
      <3>2. Watches(requests[r])'
        BY <2>1, <2>2, <2>4, <3>1 DEF Watches
      <3>3. Vouched(requests[r])'
        BY <2>1, <3>1 DEF Vouched
      <3>4. QED
        BY <2>1, <3>1, <3>2, <3>3
    <2>5. QED
      BY <2>3, <2>4
  <1>4. AccessTypeOK'
    <2>1. \A r \in Request : requests'[r] \in {Idle} \cup OpenRequest
      BY <1>2, <1>3
    <2>2. requests' = [r \in Request |-> requests'[r]]
      BY DEF Watch
    <2>3. requests' \in [Request -> {Idle} \cup OpenRequest]
      BY <2>1, <2>2
    <2>4. QED
      BY <1>1, <2>3 DEF AccessTypeOK
  <1>5. TokensAreAudited'
    BY DEF AccessInv, TokensAreAudited
  <1>6. \A r \in Request : Open(r)' => Open(r)
    BY <1>2, IdleIsNotOpen DEF Open
  <1>7. QED
    BY <1>3, <1>4, <1>5, <1>6 DEF AccessInv

\* A step of one request changes its phase, what authentication granted it and
\* its status, and excuses it or not; every other request stays as it is.
LEMMA StepInv ==
    ASSUME AccessInv, NEW r \in Request, Open(r), UNCHANGED <<accounts, issued, audited>>,
           DOMAIN requests' = Request, requests' = [d \in Request |-> requests'[d]],
           \A d \in Request \ {r} : requests'[d] = requests[d],
           requests'[r] \in OpenRequest,
           requests'[r].ask = requests[r].ask,
           requests'[r].sender = requests[r].sender,
           requests'[r].claim = requests[r].claim,
           requests'[r].entitled = requests[r].entitled,
           requests'[r].unfit = requests[r].unfit,
           requests[r].excused => requests'[r].excused,
           Vouched(requests[r])'
    PROVE  AccessInv'
  <1>1. AccessTypeOK /\ Watches(requests[r])
    BY DEF AccessInv
  <1>2. AccessTypeOK'
    <2>1. \A d \in Request : requests'[d] \in {Idle} \cup OpenRequest
      BY <1>1 DEF AccessTypeOK
    <2>2. requests' \in [Request -> {Idle} \cup OpenRequest]
      BY <2>1
    <2>3. QED
      BY <1>1, <2>2 DEF AccessTypeOK
  <1>3. Watches(requests[r])'
    BY <1>1 DEF Watches
  <1>4. ASSUME NEW d \in Request, d # r, Open(d)'
        PROVE  Watches(requests[d])' /\ Vouched(requests[d])'
    <2>1. requests'[d] = requests[d] /\ Open(d)
      BY <1>4 DEF Open
    <2>2. Watches(requests[d]) /\ Vouched(requests[d])
      BY <2>1 DEF AccessInv
    <2>3. QED
      BY <2>1, <2>2 DEF Watches, Vouched
  <1>5. TokensAreAudited'
    BY DEF AccessInv, TokensAreAudited
  <1>6. QED
    BY <1>2, <1>3, <1>4, <1>5 DEF AccessInv

\* A request goes on to another stage.
LEMMA StepOnInv ==
    ASSUME AccessInv, NEW r \in Request, Open(r), UNCHANGED <<accounts, issued, audited>>,
           NEW phase \in Phase \ {"authenticated"}, Step(r, phase),
           phase = "handling" /\ Guarded(requests[r].ask) =>
               audited[requests[r].sender] /\ requests[r].entitled,
           phase \in {"matched", "stamped"} => requests[r].role \in Role
    PROVE  AccessInv'
  <1>1. AccessTypeOK /\ Vouched(requests[r]) /\ requests[r] \in OpenRequest
    BY OpenType DEF AccessInv
  <1>2. requests'[r] \in OpenRequest
    BY <1>1 DEF Step, AccessTypeOK, OpenRequest
  <1>3. /\ requests'[r].phase = phase
        /\ requests'[r].ask = requests[r].ask /\ requests'[r].sender = requests[r].sender
        /\ requests'[r].claim = requests[r].claim /\ requests'[r].role = requests[r].role
        /\ requests'[r].status = requests[r].status
        /\ requests'[r].entitled = requests[r].entitled
        /\ requests'[r].unfit = requests[r].unfit
        /\ requests'[r].excused = requests[r].excused
    BY <1>1 DEF Step, AccessTypeOK, OpenRequest
  <1>4. /\ DOMAIN requests' = Request /\ requests' = [d \in Request |-> requests'[d]]
        /\ \A d \in Request \ {r} : requests'[d] = requests[d]
    BY <1>1 DEF Step, AccessTypeOK
  <1>5. Vouched(requests[r])'
    BY <1>1, <1>3 DEF Vouched, Guarded
  <1>6. QED
    BY <1>2, <1>3, <1>4, <1>5, StepInv

LEMMA AnsweredType ==
    ASSUME AccessTypeOK, NEW r \in Request, requests[r] \in OpenRequest,
           NEW status \in Int, Answer(r, status) \/ Excuse(r, status)
    PROVE  requests'[r] \in OpenRequest
  BY DEF Answer, Excuse, AccessTypeOK, OpenRequest, Phase

\* A request is answered: a refusal needs its cause.
LEMMA AnsweredInv ==
    ASSUME AccessInv, NEW r \in Request, Open(r), UNCHANGED <<accounts, issued, audited>>,
           NEW status \in Int, Answer(r, status) \/ Excuse(r, status),
           Guarded(requests[r].ask) =>
               /\ status = 401 /\ Answer(r, status) => requests[r].excused
               /\ status = 403 => requests[r].unfit
    PROVE  AccessInv'
  <1>1. AccessTypeOK /\ Vouched(requests[r]) /\ requests[r] \in OpenRequest
    BY OpenType DEF AccessInv
  <1>2. requests'[r] \in OpenRequest
    BY <1>1, AnsweredType
  <1>3. /\ requests'[r].phase = "answered"
        /\ requests'[r].ask = requests[r].ask /\ requests'[r].sender = requests[r].sender
        /\ requests'[r].claim = requests[r].claim
        /\ requests'[r].status = status
        /\ requests'[r].entitled = requests[r].entitled
        /\ requests'[r].unfit = requests[r].unfit
        /\ requests[r].excused => requests'[r].excused
        /\ Excuse(r, status) => requests'[r].excused
    BY <1>1 DEF Answer, Excuse, AccessTypeOK, OpenRequest
  <1>4. /\ DOMAIN requests' = Request /\ requests' = [d \in Request |-> requests'[d]]
        /\ \A d \in Request \ {r} : requests'[d] = requests[d]
    BY <1>1 DEF Answer, Excuse, AccessTypeOK
  <1>5. Vouched(requests[r])'
    BY <1>1, <1>3 DEF Vouched, Guarded
  <1>6. QED
    BY <1>2, <1>3, <1>4, <1>5, StepInv

LEMMA ErrorStatuses ==
    /\ ErrorStatus("unauthorized") = 401 /\ ErrorStatus("forbidden") = 403
    /\ ErrorStatus("missing") = 404 /\ ErrorStatus("conflict") = 409
    /\ ErrorStatus("zod") = 422
    /\ ErrorStatus("store") = 500 /\ ErrorStatus("parser") = 500
    /\ ErrorStatus("database") = 500 /\ ErrorStatus("other") = 500
  BY DEF ErrorStatus, AppError

\* Routes for anyone, or for Alertmanager, are not behind authentication.
LEMMA OpenRoutes ==
    ASSUME NEW ask, Demanded(ask) \in {Anyone, Alertmanager}
    PROVE  ~Guarded(ask)
  BY DEF Guarded, Anyone, Alertmanager, Role

LEMMA TurnAwayInv ==
    ASSUME AccessInv, NEW r \in Request, TurnAway(r)
    PROVE  AccessInv'
  <1>1. Open(r)
    BY DEF TurnAway, Open
  <1>2. PICK status \in Limited \cup {ErrorStatus("parser")} : Answer(r, status)
    BY DEF TurnAway
  <1>3. status \in {429, 500}
    BY <1>2, ErrorStatuses DEF Limited
  <1>4. QED
    BY <1>1, <1>2, <1>3, AnsweredInv DEF TurnAway

LEMMA DispatchInv ==
    ASSUME AccessInv, NEW r \in Request, Dispatch(r)
    PROVE  AccessInv'
  <1>1. Open(r) /\ UNCHANGED <<accounts, issued, audited>>
    BY DEF Dispatch, Open
  <1>2. CASE Guarded(requests[r].ask)
    <2>1. Step(r, "authenticating")
      BY <1>2, OpenRoutes DEF Dispatch
    <2>2. QED
      BY <1>1, <2>1, StepOnInv DEF Phase
  <1>3. CASE ~Guarded(requests[r].ask)
    <2>1. \/ Step(r, "handling")
          \/ Answer(r, 404)
          \/ Answer(r, 401)
      BY <1>3, ErrorStatuses DEF Dispatch, NotFound
    <2>2. CASE Step(r, "handling")
      BY <1>1, <1>3, <2>2, StepOnInv DEF Phase
    <2>3. ASSUME NEW status \in {401, 404}, Answer(r, status)
          PROVE  AccessInv'
      BY <1>1, <1>3, <2>3, AnsweredInv
    <2>4. QED
      BY <2>1, <2>2, <2>3
  <1>4. QED
    BY <1>2, <1>3

\* The token proves a login on the record, and the row read now is among what
\* has been true since the request came in.
LEMMA AuthenticateInv ==
    ASSUME AccessInv, NEW r \in Request, Authenticate(r)
    PROVE  AccessInv'
  <1> DEFINE s == requests[r].sender
             valid == requests[r].claim \in issued[s] /\ accounts[s].active
  <1>1. Open(r) /\ UNCHANGED <<accounts, issued, audited>>
    BY DEF Authenticate, Open
  <1>2. /\ AccessTypeOK /\ Watches(requests[r]) /\ Vouched(requests[r])
        /\ requests[r] \in OpenRequest /\ requests[r].phase = "authenticating"
        /\ s \in Account
    BY <1>1, OpenType DEF AccessInv, Authenticate, OpenRequest
  <1>3. CASE valid
    <2>1. requests' = [requests EXCEPT
                ![r].role = accounts[s].role, ![r].left = @ - 1,
                ![r].phase = IF requests[r].left = 1 THEN "authenticated" ELSE @]
      BY <1>3 DEF Authenticate
    <2>2. /\ accounts[s].role \in Role
          /\ audited[s]
      BY <1>2, <1>3 DEF AccessInv, TokensAreAudited, AccessTypeOK
    <2>3. requests'[r] \in OpenRequest
      BY <1>2, <2>1, <2>2 DEF AccessTypeOK, OpenRequest, Phase
    <2>4. /\ requests'[r].phase \in {"authenticating", "authenticated"}
          /\ requests'[r].ask = requests[r].ask /\ requests'[r].sender = s
          /\ requests'[r].claim = requests[r].claim
          /\ requests'[r].role = accounts[s].role
          /\ requests'[r].status = requests[r].status
          /\ requests'[r].entitled = requests[r].entitled
          /\ requests'[r].unfit = requests[r].unfit
          /\ requests'[r].excused = requests[r].excused
      BY <1>2, <2>1 DEF AccessTypeOK, OpenRequest
    <2>5. /\ DOMAIN requests' = Request /\ requests' = [d \in Request |-> requests'[d]]
          /\ \A d \in Request \ {r} : requests'[d] = requests[d]
      BY <1>2, <2>1 DEF AccessTypeOK
    <2>6. /\ accounts[s].role \in Demanded(requests[r].ask) => requests[r].entitled
          /\ accounts[s].role \notin Demanded(requests[r].ask) => requests[r].unfit
      BY <1>2, <1>3 DEF Watches, Entitles, Excludes
    <2>7. Vouched(requests[r])'
      BY <1>1, <1>2, <2>2, <2>4, <2>6 DEF Vouched, Guarded
    <2>8. QED
      BY <1>1, <2>3, <2>4, <2>5, <2>7, StepInv
  <1>4. CASE ~valid
    <2>1. Answer(r, 401)
      BY <1>4, ErrorStatuses DEF Authenticate
    <2>2. requests[r].excused
      BY <1>2, <1>4 DEF Watches
    <2>3. QED
      BY <1>1, <2>1, <2>2, AnsweredInv
  <1>5. QED
    BY <1>3, <1>4

\* What the database's failure made "invalid or expired" is excused.
LEMMA AuthenticationFailsInv ==
    ASSUME AccessInv, NEW r \in Request, AuthenticationFails(r)
    PROVE  AccessInv'
  <1>1. Open(r) /\ Excuse(r, 401)
    BY ErrorStatuses DEF AuthenticationFails, Open
  <1>2. Answer(r, 401) => requests[r].excused
    <2>1. requests[r] \in OpenRequest /\ AccessTypeOK
      BY <1>1, OpenType DEF AccessInv
    <2>2. requests'[r].excused
      BY <1>1, <2>1 DEF Excuse, AccessTypeOK, OpenRequest
    <2>3. Answer(r, 401) => requests'[r].excused = requests[r].excused
      BY <2>1 DEF Answer, AccessTypeOK, OpenRequest
    <2>4. QED
      BY <2>2, <2>3
  <1>3. QED
    BY <1>1, <1>2, AnsweredInv DEF AuthenticationFails

LEMMA AuthorizeInv ==
    ASSUME AccessInv, NEW r \in Request, Authorize(r)
    PROVE  AccessInv'
  <1>1. /\ Open(r) /\ UNCHANGED <<accounts, issued, audited>>
        /\ requests[r].phase = "authenticated"
    BY DEF Authorize, Open
  <1>2. Vouched(requests[r])
    BY <1>1 DEF AccessInv
  <1>3. CASE requests[r].role \notin Demanded(requests[r].ask)
    <2>1. Answer(r, 403)
      BY <1>3, ErrorStatuses DEF Authorize
    <2>2. requests[r].unfit
      BY <1>1, <1>2, <1>3 DEF Vouched
    <2>3. QED
      BY <1>1, <2>1, <2>2, AnsweredInv
  <1>4. CASE requests[r].role \in Demanded(requests[r].ask)
    <2>1. Answer(r, 404) \/ Answer(r, 422) \/ Step(r, "handling")
      BY <1>4, ErrorStatuses DEF Authorize, NotFound, Validate
    <2>2. ASSUME NEW status \in {404, 422}, Answer(r, status)
          PROVE  AccessInv'
      BY <1>1, <2>2, AnsweredInv
    <2>3. CASE Step(r, "handling")
      <3>1. audited[requests[r].sender] /\ requests[r].entitled
        BY <1>1, <1>2, <1>4 DEF Vouched
      <3>2. QED
        BY <1>1, <2>3, <3>1, StepOnInv DEF Phase
    <2>4. QED
      BY <2>1, <2>2, <2>3
  <1>5. QED
    BY <1>3, <1>4

\* The answers of a handler that name no cause.
LEMMA PlainAnswerInv ==
    ASSUME AccessInv, NEW r \in Request, Open(r), UNCHANGED <<accounts, issued, audited>>,
           NEW status \in {200, 204, 404, 409, 422, 500}, Answer(r, status)
    PROVE  AccessInv'
  BY AnsweredInv

LEMMA CompareCredentialsInv ==
    ASSUME AccessInv, NEW r \in Request, NEW correct \in BOOLEAN,
           CompareCredentials(r, correct)
    PROVE  AccessInv'
  <1> DEFINE s == requests[r].sender
  <1>1. Open(r) /\ UNCHANGED <<accounts, issued, audited>> /\ ~Guarded(requests[r].ask)
    BY LoginIsPublic DEF CompareCredentials, Open
  <1>2. /\ AccessTypeOK /\ Vouched(requests[r]) /\ requests[r] \in OpenRequest
        /\ accounts[s].role \in Role
    BY <1>1, OpenType DEF AccessInv, AccessTypeOK, OpenRequest
  <1>3. \/ Answer(r, 422) \/ Answer(r, 500) \/ Answer(r, 401)
        \/ requests' = [requests EXCEPT ![r].phase = "matched", ![r].role = accounts[s].role]
    BY ErrorStatuses DEF CompareCredentials
  <1>4. ASSUME NEW status \in {401, 422, 500}, Answer(r, status)
        PROVE  AccessInv'
    BY <1>1, <1>4, AnsweredInv
  <1>5. CASE requests' = [requests EXCEPT ![r].phase = "matched", ![r].role = accounts[s].role]
    <2>1. requests'[r] \in OpenRequest
      BY <1>2, <1>5 DEF AccessTypeOK, OpenRequest, Phase
    <2>2. /\ requests'[r].phase = "matched"
          /\ requests'[r].ask = requests[r].ask /\ requests'[r].sender = s
          /\ requests'[r].claim = requests[r].claim
          /\ requests'[r].role = accounts[s].role
          /\ requests'[r].entitled = requests[r].entitled
          /\ requests'[r].unfit = requests[r].unfit
          /\ requests'[r].excused = requests[r].excused
      BY <1>2, <1>5 DEF AccessTypeOK, OpenRequest
    <2>3. /\ DOMAIN requests' = Request /\ requests' = [d \in Request |-> requests'[d]]
          /\ \A d \in Request \ {r} : requests'[d] = requests[d]
      BY <1>2, <1>5 DEF AccessTypeOK
    <2>4. Vouched(requests[r])'
      BY <1>1, <1>2, <2>2 DEF Vouched, Guarded
    <2>5. QED
      BY <1>1, <2>1, <2>2, <2>3, <2>4, StepInv
  <1>6. QED
    BY <1>3, <1>4, <1>5

LEMMA StampLoginInv ==
    ASSUME AccessInv, NEW r \in Request, StampLogin(r)
    PROVE  AccessInv'
  <1>1. Open(r) /\ UNCHANGED <<accounts, issued, audited>> /\ requests[r].phase = "matched"
    BY DEF StampLogin, Open
  <1>2. requests[r].role \in Role
    BY <1>1 DEF AccessInv, Vouched
  <1>3. CASE Step(r, "stamped")
    BY <1>1, <1>2, <1>3, StepOnInv DEF Phase
  <1>4. CASE Answer(r, 500)
    BY <1>1, <1>4, PlainAnswerInv
  <1>5. QED
    BY <1>3, <1>4, ErrorStatuses DEF StampLogin

\* A token that is signed after its row was written keeps every other request
\* of its account as it is: it makes no claim invalid.
LEMMA RecordLoginInv ==
    ASSUME AccessInv, NEW r \in Request, RecordLogin(r)
    PROVE  AccessInv'
  <1> DEFINE a == requests[r].sender
  <1>1. Open(r) /\ UNCHANGED accounts /\ requests[r].phase = "stamped"
    BY DEF RecordLogin, Open
  <1>2. /\ AccessTypeOK /\ Vouched(requests[r]) /\ Watches(requests[r])
        /\ requests[r] \in OpenRequest /\ a \in Account
    BY <1>1, OpenType DEF AccessInv, OpenRequest
  <1>3. requests[r].role \in Role
    BY <1>1, <1>2 DEF Vouched
  <1>4. CASE Answer(r, 500) /\ UNCHANGED <<issued, audited>>
    BY <1>1, <1>4, PlainAnswerInv
  <1>5. CASE /\ audited' = [audited EXCEPT ![a] = TRUE]
             /\ issued' = [issued EXCEPT ![a] = @ \cup {requests[r].role}]
             /\ Answer(r, 200)
    <2>1. /\ issued' \in [Account -> SUBSET Role] /\ audited' \in [Account -> BOOLEAN]
          /\ \A b \in Account : issued[b] \subseteq issued'[b]
          /\ \A b \in Account : audited[b] => audited'[b]
          /\ audited'[a]
          /\ \A b \in Account \ {a} : issued'[b] = issued[b]
      BY <1>2, <1>3, <1>5 DEF AccessTypeOK
    <2>2. /\ requests'[r] \in OpenRequest
          /\ requests' \in [Request -> {Idle} \cup OpenRequest]
      <3>0. AccessTypeOK /\ requests[r] \in OpenRequest /\ Answer(r, 200)
        BY <1>2, <1>5
      <3>1. requests'[r] \in OpenRequest
        BY <3>0, AnsweredType
      <3>2. /\ DOMAIN requests' = Request /\ requests' = [d \in Request |-> requests'[d]]
            /\ \A d \in Request \ {r} : requests'[d] = requests[d]
        BY <1>2, <1>5 DEF Answer, AccessTypeOK
      <3>3. \A d \in Request : requests'[d] \in {Idle} \cup OpenRequest
        BY <1>2, <3>1, <3>2 DEF AccessTypeOK
      <3>4. QED
        BY <3>1, <3>2, <3>3
    <2>3. /\ requests'[r].phase = "answered" /\ requests'[r].status = 200
          /\ requests'[r].ask = requests[r].ask /\ requests'[r].sender = a
          /\ requests'[r].claim = requests[r].claim
          /\ requests'[r].entitled = requests[r].entitled
          /\ requests'[r].unfit = requests[r].unfit
          /\ requests'[r].excused = requests[r].excused
          /\ \A d \in Request \ {r} : requests'[d] = requests[d]
      BY <1>2, <1>5 DEF Answer, AccessTypeOK, OpenRequest
    <2>4. AccessTypeOK'
      BY <1>1, <1>2, <2>1, <2>2 DEF AccessTypeOK
    <2>5. TokensAreAudited'
      BY <2>1 DEF AccessInv, TokensAreAudited
    <2>6. Watches(requests[r])' /\ Vouched(requests[r])'
      BY <1>1, <1>2, <2>1, <2>3 DEF Watches, Vouched
    <2>7. ASSUME NEW d \in Request, d # r, Open(d)'
          PROVE  Watches(requests[d])' /\ Vouched(requests[d])'
      <3>1. requests'[d] = requests[d] /\ Open(d)
        BY <2>3, <2>7 DEF Open
      <3>2. Watches(requests[d]) /\ Vouched(requests[d]) /\ requests[d].sender \in Account
        BY <1>2, <3>1, OpenType DEF AccessInv, OpenRequest
      <3>3. Watches(requests[d])'
        BY <1>1, <2>1, <3>1, <3>2 DEF Watches
      <3>4. Vouched(requests[d])'
        BY <2>1, <3>1, <3>2 DEF Vouched
      <3>5. QED
        BY <3>3, <3>4
    <2>8. QED
      BY <2>4, <2>5, <2>6, <2>7 DEF AccessInv
  <1>6. QED
    BY <1>4, <1>5, ErrorStatuses DEF RecordLogin

LEMMA HandleInv ==
    ASSUME AccessInv, NEW r \in Request, HandleLogout(r) \/ Handle(r)
    PROVE  AccessInv'
  <1>1. Open(r) /\ UNCHANGED <<accounts, issued, audited>>
    BY DEF HandleLogout, Handle, Open
  <1>2. \E status \in {200, 204, 404, 409, 422, 500} : Answer(r, status)
    BY ErrorStatuses DEF HandleLogout, Handle
  <1>3. QED
    BY <1>1, <1>2, PlainAnswerInv

\* A request that comes in is watched from the start.
LEMMA SendInv ==
    ASSUME AccessInv, NEW r \in Request, NEW a \in Account, NEW ask \in Asks,
           NEW claim \in GivenRole \cup {NoToken, Secret}, Send(r, a, ask, claim)
    PROVE  AccessInv'
  <1> DEFINE fresh == [phase |-> "arrived", ask |-> ask, sender |-> a, claim |-> claim,
                       role |-> "NOBODY", left |-> Authentications(ask), status |-> 0,
                       entitled |-> FALSE, unfit |-> FALSE, excused |-> FALSE]
  <1>1. AccessTypeOK
    BY DEF AccessInv
  <1>2. fresh \in OpenRequest
    BY DEF OpenRequest, Phase, Authentications
  <1>3. PICK new : new = Watched(fresh, accounts[a], issued[a])
    OBVIOUS
  <1>4. /\ new \in OpenRequest
        /\ new.phase = "arrived" /\ new.ask = ask /\ new.sender = a /\ new.claim = claim
        /\ new.status = 0
        /\ new.entitled = (FALSE \/ Entitles(accounts[a], ask))
        /\ new.unfit = (FALSE \/ Excludes(accounts[a], ask))
        /\ new.excused = (FALSE \/ ~accounts[a].active \/ claim \notin issued[a])
    <2>1. accounts[a] \in [role : Role, active : BOOLEAN]
      BY <1>1 DEF AccessTypeOK
    <2>2. /\ fresh.phase = "arrived" /\ fresh.ask = ask /\ fresh.sender = a
          /\ fresh.claim = claim /\ fresh.status = 0
          /\ fresh.entitled = FALSE /\ fresh.unfit = FALSE /\ fresh.excused = FALSE
      OBVIOUS
    <2> HIDE DEF fresh
    <2>3. QED
      BY <1>2, <1>3, <2>1, <2>2, WatchedFacts
  <1>5. requests' = [requests EXCEPT ![r] = new]
    BY <1>3 DEF Send
  <1>6. UNCHANGED <<accounts, issued, audited>>
    BY DEF Send
  <1> HIDE DEF fresh
  <1>7. AccessTypeOK'
    BY <1>1, <1>4, <1>5, <1>6 DEF AccessTypeOK
  <1>8. requests'[r] = new /\ \A d \in Request \ {r} : requests'[d] = requests[d]
    BY <1>1, <1>5 DEF AccessTypeOK
  <1>9. Watches(requests[r])' /\ Vouched(requests[r])'
    <2>1. Watches(requests[r])'
      BY <1>4, <1>6, <1>8 DEF Watches
    <2>2. Vouched(requests[r])'
      BY <1>4, <1>8 DEF Vouched
    <2>3. QED
      BY <2>1, <2>2
  <1>10. ASSUME NEW d \in Request, d # r, Open(d)'
         PROVE  Watches(requests[d])' /\ Vouched(requests[d])'
    <2>1. Watches(requests[d]) /\ Vouched(requests[d])
      BY <1>8, <1>10 DEF AccessInv, Open
    <2>2. QED
      BY <1>6, <1>8, <1>10, <2>1 DEF Watches, Vouched
  <1>11. TokensAreAudited'
    BY <1>6 DEF AccessInv, TokensAreAudited
  <1>12. QED
    BY <1>7, <1>9, <1>10, <1>11 DEF AccessInv

LEMMA FinishInv ==
    ASSUME AccessInv, NEW r \in Request, Finish(r)
    PROVE  AccessInv'
  <1>1. AccessTypeOK'
    BY DEF AccessInv, AccessTypeOK, Finish
  <1>2. ASSUME NEW d \in Request, Open(d)'
        PROVE  Watches(requests[d])' /\ Vouched(requests[d])'
    <2>1. requests'[d] = requests[d] /\ UNCHANGED <<accounts, issued, audited>>
      BY <1>2, IdleIsNotOpen DEF AccessInv, AccessTypeOK, Finish, Open
    <2>2. Watches(requests[d]) /\ Vouched(requests[d])
      BY <1>2, <2>1 DEF AccessInv, Open
    <2>3. QED
      BY <2>1, <2>2 DEF Watches, Vouched
  <1>3. QED
    BY <1>1, <1>2 DEF AccessInv, TokensAreAudited, Finish

LEMMA AccessInitInv == AccessInit => AccessInv
  <1>1. SUFFICES ASSUME AccessInit PROVE AccessInv
    OBVIOUS
  <1>2. AccessTypeOK
    <2>1. accounts \in [Account -> [role : Role, active : BOOLEAN]]
      BY <1>1, RolesAssumption DEF AccessInit
    <2>2. requests \in [Request -> {Idle} \cup OpenRequest]
      BY <1>1 DEF AccessInit
    <2>3. issued \in [Account -> SUBSET Role] /\ audited \in [Account -> BOOLEAN]
      BY <1>1 DEF AccessInit
    <2>4. QED
      BY <2>1, <2>2, <2>3 DEF AccessTypeOK
  <1>3. \A r \in Request : ~Open(r)
    BY <1>1, IdleIsNotOpen DEF AccessInit, Open
  <1>4. TokensAreAudited
    BY <1>1 DEF AccessInit, TokensAreAudited
  <1>5. QED
    BY <1>2, <1>3, <1>4 DEF AccessInv

\* Whoever edits accounts, or the passing of time.
LEMMA SurroundingsInv ==
    ASSUME AccessInv, NEW a \in Account,
           \/ UpsertUser(a)
           \/ \E role \in GivenRole, active \in BOOLEAN : EditAccount(a, role, active)
           \/ \E claim \in GivenRole : Expire(a, claim)
    PROVE  AccessInv'
  <1>1. AccessTypeOK
    BY DEF AccessInv
  <1>2. CASE UpsertUser(a)
    BY <1>1, <1>2, WatchInv, RolesAssumption DEF UpsertUser, AccessTypeOK
  <1>3. ASSUME NEW role \in GivenRole, NEW active \in BOOLEAN, EditAccount(a, role, active)
        PROVE  AccessInv'
    BY <1>1, <1>3, WatchInv, RolesAssumption DEF EditAccount, AccessTypeOK
  <1>4. ASSUME NEW claim \in GivenRole, Expire(a, claim)
        PROVE  AccessInv'
    BY <1>1, <1>4, WatchInv DEF Expire, AccessTypeOK
  <1>5. QED
    BY <1>2, <1>3, <1>4

LEMMA AccessNextInv == AccessInv /\ [AccessNext]_accessVars => AccessInv'
  <1>1. SUFFICES ASSUME AccessInv, [AccessNext]_accessVars PROVE AccessInv'
    OBVIOUS
  <1>2. CASE UNCHANGED accessVars
    BY <1>1, <1>2
       DEF accessVars, AccessInv, AccessTypeOK, TokensAreAudited, Open, Watches, Vouched
  <1>3. CASE AccessNext
    BY <1>1, <1>3, SurroundingsInv, SendInv, TurnAwayInv, DispatchInv, AuthenticateInv,
       AuthenticationFailsInv, AuthorizeInv, CompareCredentialsInv, StampLoginInv,
       RecordLoginInv, HandleInv, FinishInv
       DEF AccessNext
  <1>4. QED
    BY <1>1, <1>2, <1>3

LEMMA AccessInvariance == AccessInit /\ [][AccessNext]_accessVars => []AccessInv
  BY AccessInitInv, AccessNextInv, PTL

\* No handler behind authentication runs on rights its account has not had, or
\* without a login on the record (authenticate.ts:10-49, auth.service.ts:20-66).
THEOREM RightsAreCurrentHolds ==
    AccessInit /\ [][AccessNext]_accessVars => []RightsAreCurrent
  <1>1. AccessInv => RightsAreCurrent
    BY DEF AccessInv, Vouched, RightsAreCurrent
  <1>2. QED
    BY <1>1, AccessInvariance, PTL

\* No request with a token is refused without a cause: what a 401 and a 403
\* say of the account was true at some time on its way (authenticate.ts:10-49,
\* authorize.ts:5-19).
THEOREM DenialsHaveCauseHolds ==
    AccessInit /\ [][AccessNext]_accessVars => []DenialsHaveCause
  <1>1. AccessInv => DenialsHaveCause
    BY DEF AccessInv, Vouched, DenialsHaveCause
  <1>2. QED
    BY <1>1, AccessInvariance, PTL

-----------------------------------------------------------------------------
(* AuditTrail: the log and its reader.                                     *)

\* Rows have identifiers that were given out, and are committed once.
RowsOK ==
    /\ nextId \in 1 .. MaxRows + 1
    /\ DOMAIN trail \subseteq 1 .. nextId - 1
    /\ DOMAIN writing \subseteq 1 .. nextId - 1
    /\ DOMAIN trail \cap DOMAIN writing = {}

WalkOK ==
    /\ walk \in [reading : BOOLEAN, filter : Actor \cup {AnyActor}, cursor : Nat,
                 seen : [RowId -> Nat]]
    /\ begun \subseteq RowId

\* While the reader goes on, what it has seen is at or above its cursor, and
\* what it was to see and has not is still to be found below.
TrailInv ==
    /\ RowsOK
    /\ WalkOK
    /\ \A id \in RowId : walk.seen[id] <= 1
    /\ walk.reading => \A id \in RowId : walk.seen[id] > 0 => id >= walk.cursor
    /\ \A id \in begun :
         \/ walk.seen[id] = 1
         \/ walk.reading /\ id \in Below(walk.cursor, walk.filter)

-----------------------------------------------------------------------------
(* Pages.                                                                  *)

LEMMA RowIdIsNat == RowId \subseteq Nat
  BY TrailAssumption DEF RowId

\* A set of identifiers is finite, and has a greatest and a least one.
LEMMA RowsFinite ==
    ASSUME NEW rows \in SUBSET RowId
    PROVE  IsFiniteSet(rows) /\ Cardinality(rows) \in Nat
  <1>1. IsFiniteSet(RowId)
    BY TrailAssumption, FS_Interval DEF RowId
  <1>2. QED
    BY <1>1, FS_Subset, FS_CardinalityType

LEMMA LeastRow ==
    ASSUME NEW rows \in SUBSET RowId, rows # {}
    PROVE  Min(rows) \in rows /\ \A id \in rows : Min(rows) <= id
  <1>1. rows \subseteq Nat
    BY TrailAssumption DEF RowId
  <1>2. \E x \in rows : \A y \in rows : ~(<<y, x>> \in OpToRel(<, Nat))
    BY <1>1, NatLessThanWellFounded, WFMin
  <1>3. PICK x \in rows : \A y \in rows : ~(y < x)
    BY <1>1, <1>2 DEF OpToRel
  <1>4. \A y \in rows : x <= y
    BY <1>1, <1>3
  <1>5. QED
    BY <1>4 DEF Min

LEMMA GreatestRow ==
    ASSUME NEW rows \in SUBSET RowId, rows # {}
    PROVE  \E id \in rows : \A other \in rows : other <= id
  <1> DEFINE Mirror == {n \in RowId : MaxRows + 1 - n \in rows}
  <1>1. \A n \in RowId : MaxRows + 1 - n \in RowId
    BY TrailAssumption DEF RowId
  <1>2. \A id \in rows : MaxRows + 1 - id \in Mirror
    BY <1>1, TrailAssumption DEF RowId
  <1>3. Mirror # {} /\ Mirror \in SUBSET RowId
    BY <1>2
  <1>4. PICK n \in Mirror : \A m \in Mirror : n <= m
    BY <1>3, LeastRow
  <1>5. \A other \in rows : other <= MaxRows + 1 - n
    BY <1>2, <1>4, TrailAssumption DEF RowId
  <1>6. QED
    BY <1>4, <1>5

\* Among fewer newer rows there are fewer newer ones.
LEMMA NewerIsFewer ==
    ASSUME NEW rows \in SUBSET RowId, NEW a \in RowId, NEW b \in RowId, a <= b
    PROVE  Cardinality({id \in rows : id > b}) <= Cardinality({id \in rows : id > a})
  <1>0. a \in Nat /\ b \in Nat /\ \A id \in rows : id \in Nat
    BY RowIdIsNat
  <1>1. {id \in rows : id > b} \subseteq {id \in rows : id > a}
    <2>1. \A id \in rows : id > b => id > a
      BY <1>0
    <2>2. QED
      BY <2>1
  <1>2. IsFiniteSet({id \in rows : id > a})
    BY RowsFinite
  <1>3. QED
    BY <1>1, <1>2, FS_Subset

LEMMA PageIsBounded ==
    ASSUME NEW rows \in SUBSET RowId
    PROVE  /\ Page(rows) \in SUBSET rows
           /\ Cardinality(Page(rows)) <= Limit
  <1>1. Page(rows) \in SUBSET rows /\ Page(rows) \in SUBSET RowId
    BY DEF Page
  <1>2. CASE Page(rows) = {}
    BY <1>1, <1>2, FS_EmptySet, TrailAssumption
  <1>3. CASE Page(rows) # {}
    <2> DEFINE last == Min(Page(rows))
               newer == {id \in rows : id > last}
    <2>1. last \in Page(rows) /\ \A id \in Page(rows) : last <= id
      BY <1>1, <1>3, LeastRow
    <2>2. Cardinality(newer) < Limit
      BY <2>1 DEF Page
    <2>3. IsFiniteSet(newer) /\ Cardinality(newer) \in Nat
      BY RowsFinite
    <2>4. Cardinality(newer \cup {last}) <= Cardinality(newer) + 1 /\ IsFiniteSet(newer \cup {last})
      BY <2>3, FS_AddElement
    <2>5. Page(rows) \subseteq newer \cup {last}
      BY <1>1, <2>1, TrailAssumption DEF RowId
    <2>6. Cardinality(Page(rows)) <= Cardinality(newer \cup {last})
      BY <2>4, <2>5, FS_Subset
    <2>7. Cardinality(Page(rows)) \in Nat /\ Cardinality(newer \cup {last}) \in Nat
      BY <1>1, <2>4, RowsFinite, FS_CardinalityType
    <2>8. QED
      BY <1>1, <2>2, <2>3, <2>4, <2>6, <2>7, TrailAssumption
  <1>4. QED
    BY <1>2, <1>3

\* A full page has every row down to its last one.
LEMMA FullPage ==
    ASSUME NEW rows \in SUBSET RowId, Cardinality(Page(rows)) = Limit
    PROVE  /\ Min(Page(rows)) \in Page(rows)
           /\ \A id \in Page(rows) : id >= Min(Page(rows))
           /\ \A id \in rows : id >= Min(Page(rows)) => id \in Page(rows)
  <1>1. Page(rows) \in SUBSET rows /\ Page(rows) \in SUBSET RowId
    BY PageIsBounded
  <1>2. Page(rows) # {}
    BY FS_EmptySet, TrailAssumption
  <1>3. Min(Page(rows)) \in Page(rows) /\ \A id \in Page(rows) : Min(Page(rows)) <= id
    BY <1>1, <1>2, LeastRow
  <1>4. ASSUME NEW id \in rows, id >= Min(Page(rows))
        PROVE  id \in Page(rows)
    <2>1. Cardinality({other \in rows : other > id})
            <= Cardinality({other \in rows : other > Min(Page(rows))})
      BY <1>1, <1>3, <1>4, NewerIsFewer, TrailAssumption DEF RowId
    <2>2. Cardinality({other \in rows : other > Min(Page(rows))}) < Limit
      BY <1>3 DEF Page
    <2>3. /\ Cardinality({other \in rows : other > id}) \in Nat
          /\ Cardinality({other \in rows : other > Min(Page(rows))}) \in Nat
      BY RowsFinite
    <2>4. Cardinality({other \in rows : other > id}) < Limit
      BY <2>1, <2>2, <2>3, TrailAssumption
    <2>5. QED
      BY <2>4 DEF Page
  <1>5. QED
    BY <1>1, <1>3, <1>4, TrailAssumption DEF RowId

\* A page that is not full has every row there is.
LEMMA ShortPage ==
    ASSUME NEW rows \in SUBSET RowId, Cardinality(Page(rows)) # Limit
    PROVE  Page(rows) = rows
  <1>1. Page(rows) \in SUBSET rows /\ Page(rows) \in SUBSET RowId
    BY PageIsBounded
  <1>2. SUFFICES ASSUME rows \ Page(rows) # {} PROVE FALSE
    BY <1>1
  <1>3. PICK next \in rows \ Page(rows) : \A other \in rows \ Page(rows) : other <= next
    BY <1>2, GreatestRow
  <1> DEFINE newer == {other \in rows : other > next}
  <1>4. newer \subseteq Page(rows)
    <2>1. \A id \in rows : id \in Nat
      BY RowIdIsNat
    <2>2. QED
      BY <1>3, <2>1
  <1>5. ~(Cardinality(newer) < Limit)
    BY <1>3 DEF Page
  <1>6. Cardinality(newer) <= Cardinality(Page(rows))
    BY <1>1, <1>4, RowsFinite, FS_Subset
  <1>7. Cardinality(Page(rows)) <= Limit
    BY PageIsBounded
  <1>8. Cardinality(newer) \in Nat /\ Cardinality(Page(rows)) \in Nat
    BY <1>1, RowsFinite
  <1>9. QED
    BY <1>5, <1>6, <1>7, <1>8, TrailAssumption

-----------------------------------------------------------------------------
(* Every step of the log and its reader keeps TrailInv.                    *)

LEMMA TrailInitInv == TrailInit => TrailInv
  BY TrailAssumption
     DEF TrailInit, TrailInv, RowsOK, WalkOK, NoWalk, Below, RowId

\* Rows that are added leave those that are there as they are.
LEMMA RowsAddedInv ==
    ASSUME TrailInv, RowsOK', UNCHANGED <<walk, begun>>,
           DOMAIN trail \subseteq DOMAIN trail',
           \A id \in DOMAIN trail : trail'[id] = trail[id]
    PROVE  TrailInv'
  <1>1. \A cursor, filter : Below(cursor, filter) \subseteq Below(cursor, filter)'
    BY DEF Below
  <1>2. WalkOK'
    BY DEF TrailInv, WalkOK
  <1>3. QED
    BY <1>1, <1>2 DEF TrailInv

LEMMA RecordInv ==
    ASSUME TrailInv, NEW who \in Actor, Record(who)
    PROVE  TrailInv'
  <1>1. RowsOK'
    BY TrailAssumption DEF TrailInv, RowsOK, Record
  <1>2. QED
    BY <1>1, RowsAddedInv DEF Record

LEMMA CommitInv ==
    ASSUME TrailInv, NEW id \in DOMAIN writing, Commit(id)
    PROVE  TrailInv'
  <1>1. id \notin DOMAIN trail
    BY DEF TrailInv, RowsOK
  <1>2. RowsOK'
    BY TrailAssumption DEF TrailInv, RowsOK, Commit
  <1>3. QED
    BY <1>1, <1>2, RowsAddedInv DEF Commit

LEMMA StartWalkInv ==
    ASSUME TrailInv, NEW filter \in Actor \cup {AnyActor}, StartWalk(filter)
    PROVE  TrailInv'
  <1>1. /\ walk'.reading = TRUE /\ walk'.filter = filter
        /\ walk'.cursor = MaxRows + 1 /\ walk'.seen = [id \in RowId |-> 0]
        /\ begun' = Below(MaxRows + 1, filter)
    BY DEF StartWalk, NoWalk
  <1>2. walk' \in [reading : BOOLEAN, filter : Actor \cup {AnyActor}, cursor : Nat,
                   seen : [RowId -> Nat]]
    <2>1. MaxRows + 1 \in Nat /\ [id \in RowId |-> 0] \in [RowId -> Nat]
      BY TrailAssumption
    <2>2. walk' = [reading |-> TRUE, filter |-> filter, cursor |-> MaxRows + 1,
                   seen |-> [id \in RowId |-> 0]]
      BY DEF StartWalk, NoWalk
    <2>3. QED
      BY <2>1, <2>2
  <1>3. begun' \subseteq RowId /\ RowsOK'
    BY <1>1, TrailAssumption DEF TrailInv, RowsOK, Below, RowId, StartWalk
  <1>4. \A id \in begun' : id \in Below(walk.cursor, walk.filter)'
    BY <1>1 DEF Below, StartWalk
  <1>5. QED
    BY <1>1, <1>2, <1>3, <1>4 DEF TrailInv, WalkOK

\* A page holds only rows below the cursor, none of them seen before; what is
\* at or above the next cursor has then been seen.
LEMMA ReadPageInv ==
    ASSUME TrailInv, ReadPage
    PROVE  TrailInv'
  <1> DEFINE rows == Below(walk.cursor, walk.filter)
             given == Page(rows)
  <1>1. /\ walk.reading /\ RowsOK' /\ UNCHANGED <<trail, begun>>
        /\ WalkOK
    BY DEF ReadPage, TrailInv, RowsOK
  <1>2. rows \in SUBSET RowId /\ given \in SUBSET rows
    BY <1>1, TrailAssumption, PageIsBounded DEF TrailInv, RowsOK, Below, RowId
  <1>3. \A id \in given : walk.seen[id] = 0 /\ id < walk.cursor
    <2>1. SUFFICES ASSUME NEW id \in given
                   PROVE  walk.seen[id] = 0 /\ id < walk.cursor
      OBVIOUS
    <2>2. id \in RowId /\ id \in Nat /\ id < walk.cursor
      BY <1>2, RowIdIsNat DEF Below
    <2>3. walk.cursor \in Nat /\ walk.seen[id] \in Nat
      BY <1>1, <2>2 DEF WalkOK
    <2>4. walk.seen[id] > 0 => id >= walk.cursor
      BY <1>1, <2>2 DEF TrailInv
    <2>5. QED
      BY <2>2, <2>3, <2>4
  <1>4. walk' = [walk EXCEPT !.seen = Seeing(given), !.reading = (Cardinality(given) = Limit),
                             !.cursor = IF Cardinality(given) = Limit THEN Min(given) ELSE @]
    BY DEF ReadPage
  <1>5. /\ walk'.seen = Seeing(given) /\ walk'.reading = (Cardinality(given) = Limit)
        /\ walk'.cursor = IF Cardinality(given) = Limit THEN Min(given) ELSE walk.cursor
        /\ walk'.filter = walk.filter
    BY <1>1, <1>4 DEF WalkOK
  <1>6. /\ Seeing(given) \in [RowId -> Nat]
        /\ \A id \in RowId : Seeing(given)[id] =
             IF id \in given THEN walk.seen[id] + 1 ELSE walk.seen[id]
    BY <1>1 DEF WalkOK, Seeing
  <1> HIDE DEF rows, given
  <1>7. WalkOK'
    <2>1. Cardinality(given) = Limit => Min(given) \in Nat
      BY <1>2, FullPage, RowIdIsNat DEF given
    <2>2. QED
      BY <1>1, <1>4, <1>6, <2>1 DEF WalkOK
  <1>8. \A id \in RowId : walk'.seen[id] <= 1
    BY <1>1, <1>3, <1>5, <1>6 DEF TrailInv, WalkOK
  <1>9. CASE Cardinality(given) = Limit
    <2>1. /\ Min(given) \in given /\ \A id \in given : id >= Min(given)
          /\ \A id \in rows : id >= Min(given) => id \in given
      BY <1>2, <1>9, FullPage DEF given
    <2>2. \A id \in RowId : walk'.seen[id] > 0 => id >= walk'.cursor
      <3>1. SUFFICES ASSUME NEW id \in RowId, walk'.seen[id] > 0
                     PROVE  id >= Min(given)
        BY <1>5, <1>9
      <3>2. CASE id \in given
        BY <2>1, <3>2
      <3>3. CASE id \notin given
        <4>1. id >= walk.cursor
          BY <1>1, <1>5, <1>6, <3>1, <3>3 DEF TrailInv
        <4>2. Min(given) < walk.cursor
          BY <1>3, <2>1
        <4>3. walk.cursor \in Nat /\ id \in Nat /\ Min(given) \in Nat
          BY <1>1, <1>2, <2>1, RowIdIsNat DEF WalkOK
        <4>4. QED
          BY <4>1, <4>2, <4>3
      <3>4. QED
        BY <3>2, <3>3
    <2>3. ASSUME NEW id \in begun', walk'.seen[id] # 1
          PROVE  id \in Below(walk.cursor, walk.filter)'
      <3>1. id \in RowId /\ id \notin given /\ walk.seen[id] # 1
        BY <1>1, <1>2, <1>3, <1>5, <1>6, <2>3 DEF WalkOK
      <3>2. id \in rows
        BY <1>1, <2>3, <3>1 DEF TrailInv, rows
      <3>3. id < Min(given)
        <4>1. id \in Nat /\ Min(given) \in Nat
          BY <1>2, <2>1, <3>1, RowIdIsNat
        <4>2. QED
          BY <2>1, <3>1, <3>2, <4>1
      <3>4. QED
        BY <1>1, <1>5, <1>9, <3>2, <3>3 DEF Below, rows
    <2>4. QED
      BY <1>1, <1>5, <1>7, <1>8, <1>9, <2>2, <2>3 DEF TrailInv
  <1>10. CASE Cardinality(given) # Limit
    <2>1. given = rows
      BY <1>2, <1>10, ShortPage DEF given
    <2>2. ASSUME NEW id \in begun'
          PROVE  walk'.seen[id] = 1
      <3>1. id \in RowId /\ (walk.seen[id] = 1 \/ id \in rows)
        BY <1>1, <2>2 DEF TrailInv, WalkOK, rows
      <3>2. QED
        BY <1>1, <1>3, <1>5, <1>6, <2>1, <3>1 DEF WalkOK
    <2>3. QED
      BY <1>1, <1>5, <1>7, <1>8, <1>10, <2>2 DEF TrailInv
  <1>11. QED
    BY <1>9, <1>10

LEMMA TrailNextInv == TrailInv /\ [TrailNext]_trailVars => TrailInv'
  <1>1. SUFFICES ASSUME TrailInv, [TrailNext]_trailVars PROVE TrailInv'
    OBVIOUS
  <1>2. CASE UNCHANGED trailVars
    BY <1>1, <1>2, RowsAddedInv DEF trailVars, TrailInv, RowsOK
  <1>3. CASE TrailNext
    BY <1>1, <1>3, RecordInv, CommitInv, StartWalkInv, ReadPageInv DEF TrailNext
  <1>4. QED
    BY <1>1, <1>2, <1>3

\* Rows that are committed late or out of order, and pages read meanwhile, never
\* show the reader a row twice or hide one that was there when the reading
\* began, for pages of any length (audit.router.ts:20-60).
THEOREM WalkSeesEachRowOnceHolds ==
    TrailInit /\ [][TrailNext]_trailVars => []WalkSeesEachRowOnce
  <1>1. TrailInv => WalkSeesEachRowOnce
    BY DEF TrailInv, WalkSeesEachRowOnce
  <1>2. QED
    BY <1>1, TrailInitInv, TrailNextInv, PTL

-----------------------------------------------------------------------------
(* Server: the process and its ticks.                                      *)

\* What the one process knows of the actor: what it has cached is a row that
\* is there, a job runs only for an actor that is cached, and whoever is still
\* looking began before any job had run.
ServerInv ==
    /\ actor \in BOOLEAN /\ seeded \in BOOLEAN /\ proven \in BOOLEAN
    /\ ticks \in [Ticks -> {"none", "looking", "running"}]
    /\ actor => seeded
    /\ proven => actor
    /\ \A t \in Ticks : ticks[t] = "running" => actor
    /\ \A t \in Ticks : ticks[t] = "looking" => t \in early

LEMMA ServerInitInv == ServerInit => ServerInv
  BY DEF ServerInit, ServerInv, NoTicks

\* The end of the process takes its ticks and its cache along.
LEMMA EndInv ==
    ASSUME ServerInv, NEW why, End(why)
    PROVE  ServerInv'
  BY DEF ServerInv, End, NoTicks

LEMMA StartTickInv ==
    ASSUME ServerInv, NEW t \in Ticks, StartTick(t)
    PROVE  ServerInv'
  BY DEF ServerInv, StartTick

\* A lookup that finds no row has no job beside it: the row is never deleted.
LEMMA LookUpInv ==
    ASSUME ServerInv, NEW t \in Ticks, LookUp(t)
    PROVE  ServerInv'
  <1>1. CASE ~database /\ End("lookup")
    BY <1>1, EndInv
  <1>2. CASE ~(~database /\ End("lookup"))
    BY <1>2 DEF ServerInv, LookUp
  <1>3. QED
    BY <1>1, <1>2

LEMMA FinishTickInv ==
    ASSUME ServerInv, NEW t \in Ticks, FinishTick(t)
    PROVE  ServerInv'
  BY DEF ServerInv, FinishTick

LEMMA ServerNextInv == ServerInv /\ [ServerNext]_serverVars => ServerInv'
  <1>1. SUFFICES ASSUME ServerInv, [ServerNext]_serverVars PROVE ServerInv'
    OBVIOUS
  <1>2. CASE Blip \/ Start \/ Accept \/ Serve \/ Signal \/ Drain
    BY <1>1, <1>2 DEF ServerInv, jobVars, Blip, Start, Accept, Serve, Signal, Drain
  <1>3. CASE Seed
    BY <1>1, <1>3 DEF ServerInv, jobVars, Seed
  <1>4. CASE Boot
    <2>1. CASE \E why : End(why)
      BY <1>1, <2>1, EndInv
    <2>2. CASE UNCHANGED <<seeded, jobVars>>
      BY <1>1, <2>2 DEF ServerInv, jobVars
    <2>3. QED
      BY <1>4, <2>1, <2>2 DEF Boot
  <1>5. CASE \E t \in Ticks : StartTick(t)
    BY <1>1, <1>5, StartTickInv
  <1>6. CASE \E t \in Ticks : LookUp(t)
    BY <1>1, <1>6, LookUpInv
  <1>7. CASE \E t \in Ticks : FinishTick(t)
    BY <1>1, <1>7, FinishTickInv
  <1>8. CASE Exit \/ ForceExit
    BY <1>1, <1>8, EndInv DEF Exit, ForceExit
  <1>9. CASE UNCHANGED serverVars
    BY <1>1, <1>9 DEF serverVars, ServerInv
  <1>10. QED
    BY <1>1, <1>2, <1>3, <1>4, <1>5, <1>6, <1>7, <1>8, <1>9 DEF ServerNext

LEMMA ServerInvariance == ServerInit /\ [][ServerNext]_serverVars => []ServerInv
  BY ServerInitInv, ServerNextInv, PTL

\* Only a lookup begun before any job of the process had run can end it with
\* an unhandled rejection, however many ticks are under way (server.ts:59-97,
\* system-actor.ts:14-27).
THEOREM OnlyFirstLookupsCrashHolds ==
    ServerInit /\ [][ServerNext]_serverVars => OnlyFirstLookupsCrash
  <1> DEFINE Crashes == life' = "exited" /\ life \in Working /\ cause' = "lookup"
             First == \E t \in early : ticks[t] = "looking"
  <1>1. ASSUME ServerInv, [ServerNext]_serverVars
        PROVE  [Crashes => First]_serverVars
    <2>1. SUFFICES ASSUME Crashes PROVE First
      OBVIOUS
    <2>2. life # "exited" /\ life # "booting"
      BY <2>1 DEF Working
    <2>3. ~(Exit \/ ForceExit)
      BY <2>1 DEF Exit, ForceExit, End
    <2>4. ~(\/ Blip \/ Seed \/ Start \/ Boot \/ Accept \/ Serve \/ Signal \/ Drain
            \/ UNCHANGED serverVars)
      BY <2>1, <2>2
         DEF Blip, Seed, Start, Boot, Accept, Serve, Signal, Drain, serverVars
    <2>5. ~(\E t \in Ticks : StartTick(t)) /\ ~(\E t \in Ticks : FinishTick(t))
      BY <2>1, <2>2 DEF StartTick, FinishTick
    <2>6. PICK t \in Ticks : LookUp(t)
      BY <1>1, <2>3, <2>4, <2>5 DEF ServerNext
    <2>7. QED
      BY <1>1, <2>6 DEF ServerInv, LookUp
  <1>2. QED
    BY <1>1, ServerInvariance, PTL DEF OnlyFirstLookupsCrash

-----------------------------------------------------------------------------
(* Console: what a page shows.                                             *)

\* The filters there are, among them the one a filter is applied as, and what a
\* page may show.
Choice == {Default, "active"} \cup UNION {Filters[r] : r \in Resource}
Shown == Choice \cup {NoData, EmptyBody}

HooksOK ==
    /\ chosen \in [Resource -> Choice]
    /\ fetch \in [Resource -> {"none", "waiting", "reading"}]
    /\ data \in [Resource -> Shown]
    /\ error \in [Resource -> BOOLEAN]
    /\ loading \in [Resource -> BOOLEAN]

ConsoleInv == HooksOK /\ SettledMeansCurrent

LEMMA AppliedType == \A choice \in Choice : Applied(choice) \in Choice
  BY DEF Applied, Choice

\* A page that has not been rendered, or only just, is loading everything.
LEMMA LoadingInv ==
    ASSUME Unmounted \/ JustMounted
    PROVE  ConsoleInv'
  BY DEF Unmounted, JustMounted, ConsoleInv, HooksOK, SettledMeansCurrent, Choice, Shown

LEMMA ConsoleInitInv == ConsoleInit => ConsoleInv
  BY DEF ConsoleInit, ConsoleInv, HooksOK, SettledMeansCurrent, Choice, Shown

\* The request under way goes with the filter it was made for.
LEMMA AskInv ==
    ASSUME ConsoleInv, NEW r \in Resource, NEW choice \in Filters[r], Ask(r, choice)
    PROVE  ConsoleInv'
  <1>1. CASE Unmounted
    BY <1>1, LoadingInv
  <1>2. CASE ~Unmounted
    <2>1. choice \in Choice
      BY DEF Choice
    <2>2. HooksOK'
      BY <1>2, <2>1 DEF Ask, Break, ConsoleInv, HooksOK, Shown
    <2>3. SettledMeansCurrent'
      BY <1>2 DEF Ask, Break, ConsoleInv, HooksOK, SettledMeansCurrent, Mounted
    <2>4. QED
      BY <2>2, <2>3 DEF ConsoleInv
  <1>3. QED
    BY <1>1, <1>2

LEMMA HeadersInv ==
    ASSUME ConsoleInv, NEW r \in Resource, Headers(r)
    PROVE  ConsoleInv'
  BY DEF Headers, ConsoleInv, HooksOK, SettledMeansCurrent, Mounted

\* An answer is taken under the filter that is still chosen; an error says so.
LEMMA ReceiveInv ==
    ASSUME ConsoleInv, NEW r \in Resource, NEW body \in Shown, NEW failed \in BOOLEAN,
           Mounted, Receive(r, body), error' = [error EXCEPT ![r] = failed],
           ~failed => body \in {Applied(chosen[r]), EmptyBody}
    PROVE  ConsoleInv'
  <1>1. HooksOK'
    BY DEF Receive, ConsoleInv, HooksOK
  <1>2. SettledMeansCurrent'
    BY DEF Receive, ConsoleInv, HooksOK, SettledMeansCurrent, Mounted
  <1>3. QED
    BY <1>1, <1>2 DEF ConsoleInv

LEMMA ConsoleNextInv == ConsoleInv /\ [ConsoleNext]_consoleVars => ConsoleInv'
  <1>1. SUFFICES ASSUME ConsoleInv, [ConsoleNext]_consoleVars PROVE ConsoleInv'
    OBVIOUS
  <1>2. CASE Visit \/ SignIn \/ Navigate \/ Denied \/ SignOut
    BY <1>2, LoadingInv DEF Visit, SignIn, Navigate, Denied, SignOut, ToLogin
  <1>3. ASSUME NEW known \in BOOLEAN, Settled(known)
        PROVE  ConsoleInv'
    <2>1. CASE ready
      BY <1>1, <1>3, <2>1
         DEF Settled, hooks, ConsoleInv, HooksOK, SettledMeansCurrent, Mounted
    <2>2. CASE ~ready
      BY <1>3, <2>2, LoadingInv DEF Settled
    <2>3. QED
      BY <2>1, <2>2
  <1>4. CASE \E r \in Resource : \E choice \in Filters[r] : Ask(r, choice)
    BY <1>1, <1>4, AskInv
  <1>5. CASE \E r \in Resource : Headers(r)
    BY <1>1, <1>5, HeadersInv
  <1>6. ASSUME NEW r \in Resource, Body(r)
        PROVE  ConsoleInv'
    <2>1. chosen[r] \in Choice
      BY <1>1 DEF ConsoleInv, HooksOK
    <2>2. Applied(chosen[r]) \in Shown
      BY <2>1, AppliedType DEF Shown
    <2>3. QED
      BY <1>1, <1>6, <2>2, ReceiveInv DEF Body
  <1>7. ASSUME NEW r \in Resource, CutOff(r)
        PROVE  ConsoleInv'
    <2>1. CASE Break
      BY <2>1, LoadingInv DEF Break
    <2>2. CASE ~Break
      <3>1. EmptyBody \in Shown
        BY DEF Shown
      <3>2. QED
        BY <1>1, <1>7, <2>2, <3>1, ReceiveInv DEF CutOff
    <2>3. QED
      BY <2>1, <2>2
  <1>8. ASSUME NEW r \in Resource, Fail(r)
        PROVE  ConsoleInv'
    <2>1. NoData \in Shown
      BY DEF Shown
    <2>2. QED
      BY <1>1, <1>8, <2>1, ReceiveInv DEF Fail
  <1>9. CASE UNCHANGED consoleVars
    BY <1>1, <1>9 DEF consoleVars, ConsoleInv, HooksOK, SettledMeansCurrent, Mounted
  <1>10. QED
    BY <1>1, <1>2, <1>3, <1>4, <1>5, <1>6, <1>7, <1>8, <1>9 DEF ConsoleNext

\* For any resources and any filters, a page that has settled shows the answer
\* to the filter chosen now (useResource.ts:23-56).
THEOREM SettledMeansCurrentHolds ==
    ConsoleInit /\ [][ConsoleNext]_consoleVars => []SettledMeansCurrent
  BY ConsoleInitInv, ConsoleNextInv, PTL DEF ConsoleInv

-----------------------------------------------------------------------------
(* Remediation: the breaker and its calls.                                 *)

\* Beside the three invariants of the run: the breaker has heard every failure it counts since the last success.
CountIsEarned == breaker.failures <= streak

IInv ==
    /\ TypeOK
    /\ ClosedBelowThreshold
    /\ HalfOpenIsBeingTried
    /\ CountIsEarned

-----------------------------------------------------------------------------
(* The methods of the breaker.                                             *)

\* The values the options give counts and ages to start from.
LEMMA Bounds ==
    /\ 0 \in 0 .. FailureThreshold
    /\ 0 \in 0 .. SuccessesToClose - 1
    /\ 0 \in 0 .. ResetTimeout /\ ResetTimeout \in 0 .. ResetTimeout
    /\ 0 \in 0 .. MaxAttempts /\ 1 \in 0 .. MaxAttempts
  BY OptionsAssumption

\* Letting a call through changes neither count of failures nor the time the
\* circuit was opened, and never closes or opens the circuit
\* (circuit-breaker.ts:48-54).
LEMMA AdmitFacts ==
    ASSUME NEW b \in Breaker
    PROVE  /\ Admit(b) \in Breaker
           /\ Admit(b).failures = b.failures
           /\ Admit(b).state = "CLOSED" => b.state = "CLOSED"
           /\ Admit(b).state # "OPEN"
  <1>1. Admit(b) \in Breaker
    BY Bounds DEF Admit, Breaker
  <1>2. QED
    BY <1>1 DEF Admit, Breaker

\* A success clears the count, opens nothing, and settles a trial when one
\* success is enough (circuit-breaker.ts:66-76).
LEMMA OnSuccessFacts ==
    ASSUME NEW b \in Breaker
    PROVE  /\ OnSuccess(b) \in Breaker
           /\ OnSuccess(b).failures = 0
           /\ OnSuccess(b).state = "OPEN" => b.state = "OPEN"
           /\ OnSuccess(b).state = "HALF_OPEN" /\ SuccessesToClose = 1 => FALSE
  <1>1. b.successes + 1 < SuccessesToClose =>
          b.successes + 1 \in 0 .. SuccessesToClose - 1 /\ SuccessesToClose # 1
    BY OptionsAssumption DEF Breaker
  <1>2. OnSuccess(b) \in Breaker
    BY <1>1, Bounds DEF OnSuccess, Breaker
  <1>3. QED
    BY <1>1, <1>2 DEF OnSuccess, Breaker

LEMMA TripFacts ==
    ASSUME NEW b \in Breaker, NEW age \in 0 .. ResetTimeout
    PROVE  /\ Trip(b, age) \in Breaker
           /\ Trip(b, age).state = "OPEN"
           /\ Trip(b, age).failures = b.failures
  BY Bounds DEF Trip, Breaker

LEMMA CountFailureFacts ==
    ASSUME NEW b \in Breaker
    PROVE  /\ CountFailure(b) \in Breaker
           /\ CountFailure(b).state = b.state
           /\ CountFailure(b).failures <= b.failures + 1
           /\ b.failures + 1 < FailureThreshold =>
                CountFailure(b).failures = b.failures + 1
  <1>1. /\ Counted(b.failures) \in 0 .. FailureThreshold
        /\ Counted(b.failures) <= b.failures + 1
        /\ b.failures + 1 < FailureThreshold => Counted(b.failures) = b.failures + 1
    BY OptionsAssumption DEF Counted, Breaker
  <1>2. CountFailure(b) \in Breaker
    BY <1>1, Bounds DEF CountFailure, Breaker
  <1>3. CountFailure(b).state = b.state /\ CountFailure(b).failures = Counted(b.failures)
    BY DEF CountFailure, Breaker
  <1>4. QED
    BY <1>1, <1>2, <1>3

\* A failure leaves no circuit half open, leaves a closed one closed only below
\* the threshold, counts one at most, and opens a closed circuit only when it
\* is the one that reaches the threshold (circuit-breaker.ts:78-92).
LEMMA OnFailureFacts ==
    ASSUME NEW b \in Breaker, NEW age \in 0 .. ResetTimeout
    PROVE  /\ OnFailure(b, age) \in Breaker
           /\ OnFailure(b, age).state # "HALF_OPEN"
           /\ OnFailure(b, age).state = "CLOSED" =>
                OnFailure(b, age).failures < FailureThreshold
           /\ OnFailure(b, age).failures <= b.failures + 1
           /\ b.state = "CLOSED" /\ OnFailure(b, age).state = "OPEN" =>
                b.failures + 1 >= FailureThreshold
  <1>0. b.failures \in Nat /\ FailureThreshold \in Nat
    BY OptionsAssumption DEF Breaker
  <1>1. CASE b.state = "HALF_OPEN"
    BY <1>0, <1>1, TripFacts DEF OnFailure
  <1>2. CASE b.state # "HALF_OPEN" /\ b.failures + 1 >= FailureThreshold
    BY <1>0, <1>2, TripFacts, CountFailureFacts DEF OnFailure
  <1>3. CASE b.state # "HALF_OPEN" /\ ~(b.failures + 1 >= FailureThreshold)
    BY <1>0, <1>3, CountFailureFacts DEF OnFailure, Breaker
  <1>4. QED
    BY <1>1, <1>2, <1>3

-----------------------------------------------------------------------------
(* Every step keeps IInv.                                                  *)

LEMMA NewCallType ==
    ASSUME NEW pc \in {"idle", "attempt", "fallback", "auditFailure"},
           NEW attempts \in {0, 1},
           NEW scoped \in BOOLEAN, NEW autoResolve \in BOOLEAN
    PROVE  /\ NewCall(pc, attempts, scoped, autoResolve) \in Call
           /\ NewCall(pc, attempts, scoped, autoResolve).pc = pc
  BY Bounds DEF NewCall, Call

LEMMA NoCallType == NoCall \in Call /\ NoCall.pc = "idle"
  BY NewCallType DEF NoCall

LEMMA InitInv == Init => IInv
  BY Bounds, NoCallType, OptionsAssumption
     DEF Init, IInv, TypeOK, ClosedBelowThreshold, HalfOpenIsBeingTried, CountIsEarned,
         NewBreaker, Breaker

\* A step that leaves breaker and streak alone, and takes no call out of its
\* attempt, keeps what the invariant says of them.
LEMMA BreakerAlone ==
    ASSUME IInv, UNCHANGED <<breaker, streak>>, TypeOK',
           \A c \in Calls : InFlight(c) => InFlight(c)'
    PROVE  IInv'
  BY DEF IInv, ClosedBelowThreshold, HalfOpenIsBeingTried, CountIsEarned

LEMMA BeginInv ==
    ASSUME IInv, NEW c \in Calls, NEW scoped \in BOOLEAN, NEW autoResolve \in BOOLEAN,
           Begin(c, scoped, autoResolve)
    PROVE  IInv'
  <1>1. breaker \in Breaker /\ call \in [Calls -> Call] /\ ~InFlight(c)
    BY DEF IInv, TypeOK, Begin, InFlight
  <1>2. CASE Refused(c, scoped, autoResolve) /\ UNCHANGED breaker
    <2>1. TypeOK'
      BY <1>1, <1>2, NewCallType DEF IInv, TypeOK, Begin, Refused
    <2>2. \A d \in Calls : InFlight(d) => InFlight(d)'
      BY <1>1, <1>2 DEF Refused, InFlight
    <2>3. QED
      BY <1>2, <2>1, <2>2, BreakerAlone DEF Begin
  <1>3. CASE LetThrough(c, scoped, autoResolve)
    <2>1. breaker' = Admit(breaker) /\ UNCHANGED <<service, streak>>
      BY <1>3 DEF LetThrough, Begin
    <2>2. TypeOK'
      BY <1>1, <1>3, <2>1, AdmitFacts, NewCallType DEF IInv, TypeOK, LetThrough
    <2>3. ClosedBelowThreshold' /\ CountIsEarned'
      BY <1>1, <2>1, AdmitFacts DEF IInv, ClosedBelowThreshold, CountIsEarned
    <2>4. InFlight(c)'
      BY <1>1, <1>3, NewCallType DEF LetThrough, InFlight
    <2>5. QED
      BY <2>2, <2>3, <2>4 DEF IInv, HalfOpenIsBeingTried
  <1>4. QED
    BY <1>2, <1>3 DEF Begin

LEMMA SettleSuccessInv ==
    ASSUME IInv, NEW c \in Calls, SettleSuccess(c)
    PROVE  IInv'
  <1>1. breaker \in Breaker /\ breaker' = OnSuccess(breaker) /\ streak' = 0
    BY DEF IInv, TypeOK, SettleSuccess
  <1>2. TypeOK'
    <2>1. call' \in [Calls -> Call]
      <3>1. [call[c] EXCEPT !.pc = "auditSuccess", !.age = 0, !.attempts = 0] \in Call
        BY Bounds DEF IInv, TypeOK, Call
      <3>2. call' = [call EXCEPT ![c] = [call[c] EXCEPT !.pc = "auditSuccess", !.age = 0, !.attempts = 0]]
        BY Zenon DEF SettleSuccess
      <3>3. QED
        BY <3>1, <3>2 DEF IInv, TypeOK
    <2>2. QED
      BY <1>1, <2>1, OnSuccessFacts, Bounds DEF IInv, TypeOK, SettleSuccess
  <1>3. QED
    BY <1>1, <1>2, OnSuccessFacts, OptionsAssumption
       DEF IInv, ClosedBelowThreshold, HalfOpenIsBeingTried, CountIsEarned

LEMMA SettleFailureInv ==
    ASSUME IInv, NEW c \in Calls, SettleFailure(c)
    PROVE  IInv'
  <1>1. /\ breaker \in Breaker /\ breaker' = OnFailure(breaker, call[c].age)
        /\ call[c].age \in 0 .. ResetTimeout
    BY DEF IInv, TypeOK, SettleFailure, Call
  <1>2. breaker' \in Breaker
    BY <1>1, OnFailureFacts
  <1>3. TypeOK'
    BY <1>2, OptionsAssumption DEF IInv, TypeOK, SettleFailure, AfterFailure, Call
  <1>4. ClosedBelowThreshold' /\ HalfOpenIsBeingTried'
    BY <1>1, OnFailureFacts DEF ClosedBelowThreshold, HalfOpenIsBeingTried
  <1>5. CountIsEarned'
    BY <1>1, <1>2, OnFailureFacts, OptionsAssumption
       DEF IInv, TypeOK, CountIsEarned, SettleFailure, Breaker
  <1>6. QED
    BY <1>3, <1>4, <1>5 DEF IInv

\* The rest of an execution leaves the breaker alone.
LEMMA ContinueInv ==
    ASSUME IInv, NEW c \in Calls, Continue(c)
    PROVE  IInv'
  <1>0. call \in [Calls -> Call]
    BY DEF IInv, TypeOK
  <1>1. CASE RestartService(c)
    <2>1. TypeOK'
      BY <1>1 DEF IInv, TypeOK, RestartService, ServiceStatus, Call
    <2>2. \A d \in Calls : InFlight(d) => InFlight(d)'
      BY <1>0, <1>1 DEF RestartService, InFlight, Call
    <2>3. QED
      BY <1>1, <2>1, <2>2, BreakerAlone DEF RestartService
  <1>2. CASE SettleSuccess(c)
    BY <1>2, SettleSuccessInv
  <1>3. CASE RetryAttempt(c)
    <2>1. TypeOK'
      BY <1>3, OptionsAssumption DEF IInv, TypeOK, RetryAttempt, Call
    <2>2. \A d \in Calls : InFlight(d) => InFlight(d)'
      BY <1>0, <1>3 DEF RetryAttempt, InFlight, Call
    <2>3. QED
      BY <1>3, <2>1, <2>2, BreakerAlone DEF RetryAttempt
  <1>4. CASE SettleFailure(c)
    BY <1>4, SettleFailureInv
  <1>5. CASE RecordSuccess(c)
    <2>1. TypeOK'
      BY <1>5, NoCallType
         DEF IInv, TypeOK, RecordSuccess, AfterFailure, Goes, Ends, Call
    <2>2. \A d \in Calls : InFlight(d) => InFlight(d)'
      BY <1>0, <1>5 DEF RecordSuccess, Goes, Ends, InFlight
    <2>3. QED
      BY <1>5, <2>1, <2>2, BreakerAlone DEF RecordSuccess
  <1>6. CASE ResolveIncident(c)
    <2>1. TypeOK'
      BY <1>6, NoCallType
         DEF IInv, TypeOK, ResolveIncident, AfterFailure, Goes, Ends, Call
    <2>2. \A d \in Calls : InFlight(d) => InFlight(d)'
      BY <1>0, <1>6 DEF ResolveIncident, Goes, Ends, InFlight
    <2>3. QED
      BY <1>6, <2>1, <2>2, BreakerAlone DEF ResolveIncident
  <1>7. CASE FallBack(c)
    <2>1. TypeOK'
      BY <1>7 DEF IInv, TypeOK, FallBack, Goes, ServiceStatus, Call
    <2>2. \A d \in Calls : InFlight(d) => InFlight(d)'
      BY <1>0, <1>7 DEF FallBack, Goes, InFlight
    <2>3. QED
      BY <1>7, <2>1, <2>2, BreakerAlone DEF FallBack
  <1>8. CASE RecordFailure(c)
    <2>1. TypeOK'
      BY <1>8, NoCallType DEF IInv, TypeOK, RecordFailure, Ends
    <2>2. \A d \in Calls : InFlight(d) => InFlight(d)'
      BY <1>0, <1>8 DEF RecordFailure, Ends, InFlight
    <2>3. QED
      BY <1>8, <2>1, <2>2, BreakerAlone DEF RecordFailure
  <1>9. QED
    BY <1>1, <1>2, <1>3, <1>4, <1>5, <1>6, <1>7, <1>8 DEF Continue

\* A new process starts with a new breaker and no calls.
LEMMA RestartInv ==
    ASSUME IInv, Restart
    PROVE  IInv'
  BY Bounds, NoCallType, OptionsAssumption
     DEF IInv, TypeOK, ClosedBelowThreshold, HalfOpenIsBeingTried, CountIsEarned, Restart,
         NewBreaker, Breaker

LEMMA TickInv ==
    ASSUME IInv, Tick
    PROVE  IInv'
  <1>1. breaker \in Breaker /\ call \in [Calls -> Call]
    BY DEF IInv, TypeOK
  <1>2. /\ breaker' \in Breaker
        /\ breaker'.state = breaker.state /\ breaker'.failures = breaker.failures
    BY <1>1, OptionsAssumption DEF Tick, Older, Breaker
  <1>3. /\ call' \in [Calls -> Call]
        /\ \A d \in Calls : InFlight(d)' = InFlight(d)
    BY <1>1, OptionsAssumption DEF Tick, Older, InFlight, Call
  <1>4. QED
    BY <1>2, <1>3
       DEF IInv, TypeOK, ClosedBelowThreshold, HalfOpenIsBeingTried, CountIsEarned, Tick

LEMMA NextInv == IInv /\ [Next]_vars => IInv'
  <1>1. SUFFICES ASSUME IInv, [Next]_vars PROVE IInv'
    OBVIOUS
  <1>2. CASE \E c \in Calls : \E scoped, autoResolve \in BOOLEAN :
               Begin(c, scoped, autoResolve)
    BY <1>1, <1>2, BeginInv
  <1>3. CASE \E c \in Calls : Continue(c)
    BY <1>1, <1>3, ContinueInv
  <1>4. CASE Restart
    BY <1>1, <1>4, RestartInv
  <1>5. CASE Tick
    BY <1>1, <1>5, TickInv
  <1>6. CASE UNCHANGED vars
    BY <1>1, <1>6
       DEF vars, IInv, TypeOK, ClosedBelowThreshold, HalfOpenIsBeingTried, CountIsEarned,
           InFlight
  <1>7. QED
    BY <1>1, <1>2, <1>3, <1>4, <1>5, <1>6 DEF Next

LEMMA Invariance == Spec => []IInv
  BY InitInv, NextInv, PTL DEF Spec

-----------------------------------------------------------------------------
(* The theorems.                                                           *)

\* The breaker, the calls and the service keep their types, and no call makes
\* more than MaxAttempts attempts (retry.ts:38-50).
THEOREM TypeCorrect == Spec => []TypeOK
  BY Invariance, PTL DEF IInv

\* No interleaving of results leaves a closed circuit with the count of an
\* outage on it (circuit-breaker.ts:66-92).
THEOREM ClosedBelowThresholdHolds == Spec => []ClosedBelowThreshold
  BY Invariance, PTL DEF IInv

\* A half-open circuit whose first success closes it is never left without a
\* call that will settle it (circuit-breaker.ts:52 and 78-86).
THEOREM HalfOpenIsBeingTriedHolds == Spec => []HalfOpenIsBeingTried
  BY Invariance, PTL DEF IInv

\* Only the last of FailureThreshold failures in a row opens a closed circuit
\* (circuit-breaker.ts:4 and 87-91).
THEOREM TripsOnlyOnStreakHolds == Spec => TripsOnlyOnStreak
  <1> DEFINE Trips == breaker.state = "CLOSED" /\ breaker'.state = "OPEN" =>
                        streak' = FailureThreshold
  <1>1. ASSUME IInv, [Next]_vars
        PROVE  [Trips]_vars
    <2>0. breaker \in Breaker /\ streak \in 0 .. FailureThreshold
      BY <1>1 DEF IInv, TypeOK
    <2>1. SUFFICES ASSUME breaker.state = "CLOSED", breaker'.state = "OPEN"
                   PROVE  streak' = FailureThreshold
      OBVIOUS
    <2>2. PICK c \in Calls : SettleFailure(c)
      <3>1. ~(UNCHANGED vars) /\ ~Restart /\ ~Tick
        BY <2>0, <2>1 DEF vars, Restart, NewBreaker, Tick, Breaker
      <3>2. ASSUME NEW c \in Calls, NEW scoped \in BOOLEAN, NEW autoResolve \in BOOLEAN,
                   Begin(c, scoped, autoResolve)
            PROVE  FALSE
        BY <2>0, <2>1, <3>2, AdmitFacts DEF Begin, LetThrough
      <3>3. ASSUME NEW c \in Calls, Continue(c), ~SettleFailure(c)
            PROVE  FALSE
        BY <2>0, <2>1, <3>3, OnSuccessFacts
           DEF Continue, RestartService, SettleSuccess, RetryAttempt, RecordSuccess,
               ResolveIncident, FallBack, RecordFailure
      <3>4. QED
        BY <1>1, <3>1, <3>2, <3>3 DEF Next
    <2>3. call[c].age \in 0 .. ResetTimeout
      BY <1>1 DEF IInv, TypeOK, Call
    <2>4. breaker.failures + 1 >= FailureThreshold
      BY <2>0, <2>1, <2>2, <2>3, OnFailureFacts DEF SettleFailure
    <2>5. QED
      BY <1>1, <2>0, <2>2, <2>4, OptionsAssumption
         DEF IInv, CountIsEarned, SettleFailure, Breaker
  <1>2. QED
    BY <1>1, Invariance, PTL DEF Spec, TripsOnlyOnStreak

=============================================================================
