------------------------------- MODULE Access -------------------------------
(***************************************************************************)
(* The way of a request through the API: the rate limiters, the router,    *)
(* authentication, authorization, validation and the handler, with the     *)
(* handlers of login and logout in full.                                   *)
(*                                                                         *)
(* An access token holds the role its account had at login, cannot be      *)
(* revoked and lives until it expires; authentication therefore reads the  *)
(* account again, and the rights of a request are those of the row.  Every *)
(* await is a step of its own: the account may be edited, the token may    *)
(* expire and the database may fail in between.                            *)
(***************************************************************************)
EXTENDS Routes, FiniteSets

CONSTANTS
    Account,      \* the users
    SeedRole,     \* the role the seed script gives each of them
    GivenRole,    \* bound: the roles an account is given
    Request,      \* the requests under way at one time
    Asks,         \* what they ask for: methods and paths
    NoToken       \* the credentials of a request without any

\* Accounts have roles of the users table's column.
ASSUME RolesAssumption ==
    /\ SeedRole \in [Account -> Role]
    /\ GivenRole \subseteq Role

VARIABLES
    accounts,     \* role and activity of each account, the users table
    issued,       \* the tokens of each account that have not expired, by the role they claim
    cookie,       \* the token in each user's browser
    audited,      \* whether each account has a LOGIN row in the audit log
    requests      \* the requests and where they are

accessVars == <<accounts, issued, cookie, audited, requests>>

Secret == "SECRET"  \* the bearer secret shared with Alertmanager
Login == [method |-> "POST", path |-> <<"auth", "login">>]
Logout == [method |-> "POST", path |-> <<"auth", "logout">>]

Idle == [phase |-> "idle"]
Open(r) == requests[r].phase # "idle"
Guarded(request) == Demanded(request) \subseteq Role

\* The router of logins authenticates only what comes after them.  That is a
\* fact of the table, evaluated with it.
ASSUME LoginIsPublic == ~Guarded(Login)

\* What has been true at some time since the request came in: its account was
\* active with a role the route demands; the account was active with another
\* role; it was inactive, or the token had expired.
Entitles(account, ask) == account.active /\ account.role \in Demanded(ask)
Excludes(account, ask) == account.role \notin Demanded(ask)
Watched(request, account, tokens) ==
    [request EXCEPT !.entitled = @ \/ Entitles(account, request.ask),
                    !.unfit = @ \/ Excludes(account, request.ask),
                    !.excused = @ \/ ~account.active \/ request.claim \notin tokens]

Watch(a) ==
    requests' = [r \in Request |->
        IF Open(r) /\ requests[r].sender = a
        THEN Watched(requests[r], accounts'[a], issued'[a])
        ELSE requests[r]]

-----------------------------------------------------------------------------

AccessInit ==
    /\ accounts = [a \in Account |-> [role |-> SeedRole[a], active |-> TRUE]]
    /\ issued = [a \in Account |-> {}]
    /\ cookie = [a \in Account |-> NoToken]
    /\ audited = [a \in Account |-> FALSE]
    /\ requests = [r \in Request |-> Idle]

\* The seed script creates an account or sets it back.
UpsertUser(a) ==
    /\ accounts' = [accounts EXCEPT ![a] = [role |-> SeedRole[a], active |-> TRUE]]
    /\ UNCHANGED <<issued, cookie, audited>>
    /\ Watch(a)

\* External: nothing in the API edits an account, an administrator does it in
\* the database.
EditAccount(a, role, active) ==
    /\ accounts' = [accounts EXCEPT ![a] = [role |-> role, active |-> active]]
    /\ UNCHANGED <<issued, cookie, audited>>
    /\ Watch(a)

Expire(a, claim) ==
    /\ claim \in issued[a]
    /\ issued' = [issued EXCEPT ![a] = @ \ {claim}]
    /\ UNCHANGED <<accounts, cookie, audited>>
    /\ Watch(a)

-----------------------------------------------------------------------------

\* A request arrives, with a token of its sender, the secret, or nothing.
Send(r, a, ask, claim) ==
    /\ ~Open(r)
    /\ claim \in issued[a] \cup {NoToken, Secret}
    /\ requests' = [requests EXCEPT ![r] =
           Watched([phase |-> "arrived", ask |-> ask, sender |-> a, claim |-> claim,
                    role |-> "NOBODY", left |-> Authentications(ask), status |-> 0,
                    entitled |-> FALSE, unfit |-> FALSE, excused |-> FALSE],
                   accounts[a], issued[a])]
    /\ UNCHANGED <<accounts, issued, cookie, audited>>

Step(r, phase) == requests' = [requests EXCEPT ![r].phase = phase]
Answer(r, status) == requests' = [requests EXCEPT ![r].phase = "answered", ![r].status = status]
Excuse(r, status) ==
    requests' = [requests EXCEPT ![r].phase = "answered", ![r].status = status, ![r].excused = TRUE]

\* The errors the application throws itself.
AppError == [unauthorized |-> 401, forbidden |-> 403, missing |-> 404, conflict |-> 409]

\* An error that is neither the application's nor the validator's is answered
\* as 500, among them the body parser's: a body that is no JSON, or too long.
ErrorStatus(kind) ==
    IF kind = "zod" THEN 422 ELSE IF kind \in DOMAIN AppError THEN AppError[kind] ELSE 500

\* Over a limit, the one for all requests or the one for logins; or the store
\* that counts them does not answer.
Limited == {429, ErrorStatus("store")}

TurnAway(r) ==
    /\ requests[r].phase = "arrived"
    /\ \E status \in Limited \cup {ErrorStatus("parser")} : Answer(r, status)
    /\ UNCHANGED <<accounts, issued, cookie, audited>>

NotFound(r) == Answer(r, 404)

\* The router: a public route goes to its handler, the webhook wants its
\* secret, and everything else is authenticated first.
Dispatch(r) ==
    LET request == requests[r]  demanded == Demanded(request.ask)
    IN  /\ request.phase = "arrived"
        /\ \/ /\ demanded = Anyone
              /\ IF RouteOf(request.ask) = 0 THEN NotFound(r) ELSE Step(r, "handling")
           \/ /\ demanded = Alertmanager
              /\ IF request.claim = Secret THEN Step(r, "handling")
                 ELSE Answer(r, ErrorStatus("unauthorized"))
           \/ /\ Guarded(request.ask)
              /\ Step(r, "authenticating")
        /\ UNCHANGED <<accounts, issued, cookie, audited>>

\* The mutated form: the role is the one the token claims.
AuthenticateByToken(r) ==
    LET request == requests[r]  account == accounts[request.sender]
    IN  /\ request.phase = "authenticating"
        /\ IF request.claim \in issued[request.sender] /\ account.active
           THEN requests' = [requests EXCEPT
                    ![r].role = request.claim, ![r].left = @ - 1,
                    ![r].phase = IF request.left = 1 THEN "authenticated" ELSE @]
           ELSE Answer(r, ErrorStatus("unauthorized"))
        /\ UNCHANGED <<accounts, issued, cookie, audited>>

\* The token is verified and the account read: missing, expired, or of an
\* inactive account, and the request is refused.  The role is the row's.
Authenticate(r) ==
    LET request == requests[r]  account == accounts[request.sender]
    IN  /\ request.phase = "authenticating"
        /\ IF request.claim \in issued[request.sender] /\ account.active
           THEN requests' = [requests EXCEPT
                    ![r].role = account.role, ![r].left = @ - 1,
                    ![r].phase = IF request.left = 1 THEN "authenticated" ELSE @]
           ELSE Answer(r, ErrorStatus("unauthorized"))
        /\ UNCHANGED <<accounts, issued, cookie, audited>>

\* The read fails: whatever was thrown becomes "invalid or expired token".
AuthenticationFails(r) ==
    /\ requests[r].phase = "authenticating"
    /\ requests[r].claim \in issued[requests[r].sender]
    /\ Excuse(r, ErrorStatus("unauthorized"))
    /\ UNCHANGED <<accounts, issued, cookie, audited>>

\* The parts of the request a schema describes are parsed, or the request is
\* refused.
Validate(r) == Step(r, "handling") \/ Answer(r, ErrorStatus("zod"))

\* Authorization, then validation, then the handler.
Authorize(r) ==
    LET request == requests[r]
    IN  /\ request.phase = "authenticated"
        /\ \/ /\ request.role \notin Demanded(request.ask)
              /\ Answer(r, ErrorStatus("forbidden"))
           \/ /\ request.role \in Demanded(request.ask)
              /\ IF RouteOf(request.ask) = 0 THEN NotFound(r) ELSE Validate(r)
        /\ UNCHANGED <<accounts, issued, cookie, audited>>

-----------------------------------------------------------------------------

\* Login: the body is parsed, the account read and the password compared.
CompareCredentials(r, correct) ==
    LET account == accounts[requests[r].sender]
    IN  /\ requests[r].phase = "handling" /\ requests[r].ask = Login
        /\ \/ Answer(r, ErrorStatus("zod"))
           \/ Answer(r, ErrorStatus("database"))
           \/ /\ account.active /\ correct
              /\ requests' = [requests EXCEPT ![r].phase = "matched", ![r].role = account.role]
           \/ ~(account.active /\ correct) /\ Answer(r, ErrorStatus("unauthorized"))
        /\ UNCHANGED <<accounts, issued, cookie, audited>>

\* ... the time of the login is noted ...
StampLogin(r) ==
    /\ requests[r].phase = "matched"
    /\ Step(r, "stamped") \/ Answer(r, ErrorStatus("database"))
    /\ UNCHANGED <<accounts, issued, cookie, audited>>

\* ... the LOGIN row is written, and only then the token signed, with the
\* role read at the start, and put in the cookie.
RecordLogin(r) ==
    LET request == requests[r]  a == request.sender
    IN  /\ request.phase = "stamped"
        /\ \/ /\ Answer(r, ErrorStatus("database"))
              /\ UNCHANGED <<issued, cookie, audited>>
           \/ /\ audited' = [audited EXCEPT ![a] = TRUE]
              /\ issued' = [issued EXCEPT ![a] = @ \cup {request.role}]
              /\ cookie' = [cookie EXCEPT ![a] = request.role]
              /\ Answer(r, 200)
        /\ UNCHANGED accounts

\* Logout writes its row first: when that fails the cookie stays.  The token
\* itself stays valid either way.
HandleLogout(r) ==
    /\ requests[r].phase = "handling" /\ requests[r].ask = Logout
    /\ \/ /\ Answer(r, ErrorStatus("database"))
          /\ UNCHANGED cookie
       \/ /\ cookie' = [cookie EXCEPT ![requests[r].sender] = NoToken]
          /\ Answer(r, 204)
    /\ UNCHANGED <<accounts, issued, audited>>

\* Any other handler; what it does is another module's subject.
Handle(r) ==
    /\ requests[r].phase = "handling" /\ requests[r].ask \notin {Login, Logout}
    /\ \E kind \in {"missing", "conflict", "zod", "other"} :
           Answer(r, ErrorStatus(kind)) \/ Answer(r, 200)
    /\ UNCHANGED <<accounts, issued, cookie, audited>>

Finish(r) ==
    /\ requests[r].phase = "answered"
    /\ requests' = [requests EXCEPT ![r] = Idle]
    /\ UNCHANGED <<accounts, issued, cookie, audited>>

AccessNext ==
    \/ \E a \in Account : UpsertUser(a)
    \/ \E a \in Account, role \in GivenRole, active \in BOOLEAN : EditAccount(a, role, active)
    \/ \E a \in Account, claim \in GivenRole : Expire(a, claim)
    \/ \E r \in Request, a \in Account, ask \in Asks, claim \in GivenRole \cup {NoToken, Secret} :
           Send(r, a, ask, claim)
    \/ \E r \in Request : TurnAway(r)
    \/ \E r \in Request : Dispatch(r)
    \/ \E r \in Request : Authenticate(r)
    \/ \E r \in Request : AuthenticationFails(r)
    \/ \E r \in Request : Authorize(r)
    \/ \E r \in Request, correct \in BOOLEAN : CompareCredentials(r, correct)
    \/ \E r \in Request : StampLogin(r)
    \/ \E r \in Request : RecordLogin(r)
    \/ \E r \in Request : HandleLogout(r)
    \/ \E r \in Request : Handle(r)
    \/ \E r \in Request : Finish(r)

-----------------------------------------------------------------------------

\* A handler behind authentication runs only for an account that was active,
\* with a role its route demands, at some time since the request came in: a
\* demotion or a dismissal leaves no token that opens anything for longer than
\* the request that is already under way.  And nobody gets through whose logins
\* all failed to leave a row in the audit log.
RightsAreCurrent ==
    \A r \in Request :
        Open(r) /\ requests[r].phase = "handling" /\ Guarded(requests[r].ask)
            => requests[r].entitled /\ audited[requests[r].sender]

\* A request that came with a token is refused for a cause: 401 only when,
\* while it was under way, the account was inactive, the token not valid or
\* the database unreachable; 403 only when the account had another role.
DenialsHaveCause ==
    \A r \in Request :
        Open(r) /\ Guarded(requests[r].ask)
            => /\ requests[r].status = 401 => requests[r].excused
               /\ requests[r].status = 403 => requests[r].unfit

=============================================================================
