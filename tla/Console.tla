------------------------------ MODULE Console ------------------------------
(***************************************************************************)
(* The web console in one browser: the session it asks the API about on    *)
(* every page, signing in and out, and the resources a page loads, each    *)
(* with the filter chosen for it, a request that is aborted when another   *)
(* takes its place, and the data, the error and the loading mark it shows. *)
(*                                                                         *)
(* The API answers anything at any time: the session's account may be      *)
(* refused, an answer may be an error, and a good one may be cut off.      *)
(***************************************************************************)
EXTENDS Naturals, FiniteSets

CONSTANTS
    Resource,     \* what the page loads; one of them is the health rollup
    Filters,      \* the filters to choose from for each
    Default,      \* the one chosen when the page opens
    NoData,       \* data not there
    EmptyBody     \* the object {} that stands for a body that could not be read

VARIABLES
    page,         \* "login", "desk" or "broken", the last when rendering threw
    signedIn,     \* whether the browser holds the session's cookie
    ready,        \* the session is settled and the page's content rendered
    asking,       \* /auth/me is under way
    chosen,       \* the filter chosen for each resource
    fetch,        \* its request: "none", "waiting", or "reading" an answer that is OK
    data, error, loading  \* what its hook gives the page

consoleVars == <<page, signedIn, ready, asking, chosen, fetch, data, error, loading>>
hooks == <<chosen, fetch, data, error, loading>>

Health == "health"
Mounted == page = "desk" /\ ready

\* The query a filter becomes, as the API applies it: a filter left empty is
\* left out, and isActive=false arrives as a text that is not empty, which
\* the schema turns into true.
Applied(choice) == IF choice = "inactive" THEN "active" ELSE choice

\* No resource is loaded: the page is not rendered.
Unmounted ==
    /\ chosen' = [r \in Resource |-> Default]
    /\ fetch' = [r \in Resource |-> "none"]
    /\ data' = [r \in Resource |-> NoData]
    /\ error' = [r \in Resource |-> FALSE]
    /\ loading' = [r \in Resource |-> TRUE]

\* Every resource of a page that has just been rendered is asked for.
JustMounted ==
    /\ chosen' = [r \in Resource |-> Default]
    /\ fetch' = [r \in Resource |-> "waiting"]
    /\ data' = [r \in Resource |-> NoData]
    /\ error' = [r \in Resource |-> FALSE]
    /\ loading' = [r \in Resource |-> TRUE]

ConsoleInit ==
    /\ page = "login" /\ signedIn \in BOOLEAN
    /\ ready = FALSE /\ asking = FALSE
    /\ chosen = [r \in Resource |-> Default]
    /\ fetch = [r \in Resource |-> "none"]
    /\ data = [r \in Resource |-> NoData]
    /\ error = [r \in Resource |-> FALSE]
    /\ loading = [r \in Resource |-> TRUE]

-----------------------------------------------------------------------------

\* A dashboard page is opened afresh: nothing is rendered before the session
\* is known.
Visit ==
    /\ page' = "desk" /\ ready' = FALSE /\ asking' = TRUE
    /\ Unmounted
    /\ UNCHANGED signedIn

\* The login form: a success sets the cookie and opens the overview.
SignIn ==
    /\ page = "login"
    /\ signedIn' = TRUE
    /\ page' = "desk" /\ ready' = FALSE /\ asking' = TRUE
    /\ Unmounted

\* Another dashboard page: the session is asked about again, while the new
\* page is already rendered.
Navigate ==
    /\ Mounted
    /\ asking' = TRUE
    /\ JustMounted
    /\ UNCHANGED <<page, signedIn, ready>>

ToLogin ==
    /\ page' = "login" /\ ready' = FALSE /\ asking' = FALSE
    /\ Unmounted

\* 401 or 403 sends the user to the login page, also when it is the API's
\* database that failed.
Denied ==
    /\ page = "desk" /\ asking
    /\ ToLogin
    /\ UNCHANGED signedIn

\* The session's user, or an answer that says nothing of the session: the
\* page is rendered either way.
Settled(known) ==
    /\ page = "desk" /\ asking
    /\ known => signedIn
    /\ ready' = TRUE /\ asking' = FALSE
    /\ IF ready THEN UNCHANGED hooks ELSE JustMounted
    /\ UNCHANGED <<page, signedIn>>

\* Signing out goes to the login page whatever comes of the request; the
\* cookie can only be cleared by its answer.
SignOut ==
    /\ Mounted
    /\ signedIn' \in {FALSE, signedIn}
    /\ ToLogin

-----------------------------------------------------------------------------

\* The health panel looks into the checks of its data, and {} has none:
\* rendering throws, and nothing catches it.
Unreadable(r) == r = Health /\ fetch[r] = "reading"
Break == page' = "broken" /\ ready' = FALSE /\ asking' = FALSE /\ Unmounted

\* The mutated form: the request under way is not aborted, and its answer is
\* taken when it comes, maybe before that of the new one.
AskWithoutAbort(r, choice) ==
    /\ Mounted
    /\ chosen' = [chosen EXCEPT ![r] = choice]
    /\ fetch' = [fetch EXCEPT ![r] = "waiting"]
    /\ error' = [error EXCEPT ![r] = FALSE]
    /\ \/ loading' = [loading EXCEPT ![r] = TRUE] /\ UNCHANGED data
       \/ /\ fetch[r] = "reading"
          /\ loading' = [loading EXCEPT ![r] = FALSE]
          /\ data' = [data EXCEPT ![r] = Applied(chosen[r])]
    /\ UNCHANGED <<page, signedIn, ready, asking>>

\* A filter is chosen, or the same one asked for again: the request under way
\* is aborted.  One that waits for its answer is dropped; the body of one that
\* is being read cannot be read any more, which makes it {}, and nothing keeps
\* that from becoming the data.
Ask(r, choice) ==
    /\ Mounted
    /\ IF Unreadable(r)
       THEN Break
       ELSE /\ chosen' = [chosen EXCEPT ![r] = choice]
            /\ fetch' = [fetch EXCEPT ![r] = "waiting"]
            /\ error' = [error EXCEPT ![r] = FALSE]
            /\ loading' = [loading EXCEPT ![r] = TRUE]
            /\ data' = IF fetch[r] = "reading" THEN [data EXCEPT ![r] = EmptyBody] ELSE data
            /\ UNCHANGED <<page, ready, asking>>
    /\ UNCHANGED signedIn

\* The status of an answer that is OK; its body follows.
Headers(r) ==
    /\ Mounted /\ fetch[r] = "waiting"
    /\ fetch' = [fetch EXCEPT ![r] = "reading"]
    /\ UNCHANGED <<page, signedIn, ready, asking, chosen, data, error, loading>>

Receive(r, body) ==
    /\ fetch' = [fetch EXCEPT ![r] = "none"]
    /\ data' = [data EXCEPT ![r] = body]
    /\ loading' = [loading EXCEPT ![r] = FALSE]
    /\ UNCHANGED <<page, signedIn, ready, asking, chosen>>

Body(r) ==
    /\ Mounted /\ fetch[r] = "reading"
    /\ Receive(r, Applied(chosen[r]))
    /\ error' = [error EXCEPT ![r] = FALSE]

\* The connection breaks, or what came is no JSON: {} again, and no error.
CutOff(r) ==
    /\ Mounted /\ fetch[r] = "reading"
    /\ IF Unreadable(r)
       THEN Break /\ UNCHANGED signedIn
       ELSE Receive(r, EmptyBody) /\ error' = [error EXCEPT ![r] = FALSE]

\* The API is unreachable, or answers with an error.
Fail(r) ==
    /\ Mounted /\ fetch[r] = "waiting"
    /\ Receive(r, NoData)
    /\ error' = [error EXCEPT ![r] = TRUE]

ConsoleNext ==
    \/ Visit \/ SignIn \/ Navigate \/ Denied \/ SignOut
    \/ \E known \in BOOLEAN : Settled(known)
    \/ \E r \in Resource : \E choice \in Filters[r] : Ask(r, choice)
    \/ \E r \in Resource : Headers(r)
    \/ \E r \in Resource : Body(r)
    \/ \E r \in Resource : CutOff(r)
    \/ \E r \in Resource : Fail(r)

-----------------------------------------------------------------------------

\* What a page shows when it has stopped loading and names no error is the
\* API's answer to the filter that is chosen now, however fast filters were
\* changed and answers overtook one another; or it is nothing at all, because
\* an answer was cut off.
SettledMeansCurrent ==
    \A r \in Resource :
        Mounted /\ ~loading[r] /\ ~error[r] => data[r] \in {Applied(chosen[r]), EmptyBody}

=============================================================================
