----------------------------- MODULE Remediation -----------------------------
(***************************************************************************)
(* One automated remediation action (RESTART_SERVICE), run for one service *)
(* by any number of callers at once: RemediationEngine.execute around an   *)
(* executor, with its retries, its circuit breaker and its fallback.       *)
(*                                                                         *)
(* The engine keeps one breaker per action and process; breakers do not    *)
(* touch each other, so one is modelled.  The breaker is only memory: its  *)
(* methods run between two awaits and are atomic, but the call it guards   *)
(* is not, and the result comes back in whatever state other calls have    *)
(* left it in.                                                             *)
(*                                                                         *)
(* The code compares only "now - openedAt" with the reset timeout, and     *)
(* sets openedAt to the time at which the failed call began.  So the model *)
(* keeps ages instead of times, capped at the timeout: how long ago each   *)
(* call began and how long ago the openedAt of the breaker was.            *)
(* consecutiveFailures is only compared with the threshold, so it stops    *)
(* counting there.                                                         *)
(***************************************************************************)
EXTENDS Naturals

CONSTANTS
    Calls,              \* executions that can be in flight at once
    FailureThreshold,   \* options.circuitBreaker.failureThreshold
    ResetTimeout,       \* options.circuitBreaker.resetTimeoutMs, in ticks
    SuccessesToClose,   \* options.circuitBreaker.halfOpenSuccessesToClose
    MaxAttempts         \* options.retry.maxAttempts

ASSUME OptionsAssumption ==
    /\ FailureThreshold \in Nat \ {0} /\ ResetTimeout \in Nat
    /\ SuccessesToClose \in Nat \ {0} /\ MaxAttempts \in Nat \ {0}

VARIABLES
    breaker,    \* the circuit breaker of the action
    call,       \* where each execution is
    service,    \* the status of the service the calls are about
    streak      \* history: calls settled as failed since one last succeeded

vars == <<breaker, call, service, streak>>

-----------------------------------------------------------------------------

ServiceStatus == {"HEALTHY", "DEGRADED", "CRITICAL", "MAINTENANCE", "UNKNOWN"}

Breaker == [ state     : {"CLOSED", "OPEN", "HALF_OPEN"},
             failures  : 0 .. FailureThreshold,
             successes : 0 .. SuccessesToClose - 1,
             age       : 0 .. ResetTimeout ]

\* scoped: the request names the service.  autoResolve: it names an incident
\* and asks to resolve it.
Call == [ pc          : {"idle", "attempt", "restarted", "auditSuccess",
                         "resolve", "fallback", "auditFailure"},
          age         : 0 .. ResetTimeout,
          attempts    : 0 .. MaxAttempts,
          scoped      : BOOLEAN,
          autoResolve : BOOLEAN ]

NewBreaker == [state |-> "CLOSED", failures |-> 0, successes |-> 0,
               age |-> ResetTimeout]

NewCall(pc, attempts, scoped, autoResolve) ==
    [pc |-> pc, age |-> 0, attempts |-> attempts, scoped |-> scoped,
     autoResolve |-> autoResolve]

NoCall == NewCall("idle", 0, FALSE, FALSE)

TypeOK ==
    /\ breaker \in Breaker
    /\ call \in [Calls -> Call]
    /\ service \in ServiceStatus
    /\ streak \in 0 .. FailureThreshold

Init ==
    /\ breaker = NewBreaker
    /\ call = [c \in Calls |-> NoCall]
    /\ service \in ServiceStatus
    /\ streak = 0

-----------------------------------------------------------------------------
(* The breaker.                                                            *)

Refuses(b) == b.state = "OPEN" /\ b.age < ResetTimeout

\* The first call after the timeout takes the breaker to HALF_OPEN; a call
\* that finds it HALF_OPEN, or CLOSED, goes through as well.
Admit(b) ==
    IF b.state = "OPEN" THEN [b EXCEPT !.state = "HALF_OPEN", !.successes = 0] ELSE b

\* The mutated form: the failures before the trial still count after it.
OnSuccessKeepingFailures(b) ==
    IF b.state # "HALF_OPEN" THEN [b EXCEPT !.failures = 0]
    ELSE IF b.successes + 1 < SuccessesToClose THEN [b EXCEPT !.successes = @ + 1]
    ELSE [b EXCEPT !.state = "CLOSED", !.successes = 0]

OnSuccess(b) ==
    IF b.state # "HALF_OPEN" THEN [b EXCEPT !.failures = 0]
    ELSE IF b.successes + 1 < SuccessesToClose THEN [b EXCEPT !.failures = 0, !.successes = @ + 1]
    ELSE [b EXCEPT !.state = "CLOSED", !.failures = 0, !.successes = 0]

\* Bound: past the threshold the count makes no difference (see above).
Counted(failures) == IF failures < FailureThreshold THEN failures + 1 ELSE failures

\* age is how long ago the call that failed began.
Trip(b, age) == [b EXCEPT !.state = "OPEN", !.successes = 0, !.age = age]

CountFailure(b) == [b EXCEPT !.failures = Counted(@), !.successes = 0]

\* The mutated form: the circuit trips one failure early.
OnFailureEarly(b, age) ==
    IF b.state = "HALF_OPEN" THEN Trip(b, age)
    ELSE IF b.failures + 2 >= FailureThreshold THEN Trip(CountFailure(b), age)
    ELSE CountFailure(b)

OnFailure(b, age) ==
    IF b.state = "HALF_OPEN" THEN Trip(b, age)
    ELSE IF b.failures + 1 >= FailureThreshold THEN Trip(CountFailure(b), age)
    ELSE CountFailure(b)

-----------------------------------------------------------------------------
(* One execution.                                                          *)

Goes(c, pc) == call' = [call EXCEPT ![c].pc = pc]

Ends(c) == call' = [call EXCEPT ![c] = NoCall]

\* handleFailure: only a call that names a service has something to degrade.
AfterFailure(c) == IF call[c].scoped THEN "fallback" ELSE "auditFailure"

\* The open circuit refuses the call, or lets it make its first attempt.
Refused(c, scoped, autoResolve) ==
    /\ Refuses(breaker)
    /\ call' = [call EXCEPT ![c] =
                  NewCall(IF scoped THEN "fallback" ELSE "auditFailure", 0, scoped, autoResolve)]

LetThrough(c, scoped, autoResolve) ==
    /\ ~Refuses(breaker)
    /\ breaker' = Admit(breaker)
    /\ call' = [call EXCEPT ![c] = NewCall("attempt", 1, scoped, autoResolve)]

\* The mutated form: every refused call starts the wait afresh.
BeginExtending(c, scoped, autoResolve) ==
    /\ call[c].pc = "idle"
    /\ \/ Refused(c, scoped, autoResolve) /\ breaker' = [breaker EXCEPT !.age = 0]
       \/ LetThrough(c, scoped, autoResolve)
    /\ UNCHANGED <<service, streak>>

Begin(c, scoped, autoResolve) ==
    /\ call[c].pc = "idle"
    /\ \/ Refused(c, scoped, autoResolve) /\ UNCHANGED breaker
       \/ LetThrough(c, scoped, autoResolve)
    /\ UNCHANGED <<service, streak>>

\* The executor's UPDATE; without a service it throws instead.
RestartService(c) ==
    /\ call[c].pc = "attempt" /\ call[c].scoped
    /\ service' = "HEALTHY"
    /\ call' = [call EXCEPT ![c].pc = "restarted"]
    /\ UNCHANGED <<breaker, streak>>

\* The await of the executor resolves, and the breaker hears of it.
SettleSuccess(c) ==
    /\ call[c].pc = "restarted"
    /\ breaker' = OnSuccess(breaker)
    /\ streak' = 0
    /\ call' = [call EXCEPT ![c].pc = "auditSuccess", ![c].age = 0,
                             ![c].attempts = 0]
    /\ UNCHANGED service

\* The executor throws, or the answer to its UPDATE is lost; after a pause it
\* is run again.
RetryAttempt(c) ==
    /\ call[c].pc \in {"attempt", "restarted"}
    /\ call[c].attempts < MaxAttempts
    /\ call' = [call EXCEPT ![c].pc = "attempt", ![c].attempts = @ + 1]
    /\ UNCHANGED <<breaker, service, streak>>

\* The last attempt failed: the breaker counts one failure for the call.
SettleFailure(c) ==
    /\ call[c].pc \in {"attempt", "restarted"}
    /\ call[c].attempts = MaxAttempts
    /\ breaker' = OnFailure(breaker, call[c].age)
    /\ streak' = IF streak < FailureThreshold THEN streak + 1 ELSE streak
    /\ call' = [call EXCEPT ![c].pc = AfterFailure(c), ![c].age = 0,
                             ![c].attempts = 0]
    /\ UNCHANGED service

\* The audit entry of a success, and the resolution of the incident, are inside
\* the try: where one of them rejects, handleFailure takes over.
RecordSuccess(c) ==
    /\ call[c].pc = "auditSuccess"
    /\ \/ call[c].autoResolve /\ Goes(c, "resolve")
       \/ ~call[c].autoResolve /\ Ends(c)
       \/ Goes(c, AfterFailure(c))
    /\ UNCHANGED <<breaker, service, streak>>

\* IncidentsService.resolve: it throws for an incident that nobody has
\* acknowledged (module Incidents, Resolve).
ResolveIncident(c) ==
    /\ call[c].pc = "resolve"
    /\ Ends(c) \/ Goes(c, AfterFailure(c))
    /\ UNCHANGED <<breaker, service, streak>>

\* An UPDATE that rejects is swallowed here.
FallBack(c) ==
    /\ call[c].pc = "fallback"
    /\ service' \in {"DEGRADED", service}
    /\ Goes(c, "auditFailure")
    /\ UNCHANGED <<breaker, streak>>

RecordFailure(c) ==
    /\ call[c].pc = "auditFailure"
    /\ Ends(c)
    /\ UNCHANGED <<breaker, service, streak>>

\* The process dies and comes back: breakers are memory only.
Restart ==
    /\ breaker' = NewBreaker
    /\ call' = [c \in Calls |-> NoCall]
    /\ streak' = 0
    /\ UNCHANGED service

\* Bound: ages stop at ResetTimeout, past which nothing tells them apart.
Older(age) == IF age < ResetTimeout THEN age + 1 ELSE age

\* Time passes; an age nothing looks at stays as it is.
Tick ==
    /\ breaker' = IF breaker.state = "OPEN" THEN [breaker EXCEPT !.age = Older(@)]
                                            ELSE breaker
    /\ call' = [c \in Calls |-> IF call[c].pc \in {"attempt", "restarted"}
                                THEN [call[c] EXCEPT !.age = Older(@)] ELSE call[c]]
    /\ UNCHANGED <<service, streak>>

Continue(c) ==
    \/ RestartService(c)
    \/ SettleSuccess(c)
    \/ RetryAttempt(c)
    \/ SettleFailure(c)
    \/ RecordSuccess(c)
    \/ ResolveIncident(c)
    \/ FallBack(c)
    \/ RecordFailure(c)

Next ==
    \/ \E c \in Calls :
         \/ \E scoped, autoResolve \in BOOLEAN : Begin(c, scoped, autoResolve)
         \/ Continue(c)
    \/ Restart
    \/ Tick

Spec == Init /\ [][Next]_vars

\* The clock runs, an await settles in the end, and calls keep coming.
Fairness ==
    /\ WF_vars(Tick)
    /\ \A c \in Calls :
         /\ WF_vars(\E scoped, autoResolve \in BOOLEAN : Begin(c, scoped, autoResolve))
         /\ WF_vars(Continue(c))

FairSpec == Spec /\ Fairness

-----------------------------------------------------------------------------
(* What must hold, whatever the interleaving.                              *)

InFlight(c) == call[c].pc \in {"attempt", "restarted"}

\* A closed circuit has the whole threshold ahead of it or less, never nothing:
\* however calls of an earlier circuit come back, it was not closed, or left
\* closed, with the count of an outage on it (circuit-breaker.ts, onSuccess
\* and onFailure).
ClosedBelowThreshold ==
    breaker.state = "CLOSED" => breaker.failures < FailureThreshold

\* "Consecutive failures (while CLOSED) before the circuit trips OPEN"
\* (circuit-breaker.ts:4): a closed circuit is opened only by the last of
\* FailureThreshold calls in a row that failed, and none of those that
\* succeeded in between is forgotten.
TripsOnlyOnStreak ==
    [][breaker.state = "CLOSED" /\ breaker'.state = "OPEN" =>
         streak' = FailureThreshold]_vars

\* A circuit that is HALF_OPEN has a call in flight that will settle it, when
\* one success closes it: a failure that comes in late does not leave it there
\* undecided (circuit-breaker.ts:81, "back to OPEN immediately").
HalfOpenIsBeingTried ==
    breaker.state = "HALF_OPEN" /\ SuccessesToClose = 1 => \E c \in Calls : InFlight(c)

\* An open circuit lets a call through again in the end ("until resetTimeoutMs
\* elapses", circuit-breaker.ts:24), whatever calls of before still fail while
\* it is open.
OpenLetsATrialThrough == breaker.state = "OPEN" ~> breaker.state # "OPEN"

=============================================================================
