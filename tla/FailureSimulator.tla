--------------------------- MODULE FailureSimulator ---------------------------
(***************************************************************************)
(* Fault injection: simulations are started and stopped over HTTP, and the *)
(* locked job of module Scheduler feeds the metrics of all that run.       *)
(*                                                                         *)
(* A tick reads all running simulations and walks through that snapshot:   *)
(* it records and evaluates the samples of the simulation at the tickCount *)
(* it has read (module Alerts), and then increments tickCount in the       *)
(* database.  start and stop are async handlers that read, check and       *)
(* write; their audit entries, which nothing reads, are left out.          *)
(***************************************************************************)
EXTENDS Scheduler

CONSTANTS
    Simulations,  \* simulation ids (a bound: no more are started)
    Services,     \* service ids
    Requests,     \* start and stop requests that can be in flight at once
    MaxTicks      \* where tickCount stops counting (a bound)

ASSUME SimulatorAssumption == MaxTicks \in Nat /\ Null \notin Services \cup Simulations

VARIABLES
    simulations,  \* the failure_simulations table
    request,      \* where each start or stop is
    job,          \* where each callback is in its tick
    sampled,      \* how often each tickCount of a simulation was sampled
    disturbed     \* history: simulations two overlapping ticks had listed, or
                  \* whose tick was cut off before the increment

simulatorVars == <<simulations, request, job, sampled, disturbed>>
vars == <<schedulerVars, simulatorVars>>

-----------------------------------------------------------------------------

Simulation == [ state     : {"NONE", "RUNNING", "STOPPED"},
                service   : Services \cup {Null},
                tickCount : 0 .. MaxTicks ]

Request == [ pc         : {"idle", "create", "stop"},
             service    : Services \cup {Null},
             simulation : Simulations \cup {Null} ]

\* A simulation as a tick has listed it.
Listed == [simulation : Simulations, tickCount : 0 .. MaxTicks]
NoneListed == [simulation |-> Null, tickCount |-> 0]

Job == [ pc   : {"off", "list", "walk", "increment"},
         todo : SUBSET Listed,
         cur  : Listed \cup {NoneListed} ]

NoSimulation == [state |-> "NONE", service |-> Null, tickCount |-> 0]
NoRequest == [pc |-> "idle", service |-> Null, simulation |-> Null]
Off == [pc |-> "off", todo |-> {}, cur |-> NoneListed]

TypeOK ==
    /\ SchedulerTypeOK
    /\ simulations \in [Simulations -> Simulation]
    /\ request \in [Requests -> Request]
    /\ job \in [Runs -> Job]
    /\ sampled \in [Simulations -> [0 .. MaxTicks - 1 -> 0 .. 2]]
    /\ disturbed \in SUBSET Simulations

Init ==
    /\ SchedulerInit
    /\ simulations = [x \in Simulations |-> NoSimulation]
    /\ request = [h \in Requests |-> NoRequest]
    /\ job = [r \in Runs |-> Off]
    /\ sampled = [x \in Simulations |-> [n \in 0 .. MaxTicks - 1 |-> 0]]
    /\ disturbed = {}

-----------------------------------------------------------------------------
(* Starting and stopping.                                                  *)

Running(x) == simulations[x].state = "RUNNING"

ActiveOf(service) == {x \in Simulations : Running(x) /\ simulations[x].service = service}

Asks(h, pc, service, x) ==
    /\ request[h].pc = "idle"
    /\ request' = [request EXCEPT ![h] = [pc |-> pc, service |-> service, simulation |-> x]]
    /\ UNCHANGED <<schedulerVars, simulations, job, sampled, disturbed>>

Start(h, service) == ActiveOf(service) = {} /\ Asks(h, "create", service, Null)

Stop(h, x) == Running(x) /\ Asks(h, "stop", Null, x)

Answered(h) == request' = [request EXCEPT ![h] = NoRequest]

\* No constraint of the table keeps a second one out.
CreateSimulation(h) ==
    /\ request[h].pc = "create"
    /\ \E x \in Simulations :
         /\ simulations[x].state = "NONE"
         /\ simulations' = [simulations EXCEPT
                ![x] = [state |-> "RUNNING", service |-> request[h].service, tickCount |-> 0]]
    /\ Answered(h)
    /\ UNCHANGED <<schedulerVars, job, sampled, disturbed>>

StopSimulation(h) ==
    /\ request[h].pc = "stop"
    /\ simulations' = [simulations EXCEPT ![request[h].simulation].state = "STOPPED"]
    /\ Answered(h)
    /\ UNCHANGED <<schedulerVars, job, sampled, disturbed>>

\* An await rejects.
AbortRequest(h) ==
    /\ request[h].pc # "idle"
    /\ Answered(h)
    /\ UNCHANGED <<schedulerVars, simulations, job, sampled, disturbed>>

-----------------------------------------------------------------------------
(* One tick.                                                               *)

StartTick(r) ==
    /\ TryLock(r)
    /\ job' = [job EXCEPT ![r] = [Off EXCEPT !.pc = "list"]]
    /\ UNCHANGED <<simulations, request, sampled, disturbed>>

\* The simulations callback r has listed and not incremented yet.
Holds(r) == {d.simulation : d \in job[r].todo} \cup ({job[r].cur.simulation} \ {Null})

\* Callbacks whose tick may run into that of r: they share its session, or the
\* lock of one of the two is gone.
Overlaps(r) ==
    {s \in Active \ {r} : \/ run[s].session = run[r].session
                          \/ {r, s} \cap unguarded # {}}

ListActive(r) ==
    /\ job[r].pc = "list"
    /\ LET listed == {x \in Simulations : Running(x)} IN
       /\ job' = [job EXCEPT ![r].pc = "walk",
                             ![r].todo = {[simulation |-> x,
                                           tickCount |-> simulations[x].tickCount] : x \in listed}]
       /\ disturbed' = disturbed \cup (listed \cap UNION {Holds(s) : s \in Overlaps(r)})
    /\ UNCHANGED <<schedulerVars, simulations, request, sampled>>

\* All samples of one simulation are recorded and evaluated (counted up to two).
Sample(r) ==
    /\ job[r].pc = "walk"
    /\ \E d \in job[r].todo :
         /\ sampled' = IF d.tickCount = MaxTicks THEN sampled
                       ELSE [sampled EXCEPT ![d.simulation][d.tickCount] =
                               IF @ = 2 THEN 2 ELSE @ + 1]
         /\ job' = [job EXCEPT ![r] = [pc |-> "increment", todo |-> @.todo \ {d}, cur |-> d]]
    /\ UNCHANGED <<schedulerVars, simulations, request, disturbed>>

\* The mutated form: the increment is forgotten.
IncrementForgotten(r) ==
    /\ job[r].pc = "increment"
    /\ job' = [job EXCEPT ![r].pc = "walk", ![r].cur = NoneListed]
    /\ UNCHANGED <<schedulerVars, simulations, request, sampled, disturbed>>

IncrementTick(r) ==
    LET x == job[r].cur.simulation IN
    /\ job[r].pc = "increment"
    /\ simulations' = [simulations EXCEPT ![x].tickCount = IF @ < MaxTicks THEN @ + 1 ELSE @]
    /\ job' = [job EXCEPT ![r].pc = "walk", ![r].cur = NoneListed]
    /\ UNCHANGED <<schedulerVars, request, sampled, disturbed>>

\* The snapshot is done.
FinishTick(r) ==
    /\ job[r].pc = "walk" /\ job[r].todo = {}
    /\ EndTick(r)
    /\ job' = [job EXCEPT ![r] = Off]
    /\ UNCHANGED <<simulations, request, sampled, disturbed>>

\* What callback r has sampled and will not increment if it is cut off here.
CutShort(r) == {job[r].cur.simulation} \ {Null}

\* The mutated form: without the finally, a tick that throws keeps the lock.
FailTickLocked(r) ==
    /\ run[r].pc = "tick"
    /\ Ends(r)
    /\ job' = [job EXCEPT ![r] = Off]
    /\ disturbed' = disturbed \cup CutShort(r)
    /\ UNCHANGED <<lock, unguarded, leaked, simulations, request, sampled>>

\* An await of the tick rejects: the rest of the snapshot is skipped.
FailTick(r) ==
    /\ EndTick(r)
    /\ job' = [job EXCEPT ![r] = Off]
    /\ disturbed' = disturbed \cup CutShort(r)
    /\ UNCHANGED <<simulations, request, sampled>>

GiveBack(r) == (Unlock(r) \/ MissUnlock(r)) /\ UNCHANGED simulatorVars

Disconnect(c) == LoseConnection(c) /\ UNCHANGED simulatorVars

\* Requests are served by replicas too, and end by AbortRequest.
Crash(p) ==
    /\ CrashReplica(p)
    /\ job' = [r \in Runs |-> IF Host[r] = p THEN Off ELSE job[r]]
    /\ disturbed' = disturbed \cup UNION {CutShort(r) : r \in {s \in Runs : Host[s] = p}}
    /\ UNCHANGED <<simulations, request, sampled>>

Next ==
    \/ \E h \in Requests :
         \/ \E service \in Services : Start(h, service)
         \/ \E x \in Simulations : Stop(h, x)
         \/ CreateSimulation(h)
         \/ StopSimulation(h)
         \/ AbortRequest(h)
    \/ \E r \in Runs :
         \/ StartTick(r)
         \/ ListActive(r)
         \/ Sample(r)
         \/ IncrementTick(r)
         \/ FinishTick(r)
         \/ FailTick(r)
         \/ GiveBack(r)
    \/ \E c \in Connections : Disconnect(c)
    \/ \E p \in Replicas : Crash(p)

Spec == Init /\ [][Next]_vars

-----------------------------------------------------------------------------

\* A scenario ramps by one step per tick (failure-simulator.service.ts:103,
\* "actually ramps between ticks instead of resampling the same starting
\* value"): no tickCount of a simulation is sampled twice and none before
\* tickCount is left out, whichever replicas tick, unless ticks of one session
\* overlapped on it or one was cut off in between.
EveryTickSampledOnce ==
    \A x \in Simulations \ disturbed : \A n \in 0 .. MaxTicks - 1 :
      /\ sampled[x][n] <= 1
      /\ n < simulations[x].tickCount <=>
           /\ sampled[x][n] = 1
           /\ \A r \in Runs : job[r].cur # [simulation |-> x, tickCount |-> n]

=============================================================================
