------------------------------ MODULE Intervals ------------------------------
(***************************************************************************)
(* The timers of the replicas around the locked job of module Scheduler.   *)
(* Each replica has a setInterval of its own, started when the process     *)
(* booted, so in an interval each timer fires once, at a moment of its     *)
(* own, and its callback asks for the lock just then.  The failures of     *)
(* Scheduler are left out: what is shown here needs none.                  *)
(***************************************************************************)
EXTENDS Scheduler

VARIABLES
    fired,   \* replicas whose timer has fired in this interval
    ticked   \* history: those that were granted the lock when it did

intervalVars == <<schedulerVars, fired, ticked>>

IntervalsInit ==
    /\ SchedulerInit
    /\ fired = {}
    /\ ticked = {}

\* The timer of a replica fires; callback r is granted the lock.
Fire(r) ==
    /\ Host[r] \notin fired
    /\ TryLock(r)
    /\ fired' = fired \cup {Host[r]}
    /\ ticked' = ticked \cup {Host[r]}

\* It fires and the lock is taken, by another session than the one that asks.
FireRefused(p) ==
    /\ p \notin fired
    /\ lock.holder # Null /\ Pool[p] # {lock.holder}
    /\ fired' = fired \cup {p}
    /\ UNCHANGED <<schedulerVars, ticked>>

NextInterval ==
    /\ fired = Replicas
    /\ fired' = {}
    /\ ticked' = {}
    /\ UNCHANGED schedulerVars

\* A callback that was granted the lock does its job and gives the lock back.
Work(r) == (EndTick(r) \/ Unlock(r)) /\ UNCHANGED <<fired, ticked>>

IntervalsNext ==
    \/ \E r \in Runs : Fire(r) \/ Work(r)
    \/ \E p \in Replicas : FireRefused(p)
    \/ NextInterval

IntervalsSpec == IntervalsInit /\ [][IntervalsNext]_intervalVars

-----------------------------------------------------------------------------

\* "exactly one replica actually runs the tick per interval regardless of how
\* many are running" (server.ts:39).  The lock is given back when the tick is
\* over, so a replica whose timer fires after that ticks as well.
OneTickPerInterval == Cardinality(ticked) <= 1

=============================================================================
