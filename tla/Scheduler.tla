------------------------------ MODULE Scheduler ------------------------------
(***************************************************************************)
(* A recurring job of server.ts that only one replica is to run at a time: *)
(* the timer callback of startScheduledJob around withAdvisoryLock.        *)
(*                                                                         *)
(* setInterval does not wait for the callback before, so callbacks of one  *)
(* replica overlap.  Each query of a callback is served by whichever       *)
(* connection of its replica's pool is free.  Postgres keeps an advisory   *)
(* lock for the session that took it: that session may take it again       *)
(* (and must give it back as often), others are refused, and an unlock in  *)
(* another session does nothing.  A callback that is refused changes       *)
(* nothing and is left out.                                                *)
(*                                                                         *)
(* The two locked jobs have keys of their own and do not touch each other, *)
(* so one is modelled.  What the job does while it ticks is left to the    *)
(* modules that extend this one.                                           *)
(***************************************************************************)
EXTENDS Naturals, FiniteSets

CONSTANTS
    Replicas,     \* processes of the API
    Connections,  \* database sessions; a lost one is replaced by its namesake
    Pool,         \* the sessions in the pool of each replica
    Runs,         \* callbacks that can be under way at once
    Host,         \* the replica each callback runs in
    MaxHeld,      \* how often a session may hold the lock (a bound)
    Null

ASSUME SchedulerAssumption ==
    /\ IsFiniteSet(Runs)
    /\ Pool \in [Replicas -> SUBSET Connections]
    /\ \A p, q \in Replicas : p # q => Pool[p] \cap Pool[q] = {}
    /\ Host \in [Runs -> Replicas]
    /\ MaxHeld \in Nat
    /\ Null \notin Connections

VARIABLES
    lock,       \* the advisory lock: which session has it, how many times
    run,        \* where each callback is
    unguarded,  \* history: callbacks under way whose lock is gone
    leaked      \* history: an unlock has missed the session that has the lock

schedulerVars == <<lock, run, unguarded, leaked>>

-----------------------------------------------------------------------------

\* session: where the lock was granted.  The code does not keep it.
Run == [pc : {"idle", "tick", "unlock"}, session : Connections \cup {Null}]

Free == [holder |-> Null, count |-> 0]
Waiting == [pc |-> "idle", session |-> Null]

SchedulerTypeOK ==
    /\ lock \in [holder : Connections \cup {Null}, count : 0 .. MaxHeld]
    /\ lock.count = 0 <=> lock.holder = Null
    /\ run \in [Runs -> Run]
    /\ unguarded \in SUBSET Runs
    /\ leaked \in BOOLEAN

SchedulerInit ==
    /\ lock = Free
    /\ run = [r \in Runs |-> Waiting]
    /\ unguarded = {}
    /\ leaked = FALSE

\* Callbacks that were granted the lock and have not tried to give it back.
Active == {r \in Runs : run[r].pc # "idle"}

On(c) == {r \in Active : run[r].session = c}

\* The mutated form: the answer of the query is not looked at.
TryLockUnasked(r) ==
    /\ run[r].pc = "idle"
    /\ \E c \in Pool[Host[r]] :
         /\ lock' = IF lock.holder \in {Null, c} /\ lock.count < MaxHeld
                    THEN [holder |-> c, count |-> lock.count + 1] ELSE lock
         /\ run' = [run EXCEPT ![r] = [pc |-> "tick", session |-> c]]
    /\ unguarded' = unguarded \ {r}
    /\ UNCHANGED leaked

TryLock(r) ==
    /\ run[r].pc = "idle"
    /\ \E c \in Pool[Host[r]] :
         /\ lock.holder \in {Null, c} /\ lock.count < MaxHeld
         /\ lock' = [holder |-> c, count |-> lock.count + 1]
         /\ run' = [run EXCEPT ![r] = [pc |-> "tick", session |-> c]]
    /\ unguarded' = unguarded \ {r}
    /\ UNCHANGED leaked

\* The job is over, or has thrown: either way the unlock is next.
EndTick(r) ==
    /\ run[r].pc = "tick"
    /\ run' = [run EXCEPT ![r].pc = "unlock"]
    /\ UNCHANGED <<lock, unguarded, leaked>>

Ends(r) == run' = [run EXCEPT ![r] = Waiting]

\* The unlock is served by the session that has the lock.  A callback whose own
\* lock is gone thereby gives away that of others.
Unlock(r) ==
    /\ run[r].pc = "unlock"
    /\ lock.holder \in Pool[Host[r]]
    /\ lock' = IF lock.count = 1 THEN Free ELSE [lock EXCEPT !.count = @ - 1]
    /\ unguarded' = (IF r \in unguarded THEN unguarded \cup On(lock.holder)
                                        ELSE unguarded) \ {r}
    /\ leaked' = (leaked /\ lock.count > 1)
    /\ Ends(r)

\* It is served by another session of the pool, or rejects.
MissUnlock(r) ==
    /\ run[r].pc = "unlock"
    /\ leaked' = (leaked \/ lock.holder = run[r].session)
    /\ unguarded' = unguarded \ {r}
    /\ Ends(r)
    /\ UNCHANGED lock

\* Sessions in lost are over, and Postgres drops their locks.
DropLocks(lost) ==
    /\ lock' = IF lock.holder \in lost THEN Free ELSE lock
    /\ leaked' = (leaked /\ lock.holder \notin lost)

\* A connection is lost; callbacks go on over the others.
LoseConnection(c) ==
    /\ DropLocks({c})
    /\ unguarded' = unguarded \cup On(c)
    /\ UNCHANGED run

\* A replica dies and comes back.
CrashReplica(p) ==
    /\ DropLocks(Pool[p])
    /\ run' = [r \in Runs |-> IF Host[r] = p THEN Waiting ELSE run[r]]
    /\ unguarded' = {r \in unguarded : Host[r] # p}

SchedulerNext ==
    \/ \E r \in Runs : TryLock(r) \/ EndTick(r) \/ Unlock(r) \/ MissUnlock(r)
    \/ \E c \in Connections : LoseConnection(c)
    \/ \E p \in Replicas : CrashReplica(p)

SchedulerSpec == SchedulerInit /\ [][SchedulerNext]_schedulerVars

-----------------------------------------------------------------------------

\* Ticks of two replicas are never under way at the same time (server.ts:36-40,
\* what the lock is for), although locks are leaked, taken again and given back
\* by other callbacks, unless a session was lost under one of them.  That only
\* one of them ticks in an interval is another matter: see module Intervals.
OneReplicaAtATime ==
    \A r, s \in Active \ unguarded : Host[r] = Host[s]

\* The lock is free again once nobody ticks (server.ts:54, finally), unless an
\* unlock has missed its session: locks of callbacks that overlapped, threw or
\* lost their session leave nothing behind.
LockIsGivenBack ==
    Active = {} /\ ~leaked => lock = Free

=============================================================================
