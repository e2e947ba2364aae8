------------------------ MODULE FailureSimulatorProofs ------------------------
(***************************************************************************)
(* Proofs about the locked job of module Scheduler and the tick of the     *)
(* failure simulator, which is such a job, for any number of replicas,     *)
(* sessions, callbacks, simulations and requests.                          *)
(*                                                                         *)
(* That callbacks of two replicas do not tick together is not inductive:   *)
(* it rests on the lock still being there.  The strengthening counts: the  *)
(* session that has the lock is that of every guarded callback under way,  *)
(* and it has the lock at least as often as there are such callbacks, so   *)
(* that an unlock of one of them does not take it from the others.  That   *)
(* the lock is given back counts the other way: no more often than there   *)
(* are callbacks to give it back.                                          *)
(*                                                                         *)
(* The simulator's tick, step by step with its starts, stops and failures, *)
(* implements that job, and so inherits what is proved of it.              *)
(*                                                                         *)
(* That every tickCount is sampled once rests on the lock: a simulation is *)
(* in the snapshot of one callback at a time (TickedAlone), since callbacks*)
(* of two replicas do not tick together and those of one session count as  *)
(* overlapping.  So what a callback has listed is still the tickCount of   *)
(* the row when it samples (SnapshotIsFresh), and what was sampled is what *)
(* was incremented and the one callback between the two (SampledSoFar).    *)
(***************************************************************************)
EXTENDS FailureSimulator, FiniteSetTheorems, TLAPS

-----------------------------------------------------------------------------
(* One replica ticks.                                                      *)

\* Callbacks under way whose lock is not known to be gone.
Guarded == Active \ unguarded

\* The strengthening described above.
HoldsForAll ==
    /\ \A r \in Active : run[r].session \in Pool[Host[r]]
    /\ \A r \in Guarded : run[r].session = lock.holder
    /\ Cardinality(Guarded) <= lock.count

IInv == SchedulerTypeOK /\ HoldsForAll

-----------------------------------------------------------------------------

\* Types: every step keeps them.
LEMMA TypeStep == SchedulerTypeOK /\ [SchedulerNext]_schedulerVars => SchedulerTypeOK'
<1> USE SchedulerAssumption
<1> SUFFICES ASSUME SchedulerTypeOK, [SchedulerNext]_schedulerVars
             PROVE  SchedulerTypeOK'
  OBVIOUS
<1>1. ASSUME NEW r \in Runs, TryLock(r) PROVE SchedulerTypeOK'
  <2>1. PICK c \in Pool[Host[r]] :
          /\ lock.holder \in {Null, c} /\ lock.count < MaxHeld
          /\ lock' = [holder |-> c, count |-> lock.count + 1]
          /\ run' = [run EXCEPT ![r] = [pc |-> "tick", session |-> c]]
    BY <1>1 DEF TryLock
  <2>2. c \in Connections /\ c # Null
    OBVIOUS
  <2>3. run' \in [Runs -> Run]
    BY <2>1, <2>2 DEF SchedulerTypeOK, Run
  <2>4. lock' \in [holder : Connections \cup {Null}, count : 0 .. MaxHeld]
    BY <2>1, <2>2 DEF SchedulerTypeOK
  <2> QED
    BY <1>1, <2>1, <2>2, <2>3, <2>4 DEF TryLock, SchedulerTypeOK
<1>2. ASSUME NEW r \in Runs, EndTick(r) PROVE SchedulerTypeOK'
  BY <1>2 DEF EndTick, SchedulerTypeOK, Run
<1>3. ASSUME NEW r \in Runs, Unlock(r) PROVE SchedulerTypeOK'
  <2>1. run' \in [Runs -> Run]
    BY <1>3 DEF Unlock, Ends, Waiting, SchedulerTypeOK, Run
  <2>2. lock.holder \in Connections /\ lock.count \in 1 .. MaxHeld
    BY <1>3 DEF Unlock, SchedulerTypeOK
  <2>3. /\ lock' \in [holder : Connections \cup {Null}, count : 0 .. MaxHeld]
        /\ lock'.count = 0 <=> lock'.holder = Null
    BY <1>3, <2>2 DEF Unlock, Free, SchedulerTypeOK
  <2>4. unguarded' \in SUBSET Runs /\ leaked' \in BOOLEAN
    BY <1>3 DEF Unlock, On, Active, SchedulerTypeOK
  <2> QED
    BY <2>1, <2>3, <2>4 DEF SchedulerTypeOK
<1>4. ASSUME NEW r \in Runs, MissUnlock(r) PROVE SchedulerTypeOK'
  BY <1>4 DEF MissUnlock, Ends, Waiting, SchedulerTypeOK, Run
<1>5. ASSUME NEW c \in Connections, LoseConnection(c) PROVE SchedulerTypeOK'
  BY <1>5 DEF LoseConnection, DropLocks, Free, On, Active, SchedulerTypeOK
<1>6. ASSUME NEW p \in Replicas, CrashReplica(p) PROVE SchedulerTypeOK'
  BY <1>6 DEF CrashReplica, DropLocks, Free, Waiting, SchedulerTypeOK, Run
<1>7. CASE UNCHANGED schedulerVars
  BY <1>7 DEF schedulerVars, SchedulerTypeOK
<1> QED
  BY <1>1, <1>2, <1>3, <1>4, <1>5, <1>6, <1>7 DEF SchedulerNext

\* Fewer guarded callbacks need no more of the lock.
LEMMA FewerGuarded ==
    ASSUME SchedulerTypeOK, NEW G \in SUBSET Guarded
    PROVE  /\ IsFiniteSet(Guarded) /\ IsFiniteSet(G)
           /\ Cardinality(Guarded) \in Nat /\ Cardinality(G) \in Nat
           /\ Cardinality(G) <= Cardinality(Guarded)
<1>1. Guarded \in SUBSET Runs
  BY DEF Guarded, Active
<1>2. IsFiniteSet(Guarded)
  BY <1>1, SchedulerAssumption, FS_Subset
<1>3. IsFiniteSet(G) /\ Cardinality(G) <= Cardinality(Guarded)
  BY <1>2, FS_Subset
<1> QED
  BY <1>2, <1>3, FS_CardinalityType

\* The lock is held for all guarded callbacks: every step keeps it so.
LEMMA HoldsStep == IInv /\ [SchedulerNext]_schedulerVars => HoldsForAll'
<1> USE SchedulerAssumption
<1> SUFFICES ASSUME SchedulerTypeOK, HoldsForAll, [SchedulerNext]_schedulerVars
             PROVE  HoldsForAll'
  BY DEF IInv
<1>0. /\ IsFiniteSet(Guarded) /\ Cardinality(Guarded) \in Nat
      /\ lock.count \in Nat
      /\ Cardinality({}) = 0
  BY FewerGuarded, FS_EmptySet DEF SchedulerTypeOK
\* A step that only lets callbacks go, or that frees the lock when it held for
\* all of them, is no danger.
<1>a. ASSUME Guarded' = {}, lock'.count \in Nat PROVE Cardinality(Guarded') <= lock'.count
  BY <1>0, <1>a
<1>b. ASSUME Guarded' \in SUBSET Guarded, lock' = lock
      PROVE  Cardinality(Guarded') <= lock'.count
  <2>1. Cardinality(Guarded') \in Nat /\ Cardinality(Guarded') <= Cardinality(Guarded)
    BY <1>b, FewerGuarded
  <2> QED
    BY <1>0, <1>b, <2>1 DEF HoldsForAll
<1>1. ASSUME NEW r \in Runs, TryLock(r) PROVE HoldsForAll'
  <2>1. PICK c \in Pool[Host[r]] :
          /\ lock.holder \in {Null, c}
          /\ lock' = [holder |-> c, count |-> lock.count + 1]
          /\ run' = [run EXCEPT ![r] = [pc |-> "tick", session |-> c]]
    BY <1>1 DEF TryLock
  <2>2. /\ Active' = Active \cup {r}
        /\ Guarded' = Guarded \cup {r}
        /\ run[r].pc = "idle"
    BY <1>1, <2>1 DEF TryLock, Active, Guarded, SchedulerTypeOK
  <2>3. \A s \in Active : run'[s] = run[s]
    BY <1>1, <2>1, <2>2 DEF Active, SchedulerTypeOK
  <2>4. run'[r].session = c
    BY <2>1 DEF SchedulerTypeOK
  <2>5. \A s \in Guarded : run[s].session = c
    <3>1. CASE lock.holder = c
      BY <3>1 DEF HoldsForAll
    <3>2. CASE lock.holder = Null
      <4>1. lock.count = 0
        BY <3>2 DEF SchedulerTypeOK
      <4>2. Guarded = {}
        BY <1>0, <4>1, FS_EmptySet DEF HoldsForAll
      <4> QED
        BY <4>2
    <3> QED
      BY <2>1, <3>1, <3>2
  <2>6. Cardinality(Guarded') <= Cardinality(Guarded) + 1
    <3>1. r \notin Guarded
      BY <2>2 DEF Guarded, Active
    <3>2. Cardinality(Guarded \cup {r}) = Cardinality(Guarded) + 1
      BY <1>0, <3>1, FS_AddElement
    <3> QED
      BY <1>0, <2>2, <3>2
  <2>7. Cardinality(Guarded') \in Nat
    BY <1>0, <2>2, FS_AddElement, FS_CardinalityType
  <2>8. \A s \in Active' : run'[s].session \in Pool[Host[s]]
    BY <2>2, <2>3, <2>4 DEF HoldsForAll
  <2>9. \A s \in Guarded' : run'[s].session = lock'.holder
    BY <2>1, <2>2, <2>3, <2>4, <2>5 DEF Guarded
  <2>10. Cardinality(Guarded') <= lock'.count
    BY <1>0, <2>1, <2>6, <2>7 DEF HoldsForAll
  <2> QED
    BY <2>8, <2>9, <2>10 DEF HoldsForAll
<1>2. ASSUME NEW r \in Runs, EndTick(r) PROVE HoldsForAll'
  <2>1. /\ Active' = Active /\ Guarded' = Guarded /\ lock' = lock
        /\ \A s \in Runs : run'[s].session = run[s].session
    BY <1>2 DEF EndTick, Active, Guarded, SchedulerTypeOK, Run
  <2>2. \A s \in Active : s \in Runs
    BY DEF Active
  <2> QED
    BY <2>1, <2>2 DEF HoldsForAll, Guarded
<1>3. ASSUME NEW r \in Runs, Unlock(r) PROVE HoldsForAll'
  <2>1. /\ Active' = Active \ {r}
        /\ \A s \in Active' : run'[s] = run[s]
        /\ r \in Active
    BY <1>3 DEF Unlock, Ends, Waiting, Active, SchedulerTypeOK
  <2>2. \A s \in Active' : run'[s].session \in Pool[Host[s]]
    BY <2>1 DEF HoldsForAll
  <2>3. lock.count \in Nat \ {0} /\ lock'.count = lock.count - 1 /\ lock'.count \in Nat
    BY <1>3 DEF Unlock, Free, SchedulerTypeOK
  <2>4. CASE r \in unguarded
    <3>1. Guarded' = {}
      BY <1>3, <2>1, <2>4 DEF Unlock, On, Guarded, HoldsForAll
    <3> QED
      BY <1>a, <2>2, <2>3, <3>1 DEF HoldsForAll
  <2>5. CASE r \notin unguarded
    <3>1. r \in Guarded /\ Guarded' = Guarded \ {r}
      BY <1>3, <2>1, <2>5 DEF Unlock, Guarded
    <3>2. Cardinality(Guarded') = Cardinality(Guarded) - 1
      BY <1>0, <3>1, FS_RemoveElement
    <3>3. Cardinality(Guarded') <= lock'.count
      BY <1>0, <2>3, <3>2 DEF HoldsForAll
    <3>4. lock.count = 1 => Guarded' = {}
      <4>1. SUFFICES ASSUME lock.count = 1 PROVE Guarded' = {}
        OBVIOUS
      <4>2. IsFiniteSet(Guarded') /\ Cardinality(Guarded') \in Nat
        BY <1>0, <3>1, FS_RemoveElement, FS_CardinalityType
      <4>3. Cardinality(Guarded') = 0
        BY <2>3, <3>3, <4>1, <4>2
      <4> QED
        BY <4>2, <4>3, FS_EmptySet
    <3>5. lock.count # 1 => lock'.holder = lock.holder
      BY <1>3 DEF Unlock, SchedulerTypeOK
    <3>6. \A s \in Guarded' : run'[s].session = lock'.holder
      BY <2>1, <3>1, <3>4, <3>5 DEF Guarded, HoldsForAll
    <3> QED
      BY <2>2, <3>3, <3>6 DEF HoldsForAll
  <2> QED
    BY <2>4, <2>5
<1>4. ASSUME NEW r \in Runs, MissUnlock(r) PROVE HoldsForAll'
  <2>1. /\ Active' = Active \ {r}
        /\ \A s \in Active' : run'[s] = run[s]
        /\ Guarded' \in SUBSET Guarded
        /\ lock' = lock
    BY <1>4 DEF MissUnlock, Ends, Waiting, Active, Guarded, SchedulerTypeOK
  <2>2. Cardinality(Guarded') <= lock'.count
    BY <1>b, <2>1
  <2> QED
    BY <2>1, <2>2 DEF HoldsForAll, Guarded
<1>5. ASSUME NEW c \in Connections, LoseConnection(c) PROVE HoldsForAll'
  <2>1. /\ Active' = Active /\ run' = run
        /\ Guarded' = Guarded \ On(c)
    BY <1>5 DEF LoseConnection, Active, Guarded
  <2>2. CASE lock.holder = c
    <3>1. Guarded' = {}
      BY <2>1, <2>2 DEF On, Guarded, HoldsForAll
    <3>2. lock'.count \in Nat
      BY <1>5, <2>2 DEF LoseConnection, DropLocks, Free
    <3> QED
      BY <1>a, <2>1, <3>1, <3>2 DEF HoldsForAll
  <2>3. CASE lock.holder # c
    <3>1. lock' = lock
      BY <1>5, <2>3 DEF LoseConnection, DropLocks
    <3>2. Cardinality(Guarded') <= lock'.count
      BY <1>b, <2>1, <3>1
    <3> QED
      BY <2>1, <3>1, <3>2 DEF HoldsForAll
  <2> QED
    BY <2>2, <2>3
<1>6. ASSUME NEW p \in Replicas, CrashReplica(p) PROVE HoldsForAll'
  <2>1. /\ Active' = {r \in Active : Host[r] # p}
        /\ \A r \in Active' : run'[r] = run[r]
    BY <1>6 DEF CrashReplica, Active, Waiting
  <2>2. Guarded' = {r \in Guarded : Host[r] # p}
    BY <1>6, <2>1 DEF CrashReplica, Guarded
  <2>3. CASE lock.holder \in Pool[p]
    <3>1. ASSUME NEW r \in Guarded PROVE Host[r] = p
      <4>1. r \in Runs /\ lock.holder \in Pool[Host[r]]
        BY <3>1 DEF Guarded, Active, HoldsForAll
      <4> QED
        BY <2>3, <4>1
    <3>2. Guarded' = {}
      BY <2>2, <3>1
    <3>3. lock'.count \in Nat
      BY <1>6, <2>3 DEF CrashReplica, DropLocks, Free
    <3> QED
      BY <1>a, <2>1, <3>2, <3>3 DEF HoldsForAll
  <2>4. CASE lock.holder \notin Pool[p]
    <3>1. lock' = lock
      BY <1>6, <2>4 DEF CrashReplica, DropLocks
    <3>2. Cardinality(Guarded') <= lock'.count
      BY <1>b, <2>2, <3>1
    <3> QED
      BY <2>1, <2>2, <3>1, <3>2 DEF HoldsForAll, Guarded
  <2> QED
    BY <2>3, <2>4
<1>7. CASE UNCHANGED schedulerVars
  BY <1>7 DEF schedulerVars, HoldsForAll, Guarded, Active
<1> QED
  BY <1>1, <1>2, <1>3, <1>4, <1>5, <1>6, <1>7 DEF SchedulerNext

-----------------------------------------------------------------------------

\* Nothing is held and nobody ticks at first.
LEMMA InitHolds == SchedulerInit => IInv
<1> USE SchedulerAssumption
<1> SUFFICES ASSUME SchedulerInit PROVE IInv
  OBVIOUS
<1>2. Active = {} /\ Guarded = {}
  BY DEF SchedulerInit, Waiting, Active, Guarded
<1>3. SchedulerTypeOK
  <2>1. Free \in [holder : Connections \cup {Null}, count : 0 .. MaxHeld]
    BY DEF Free
  <2>2. run \in [Runs -> Run]
    BY DEF SchedulerInit, Waiting, Run
  <2> QED
    BY <2>1, <2>2 DEF SchedulerInit, Free, SchedulerTypeOK
<1>4. HoldsForAll
  BY <1>2, FS_EmptySet DEF SchedulerInit, Free, HoldsForAll
<1> QED
  BY <1>3, <1>4 DEF IInv

\* All guarded callbacks have the session of the lock, which is in one pool.
LEMMA HoldersShareReplica == IInv => OneReplicaAtATime
<1> USE SchedulerAssumption
<1> SUFFICES ASSUME IInv, NEW r \in Guarded, NEW s \in Guarded
             PROVE  Host[r] = Host[s]
  BY DEF OneReplicaAtATime, Guarded
<1>1. r \in Runs /\ s \in Runs
  BY DEF Guarded, Active
<1>2. lock.holder \in Pool[Host[r]] /\ lock.holder \in Pool[Host[s]]
  BY DEF IInv, HoldsForAll, Guarded
<1> QED
  BY <1>1, <1>2

\* The invariant of every behaviour of the scheduler.
THEOREM Invariant == SchedulerSpec => []IInv
<1>1. IInv /\ [SchedulerNext]_schedulerVars => IInv'
  BY TypeStep, HoldsStep DEF IInv
<1> QED
  BY InitHolds, <1>1, PTL DEF SchedulerSpec

\* Only callbacks of one replica tick at a time (server.ts, withAdvisoryLock),
\* unless a session was lost under one of them.
THEOREM OneReplicaAtATimeHolds == SchedulerSpec => []OneReplicaAtATime
BY Invariant, HoldersShareReplica, PTL

-----------------------------------------------------------------------------
(* The lock is given back.                                                 *)

\* Unless an unlock has missed its session, a session has the lock no more
\* often than there are callbacks that will give it back.
NothingLeftBehind == ~leaked => lock.count <= Cardinality(On(lock.holder))

\* Callbacks on a session are finitely many.
LEMMA OnIsFinite ==
    ASSUME NEW c PROVE IsFiniteSet(On(c)) /\ Cardinality(On(c)) \in Nat
<1>1. On(c) \in SUBSET Runs
  BY DEF On, Active
<1> QED
  BY <1>1, SchedulerAssumption, FS_Subset, FS_CardinalityType

\* A set loses at most one element when one is removed.
LEMMA RemoveOne ==
    ASSUME NEW S, IsFiniteSet(S), NEW x
    PROVE  /\ Cardinality(S \ {x}) >= Cardinality(S) - 1
           /\ Cardinality(S \ {x}) \in Nat
<1>1. Cardinality(S) \in Nat
  BY FS_CardinalityType
<1>2. CASE x \in S
  <2>1. Cardinality(S \ {x}) = Cardinality(S) - 1 /\ IsFiniteSet(S \ {x})
    BY <1>2, FS_RemoveElement
  <2>2. Cardinality(S \ {x}) \in Nat
    BY <2>1, FS_CardinalityType
  <2> QED
    BY <1>1, <2>1, <2>2
<1>3. CASE x \notin S
  <2>1. S \ {x} = S
    BY <1>3
  <2> QED
    BY <1>1, <2>1
<1> QED
  BY <1>2, <1>3

\* Every step keeps it so.
LEMMA NothingLeftStep ==
    IInv /\ NothingLeftBehind /\ [SchedulerNext]_schedulerVars => NothingLeftBehind'
<1> USE SchedulerAssumption
<1> SUFFICES ASSUME SchedulerTypeOK, HoldsForAll, NothingLeftBehind,
                    [SchedulerNext]_schedulerVars
             PROVE  NothingLeftBehind'
  BY DEF IInv
<1>0. lock.count \in Nat /\ (lock.holder = Null => lock.count = 0)
  BY DEF SchedulerTypeOK
\* A free lock has nothing to give back, and one nobody touched has as much.
<1>a. ASSUME lock' = Free PROVE NothingLeftBehind'
  <2>1. Cardinality(On(lock.holder)') \in Nat
    <3>1. On(lock.holder)' \in SUBSET Runs
      BY DEF On, Active
    <3> QED
      BY <3>1, FS_Subset, FS_CardinalityType
  <2> QED
    BY <1>a, <2>1 DEF NothingLeftBehind, Free
<1>b. ASSUME lock' = lock, On(lock.holder)' = On(lock.holder), leaked' = leaked
      PROVE  NothingLeftBehind'
  BY <1>b DEF NothingLeftBehind
<1>1. ASSUME NEW r \in Runs, TryLock(r) PROVE NothingLeftBehind'
  <2>1. PICK c \in Pool[Host[r]] :
          /\ lock.holder \in {Null, c}
          /\ lock' = [holder |-> c, count |-> lock.count + 1]
          /\ run' = [run EXCEPT ![r] = [pc |-> "tick", session |-> c]]
    BY <1>1 DEF TryLock
  <2>2. r \notin On(c) /\ On(lock.holder)' = On(c) \cup {r}
    BY <1>1, <2>1 DEF TryLock, On, Active, SchedulerTypeOK
  <2>3. Cardinality(On(lock.holder)') = Cardinality(On(c)) + 1
    BY <2>2, OnIsFinite, FS_AddElement
  <2>4. ~leaked => lock.count <= Cardinality(On(c))
    BY <1>0, <2>1, OnIsFinite DEF NothingLeftBehind
  <2> QED
    BY <1>0, <1>1, <2>1, <2>3, <2>4, OnIsFinite DEF TryLock, NothingLeftBehind
<1>2. ASSUME NEW r \in Runs, EndTick(r) PROVE NothingLeftBehind'
  BY <1>b, <1>2 DEF EndTick, On, Active, SchedulerTypeOK, Run
<1>3. ASSUME NEW r \in Runs, Unlock(r) PROVE NothingLeftBehind'
  <2>1. CASE lock.count = 1
    BY <1>a, <1>3, <2>1 DEF Unlock
  <2>2. CASE lock.count # 1
    <3>1. /\ lock'.holder = lock.holder /\ lock'.count = lock.count - 1
          /\ lock.count \in Nat \ {0, 1}
      BY <1>0, <1>3, <2>2 DEF Unlock, SchedulerTypeOK
    <3>2. leaked' = leaked
      BY <1>3, <3>1 DEF Unlock, SchedulerTypeOK
    <3>3. On(lock.holder)' = On(lock.holder) \ {r}
      BY <1>3, <3>1 DEF Unlock, Ends, Waiting, On, Active, SchedulerTypeOK
    <3>4. /\ Cardinality(On(lock.holder) \ {r}) >= Cardinality(On(lock.holder)) - 1
          /\ Cardinality(On(lock.holder) \ {r}) \in Nat
      BY OnIsFinite, RemoveOne
    <3> QED
      BY <3>1, <3>2, <3>3, <3>4, OnIsFinite DEF NothingLeftBehind
  <2> QED
    BY <2>1, <2>2
<1>4. ASSUME NEW r \in Runs, MissUnlock(r) PROVE NothingLeftBehind'
  <2>1. lock' = lock
    BY <1>4 DEF MissUnlock
  <2>2. CASE lock.holder = run[r].session
    BY <1>4, <2>2 DEF MissUnlock, NothingLeftBehind
  <2>3. CASE lock.holder # run[r].session
    <3>1. On(lock.holder)' = On(lock.holder)
      BY <1>4, <2>1, <2>3 DEF MissUnlock, Ends, Waiting, On, Active, SchedulerTypeOK
    <3> QED
      BY <1>4, <2>1, <2>3, <3>1 DEF MissUnlock, NothingLeftBehind
  <2> QED
    BY <2>2, <2>3
<1>5. ASSUME NEW c \in Connections, LoseConnection(c) PROVE NothingLeftBehind'
  <2>1. CASE lock.holder = c
    BY <1>a, <1>5, <2>1 DEF LoseConnection, DropLocks
  <2>2. CASE lock.holder # c
    <3>1. lock' = lock /\ run' = run /\ (leaked' <=> leaked)
      BY <1>5, <2>2 DEF LoseConnection, DropLocks
    <3> QED
      BY <3>1 DEF On, Active, NothingLeftBehind
  <2> QED
    BY <2>1, <2>2
<1>6. ASSUME NEW p \in Replicas, CrashReplica(p) PROVE NothingLeftBehind'
  <2>1. CASE lock.holder \in Pool[p]
    BY <1>a, <1>6, <2>1 DEF CrashReplica, DropLocks
  <2>2. CASE lock.holder \notin Pool[p]
    <3>1. lock' = lock /\ (leaked' <=> leaked)
      BY <1>6, <2>2 DEF CrashReplica, DropLocks
    <3>2. \A r \in On(lock.holder) : Host[r] # p
      BY <2>2 DEF On, HoldsForAll
    <3>3. On(lock.holder)' = On(lock.holder)
      BY <1>6, <3>1, <3>2 DEF CrashReplica, Waiting, On, Active, SchedulerTypeOK
    <3> QED
      BY <3>1, <3>3 DEF NothingLeftBehind
  <2> QED
    BY <2>1, <2>2
<1>7. CASE UNCHANGED schedulerVars
  BY <1>7 DEF schedulerVars, NothingLeftBehind, On, Active
<1> QED
  BY <1>1, <1>2, <1>3, <1>4, <1>5, <1>6, <1>7 DEF SchedulerNext

\* The lock is free again once nobody ticks (server.ts:54, finally), unless an
\* unlock has missed its session.
THEOREM LockIsGivenBackHolds == SchedulerSpec => []LockIsGivenBack
<1>1. SchedulerInit => NothingLeftBehind
  <2>1. ASSUME SchedulerInit PROVE On(Null) = {}
    BY <2>1 DEF SchedulerInit, On, Active, Waiting
  <2> QED
    BY <2>1, OnIsFinite DEF SchedulerInit, Free, NothingLeftBehind
<1>2. IInv /\ IInv' /\ NothingLeftBehind /\ [SchedulerNext]_schedulerVars
        => NothingLeftBehind'
  BY NothingLeftStep
<1>3. IInv /\ NothingLeftBehind => LockIsGivenBack
  <2> SUFFICES ASSUME SchedulerTypeOK, NothingLeftBehind, Active = {}, ~leaked
               PROVE  lock = Free
    BY DEF IInv, LockIsGivenBack
  <2>1. Cardinality(On(lock.holder)) = 0
    BY FS_EmptySet DEF On
  <2>2. lock.count = 0 /\ lock.holder = Null
    BY <2>1 DEF NothingLeftBehind, SchedulerTypeOK
  <2> QED
    BY <2>2 DEF Free, SchedulerTypeOK
<1> QED
  BY Invariant, <1>1, <1>2, <1>3, PTL DEF SchedulerSpec

-----------------------------------------------------------------------------
(* The simulator's tick.                                                   *)

\* Every step of the simulator is one of the scheduler or leaves it alone.
LEMMA StepImplements == [Next]_vars => [SchedulerNext]_schedulerVars
<1> SUFFICES ASSUME [Next]_vars PROVE [SchedulerNext]_schedulerVars
  OBVIOUS
<1>1. ASSUME NEW h \in Requests,
             \/ \E service \in Services : Start(h, service)
             \/ \E x \in Simulations : Stop(h, x)
             \/ CreateSimulation(h)
             \/ StopSimulation(h)
             \/ AbortRequest(h)
      PROVE  UNCHANGED schedulerVars
  BY <1>1 DEF Start, Stop, Asks, CreateSimulation, StopSimulation, AbortRequest
<1>2. ASSUME NEW r \in Runs, ListActive(r) \/ Sample(r) \/ IncrementTick(r)
      PROVE  UNCHANGED schedulerVars
  BY <1>2 DEF ListActive, Sample, IncrementTick
<1>3. ASSUME NEW r \in Runs,
             StartTick(r) \/ FinishTick(r) \/ FailTick(r) \/ GiveBack(r)
      PROVE  SchedulerNext
  BY <1>3 DEF StartTick, FinishTick, FailTick, GiveBack, SchedulerNext
<1>4. ASSUME NEW c \in Connections, Disconnect(c) PROVE SchedulerNext
  BY <1>4 DEF Disconnect, SchedulerNext
<1>5. ASSUME NEW p \in Replicas, Crash(p) PROVE SchedulerNext
  BY <1>5 DEF Crash, SchedulerNext
<1>6. CASE UNCHANGED vars
  BY <1>6 DEF vars
<1> QED
  BY <1>1, <1>2, <1>3, <1>4, <1>5, <1>6 DEF Next

\* The simulator implements the scheduler: its tick is taken and given back as
\* withAdvisoryLock does it, whatever the tick does (server.ts:45-57).
THEOREM ImplementsScheduler == Spec => SchedulerSpec
<1>1. Init => SchedulerInit
  BY DEF Init
<1> QED
  BY <1>1, StepImplements, PTL DEF Spec, SchedulerSpec

\* Simulations are ticked by one replica at a time (server.ts:39), unless a
\* session is lost under a tick.
THEOREM SimulatorTicksOnOneReplica == Spec => []OneReplicaAtATime
BY ImplementsScheduler, OneReplicaAtATimeHolds, PTL

\* The lock of the simulator's tick is free again once nobody ticks
\* (server.ts:54, finally), unless an unlock has missed its session.
THEOREM SimulatorGivesLockBack == Spec => []LockIsGivenBack
BY ImplementsScheduler, LockIsGivenBackHolds, PTL

-----------------------------------------------------------------------------
(* What a tick has listed.                                                 *)

\* A callback is in its tick as long as its job is under way; it has a snapshot
\* after listing and a simulation in hand only between sample and increment.
JobFits ==
    \A r \in Runs :
      /\ job[r].pc # "off" => run[r].pc = "tick"
      /\ job[r].pc \in {"off", "list"} => job[r].todo = {}
      /\ job[r].pc # "increment" => job[r].cur = NoneListed
      /\ job[r].pc = "increment" => job[r].cur \in Listed

\* A simulation that was not started has not ticked, is not asked to stop and in
\* no snapshot.
NotStarted ==
    \A x \in Simulations : simulations[x].state = "NONE" =>
      /\ simulations[x].tickCount = 0
      /\ \A h \in Requests : request[h].pc = "stop" => request[h].simulation # x
      /\ \A r \in Runs : x \notin Holds(r)

TickedAlone ==
    \A x \in Simulations \ disturbed : \A r, s \in Runs :
      x \in Holds(r) /\ x \in Holds(s) => r = s

SnapshotIsFresh ==
    \A x \in Simulations \ disturbed : \A r \in Runs :
      /\ \A d \in job[r].todo : d.simulation = x =>
           d.tickCount = simulations[x].tickCount /\ job[r].cur.simulation # x
      /\ job[r].cur.simulation = x => job[r].cur.tickCount = simulations[x].tickCount

InHand(x) == \E r \in Runs : job[r].cur.simulation = x

SampledSoFar ==
    \A x \in Simulations \ disturbed : \A n \in 0 .. MaxTicks - 1 :
      sampled[x][n] = IF \/ n < simulations[x].tickCount
                         \/ n = simulations[x].tickCount /\ InHand(x)
                      THEN 1 ELSE 0

SnapshotInv ==
    TypeOK /\ JobFits /\ NotStarted /\ TickedAlone /\ SnapshotIsFresh /\ SampledSoFar

\* An entry of a snapshot is known by its simulation and its tickCount.
LEMMA ListedFacts ==
    /\ NoneListed.simulation = Null /\ NoneListed \notin Listed
    /\ \A d \in Listed : /\ d.simulation \in Simulations /\ d.tickCount \in 0 .. MaxTicks
                         /\ d = [simulation |-> d.simulation, tickCount |-> d.tickCount]
BY SimulatorAssumption DEF NoneListed, Listed

\* Writing one column keeps the type of a row, and of a job.
LEMMA RowFacts ==
    ASSUME NEW row \in Simulation, NEW n \in 0 .. MaxTicks
    PROVE  /\ [row EXCEPT !.state = "STOPPED"] \in Simulation
           /\ [row EXCEPT !.tickCount = n] \in Simulation
BY DEF Simulation

LEMMA JobFacts ==
    ASSUME NEW v \in Job, NEW todo \in SUBSET Listed
    PROVE  /\ [v EXCEPT !.pc = "walk", !.todo = todo] \in Job
           /\ [v EXCEPT !.pc = "walk", !.cur = NoneListed] \in Job
BY DEF Job

\* Types: every step of the simulator keeps them.
LEMMA SimulatorTypeStep ==
    TypeOK /\ JobFits /\ SchedulerTypeOK' /\ [Next]_vars => TypeOK'
<1> USE SchedulerAssumption, SimulatorAssumption
<1> SUFFICES ASSUME TypeOK, JobFits, SchedulerTypeOK', [Next]_vars PROVE TypeOK'
  OBVIOUS
<1>1. ASSUME NEW h \in Requests, NEW service \in Services, Start(h, service) PROVE TypeOK'
  BY <1>1 DEF Start, Asks, TypeOK, Request
<1>2. ASSUME NEW h \in Requests, NEW x \in Simulations, Stop(h, x) PROVE TypeOK'
  BY <1>2 DEF Stop, Asks, TypeOK, Request
<1>3. ASSUME NEW h \in Requests, CreateSimulation(h) PROVE TypeOK'
  <2>1. PICK x \in Simulations : simulations' = [simulations EXCEPT
          ![x] = [state |-> "RUNNING", service |-> request[h].service, tickCount |-> 0]]
    BY <1>3 DEF CreateSimulation
  <2>2. simulations' \in [Simulations -> Simulation]
    BY <2>1 DEF TypeOK, Simulation, Request
  <2>3. request' \in [Requests -> Request]
    BY <1>3 DEF CreateSimulation, Answered, NoRequest, TypeOK, Request
  <2> QED
    BY <1>3, <2>2, <2>3 DEF CreateSimulation, TypeOK
<1>4. ASSUME NEW h \in Requests, StopSimulation(h) PROVE TypeOK'
  <2>0. \A x \in Simulations : [simulations[x] EXCEPT !.state = "STOPPED"] \in Simulation
    <3>1. 0 \in 0 .. MaxTicks
      OBVIOUS
    <3> QED
      BY <3>1, RowFacts DEF TypeOK
  <2>1. simulations' \in [Simulations -> Simulation]
    BY <1>4, <2>0 DEF StopSimulation, TypeOK
  <2>2. request' \in [Requests -> Request]
    BY <1>4 DEF StopSimulation, Answered, NoRequest, TypeOK, Request
  <2> QED
    BY <1>4, <2>1, <2>2 DEF StopSimulation, TypeOK
<1>5. ASSUME NEW h \in Requests, AbortRequest(h) PROVE TypeOK'
  BY <1>5 DEF AbortRequest, Answered, NoRequest, TypeOK, Request
<1>6. ASSUME NEW r \in Runs, StartTick(r) PROVE TypeOK'
  BY <1>6 DEF StartTick, Off, TypeOK, Job
<1>7. ASSUME NEW r \in Runs, ListActive(r) PROVE TypeOK'
  <2>1. \A x \in Simulations :
          [simulation |-> x, tickCount |-> simulations[x].tickCount] \in Listed
    BY DEF TypeOK, Simulation, Listed
  <2>2. \A todo \in SUBSET Listed :
          [job[r] EXCEPT !.pc = "walk", !.todo = todo] \in Job
    BY JobFacts DEF TypeOK
  <2> DEFINE listed == {x \in Simulations : Running(x)}
             rows == {[simulation |-> x, tickCount |-> simulations[x].tickCount] : x \in listed}
  <2>3. rows \in SUBSET Listed
    BY <2>1
  <2>4. job' = [job EXCEPT ![r].pc = "walk", ![r].todo = rows]
    BY <1>7 DEF ListActive
  <2> HIDE DEF rows
  <2>5. job' \in [Runs -> Job]
    BY <2>2, <2>3, <2>4 DEF TypeOK
  <2> QED
    BY <1>7, <2>5 DEF ListActive, TypeOK
<1>8. ASSUME NEW r \in Runs, Sample(r) PROVE TypeOK'
  <2>1. PICK d \in job[r].todo :
          /\ sampled' = IF d.tickCount = MaxTicks THEN sampled
                        ELSE [sampled EXCEPT ![d.simulation][d.tickCount] =
                                IF @ = 2 THEN 2 ELSE @ + 1]
          /\ job' = [job EXCEPT ![r] =
                       [pc |-> "increment", todo |-> job[r].todo \ {d}, cur |-> d]]
    BY <1>8 DEF Sample, TypeOK
  <2>2. d \in Listed
    BY DEF TypeOK, Job
  <2>3. job' \in [Runs -> Job]
    BY <2>1, <2>2 DEF TypeOK, Job
  <2>4. sampled' \in [Simulations -> [0 .. MaxTicks - 1 -> 0 .. 2]]
    <3>1. CASE d.tickCount = MaxTicks
      BY <2>1, <3>1 DEF TypeOK
    <3>2. CASE d.tickCount # MaxTicks
      <4>1. d.simulation \in Simulations /\ d.tickCount \in 0 .. MaxTicks - 1
        BY <2>2, <3>2 DEF Listed
      <4>2. sampled[d.simulation][d.tickCount] \in 0 .. 2
        BY <4>1 DEF TypeOK
      <4> QED
        BY <2>1, <3>2, <4>1, <4>2 DEF TypeOK
    <3> QED
      BY <3>1, <3>2
  <2> QED
    BY <1>8, <2>3, <2>4 DEF Sample, TypeOK
<1>9. ASSUME NEW r \in Runs, IncrementTick(r) PROVE TypeOK'
  <2>0. [job[r] EXCEPT !.pc = "walk", !.cur = NoneListed] \in Job
    BY JobFacts DEF TypeOK
  <2>1. job' \in [Runs -> Job]
    BY <1>9, <2>0 DEF IncrementTick, TypeOK
  <2>a. \A x \in Simulations : \A n \in 0 .. MaxTicks :
          [simulations[x] EXCEPT !.tickCount = n] \in Simulation
    BY RowFacts DEF TypeOK
  <2>b. \A x \in Simulations :
          simulations[x].tickCount \in 0 .. MaxTicks
    BY DEF TypeOK, Simulation
  <2>c. \A x \in Simulations :
          (IF simulations[x].tickCount < MaxTicks THEN simulations[x].tickCount + 1
           ELSE simulations[x].tickCount) \in 0 .. MaxTicks
    BY <2>b
  <2>2. simulations' \in [Simulations -> Simulation]
    BY <1>9, <2>a, <2>c DEF IncrementTick, TypeOK
  <2> QED
    BY <1>9, <2>1, <2>2 DEF IncrementTick, TypeOK
<1>10. ASSUME NEW r \in Runs, FinishTick(r) PROVE TypeOK'
  BY <1>10 DEF FinishTick, Off, TypeOK, Job
<1>11. ASSUME NEW r \in Runs, FailTick(r) PROVE TypeOK'
  <2>1. CutShort(r) \subseteq Simulations
    BY ListedFacts DEF CutShort, TypeOK, Job
  <2> QED
    BY <1>11, <2>1 DEF FailTick, Off, TypeOK, Job
<1>12. ASSUME NEW r \in Runs, GiveBack(r) PROVE TypeOK'
  BY <1>12 DEF GiveBack, simulatorVars, TypeOK
<1>13. ASSUME NEW c \in Connections, Disconnect(c) PROVE TypeOK'
  BY <1>13 DEF Disconnect, simulatorVars, TypeOK
<1>14. ASSUME NEW p \in Replicas, Crash(p) PROVE TypeOK'
  <2>1. \A r \in Runs : CutShort(r) \subseteq Simulations
    BY ListedFacts DEF CutShort, TypeOK, Job
  <2> QED
    BY <1>14, <2>1 DEF Crash, Off, TypeOK, Job
<1>15. CASE UNCHANGED vars
  BY <1>15 DEF vars, simulatorVars, TypeOK
<1> QED
  BY <1>1, <1>2, <1>3, <1>4, <1>5, <1>6, <1>7, <1>8, <1>9, <1>10, <1>11, <1>12, <1>13,
     <1>14, <1>15 DEF Next

-----------------------------------------------------------------------------
(* Steps.                                                                  *)

\* Steps that only let go of what a callback holds, and count what they cut off
\* between a sample and its increment as disturbed.
LetsGo ==
    /\ \A r \in Runs :
         /\ job'[r].todo \subseteq job[r].todo
         /\ \/ job'[r].cur = job[r].cur
            \/ job'[r].cur = NoneListed /\ CutShort(r) \subseteq disturbed'
    /\ \A x \in Simulations : simulations'[x].tickCount = simulations[x].tickCount
    /\ sampled' = sampled
    /\ disturbed \subseteq disturbed'

\* Such a step of a callback: its job goes on or is dropped.
Drops(r) ==
    \/ job'[r] = job[r]
    \/ /\ job'[r].todo = {} /\ job'[r].cur = NoneListed
       /\ CutShort(r) \subseteq disturbed'

LEMMA LettingGoKeeps ==
    ASSUME TypeOK, TickedAlone, SnapshotIsFresh, SampledSoFar, LetsGo
    PROVE  TickedAlone' /\ SnapshotIsFresh' /\ SampledSoFar'
<1>1. \A x \in Simulations \ disturbed' : x \in Simulations \ disturbed
  BY DEF LetsGo
<1>2. ASSUME NEW r \in Runs, NEW x \in Simulations
      PROVE  job'[r].cur.simulation = x => job'[r].cur = job[r].cur
  BY ListedFacts, SimulatorAssumption DEF LetsGo
<1>3. ASSUME NEW r \in Runs, NEW x \in Simulations, x \in Holds(r)' PROVE x \in Holds(r)
  BY <1>2, <1>3 DEF LetsGo, Holds
<1>4. TickedAlone'
  BY <1>1, <1>3 DEF TickedAlone
<1>5. SnapshotIsFresh'
  BY <1>1, <1>2 DEF SnapshotIsFresh, LetsGo
<1>6. ASSUME NEW x \in Simulations \ disturbed' PROVE InHand(x)' <=> InHand(x)
  <2>1. ASSUME NEW r \in Runs, job[r].cur.simulation = x PROVE job'[r].cur = job[r].cur
    BY <2>1, SimulatorAssumption DEF LetsGo, CutShort
  <2> QED
    BY <1>2, <2>1 DEF InHand
<1>7. SampledSoFar'
  BY <1>1, <1>6 DEF SampledSoFar, LetsGo
<1> QED
  BY <1>4, <1>5, <1>7

\* A callback that holds a simulation is under way.
LEMMA HoldersAreActive ==
    ASSUME TypeOK, JobFits, NEW r \in Runs, NEW x \in Simulations, x \in Holds(r)
    PROVE  r \in Active
<1>1. job[r].todo # {} \/ job[r].cur # NoneListed
  BY ListedFacts, SimulatorAssumption DEF Holds
<1>2. job[r].pc # "off"
  BY <1>1 DEF JobFits
<1> QED
  BY <1>2 DEF JobFits, Active

\* A callback that lists a simulation another one holds overlaps with it.
LEMMA ListKeeps ==
    ASSUME TypeOK, IInv, JobFits, TickedAlone, SnapshotIsFresh, SampledSoFar,
           NEW r \in Runs, ListActive(r)
    PROVE  TickedAlone' /\ SnapshotIsFresh' /\ SampledSoFar'
<1> DEFINE listed == {x \in Simulations : Running(x)}
           rows == {[simulation |-> x, tickCount |-> simulations[x].tickCount] : x \in listed}
<1>1. /\ job[r].pc = "list" /\ job[r].todo = {} /\ job[r].cur = NoneListed
      /\ run[r].pc = "tick" /\ r \in Active
  BY DEF ListActive, JobFits, Active
<1>2. /\ job' = [job EXCEPT ![r].pc = "walk", ![r].todo = rows]
      /\ disturbed' = disturbed \cup (listed \cap UNION {Holds(s) : s \in Overlaps(r)})
      /\ simulations' = simulations /\ sampled' = sampled
  BY DEF ListActive
<1>3. /\ job'[r].todo = rows /\ job'[r].cur = NoneListed
      /\ \A s \in Runs \ {r} : job'[s] = job[s]
      /\ \A s \in Runs : job'[s].cur = job[s].cur
  BY <1>1, <1>2 DEF TypeOK, Job
<1>4. ASSUME NEW s \in Runs \ {r}, NEW x \in Simulations \ disturbed', x \in Holds(s)
      PROVE  x \notin listed
  <2>1. s \in Active
    BY <1>4, HoldersAreActive
  <2>2. s \in Overlaps(r)
    <3>1. CASE {r, s} \cap unguarded # {}
      BY <2>1, <3>1 DEF Overlaps
    <3>2. CASE {r, s} \cap unguarded = {}
      <4>1. run[s].session = lock.holder /\ run[r].session = lock.holder
        BY <1>1, <2>1, <3>2 DEF IInv, HoldsForAll, Guarded
      <4> QED
        BY <2>1, <4>1 DEF Overlaps
    <3> QED
      BY <3>1, <3>2
  <2> QED
    BY <1>2, <1>4, <2>2
<1>5. ASSUME NEW x \in Simulations PROVE x \in Holds(r)' => x \in listed
  BY <1>3, SimulatorAssumption DEF Holds, NoneListed
<1>6. ASSUME NEW s \in Runs \ {r} PROVE Holds(s)' = Holds(s)
  BY <1>3 DEF Holds
<1> HIDE DEF listed
<1>7. TickedAlone'
  <2> SUFFICES ASSUME NEW x \in (Simulations \ disturbed)', NEW q \in Runs, NEW s \in Runs,
                      x \in Holds(q)', x \in Holds(s)', q # s
               PROVE  FALSE
    BY DEF TickedAlone
  <2>1. x \in Simulations \ disturbed /\ x \in Simulations \ disturbed'
    BY <1>2
  <2>2. CASE q # r /\ s # r
    BY <1>6, <2>1, <2>2 DEF TickedAlone
  <2>3. CASE q = r
    <3>1. s \in Runs \ {r} /\ x \in Holds(s) /\ x \in listed
      BY <1>5, <1>6, <2>1, <2>3
    <3> QED
      BY <1>4, <2>1, <3>1
  <2>4. CASE s = r
    <3>1. q \in Runs \ {r} /\ x \in Holds(q) /\ x \in listed
      BY <1>5, <1>6, <2>1, <2>4
    <3> QED
      BY <1>4, <2>1, <3>1
  <2> QED
    BY <2>2, <2>3, <2>4
<1>8. SnapshotIsFresh'
  <2> SUFFICES ASSUME NEW x \in (Simulations \ disturbed)', NEW s \in Runs
               PROVE  /\ \A d \in job'[s].todo : d.simulation = x =>
                           /\ d.tickCount = simulations'[x].tickCount
                           /\ job'[s].cur.simulation # x
                      /\ job'[s].cur.simulation = x =>
                           job'[s].cur.tickCount = simulations'[x].tickCount
    BY DEF SnapshotIsFresh
  <2>1. x \in Simulations \ disturbed
    BY <1>2
  <2>a. simulations' = simulations
    BY <1>2
  <2>2. CASE s = r
    <3>1. ASSUME NEW d \in rows, d.simulation = x PROVE d.tickCount = simulations[x].tickCount
      BY <3>1
    <3>2. job'[s].cur.simulation # x
      BY <1>3, <2>1, <2>2, SimulatorAssumption DEF NoneListed
    <3> QED
      BY <1>3, <2>a, <2>2, <3>1, <3>2
  <2>3. CASE s # r
    <3>1. job'[s] = job[s]
      BY <1>3, <2>3
    <3> QED
      BY <2>a, <2>1, <3>1 DEF SnapshotIsFresh
  <2> QED
    BY <2>2, <2>3
<1>9. SampledSoFar'
  <2>1. ASSUME NEW x PROVE InHand(x)' <=> InHand(x)
    BY <1>3 DEF InHand
  <2> QED
    BY <1>2, <2>1 DEF SampledSoFar
<1> QED
  BY <1>7, <1>8, <1>9

\* A sample is taken at the tickCount of the row, which nobody else has in hand.
LEMMA SampleKeeps ==
    ASSUME TypeOK, JobFits, TickedAlone, SnapshotIsFresh, SampledSoFar,
           NEW r \in Runs, Sample(r)
    PROVE  TickedAlone' /\ SnapshotIsFresh' /\ SampledSoFar'
<1>1. PICK d \in job[r].todo :
        /\ sampled' = IF d.tickCount = MaxTicks THEN sampled
                      ELSE [sampled EXCEPT ![d.simulation][d.tickCount] =
                              IF @ = 2 THEN 2 ELSE @ + 1]
        /\ job' = [job EXCEPT ![r] =
                     [pc |-> "increment", todo |-> job[r].todo \ {d}, cur |-> d]]
  BY DEF Sample, TypeOK
<1>2. /\ job[r].cur = NoneListed /\ d \in Listed /\ job[r].todo \subseteq Listed
      /\ simulations' = simulations /\ disturbed' = disturbed
  BY DEF Sample, JobFits, TypeOK, Job
<1>3. /\ job'[r].todo = job[r].todo \ {d} /\ job'[r].cur = d
      /\ \A s \in Runs \ {r} : job'[s] = job[s]
  BY <1>1 DEF TypeOK
<1>4. d.simulation \in Simulations /\ d.simulation \in Holds(r)
  BY <1>2, ListedFacts DEF Holds
<1>5. ASSUME NEW s \in Runs, NEW x \in Simulations PROVE x \in Holds(s)' => x \in Holds(s)
  BY <1>2, <1>3, <1>4 DEF Holds
<1>6. TickedAlone'
  BY <1>2, <1>5 DEF TickedAlone
<1>7. SnapshotIsFresh'
  <2> SUFFICES ASSUME NEW x \in Simulations \ disturbed, NEW s \in Runs
               PROVE  /\ \A e \in job'[s].todo : e.simulation = x =>
                           /\ e.tickCount = simulations[x].tickCount
                           /\ job'[s].cur.simulation # x
                      /\ job'[s].cur.simulation = x =>
                           job'[s].cur.tickCount = simulations[x].tickCount
    BY <1>2 DEF SnapshotIsFresh
  <2>1. CASE s # r
    BY <1>3, <2>1 DEF SnapshotIsFresh
  <2>2. CASE s = r
    <3>1. ASSUME NEW e \in job[r].todo, e # d, e.simulation = x PROVE d.simulation # x
      <4>1. SUFFICES ASSUME d.simulation = x PROVE FALSE
        OBVIOUS
      <4>2. e.tickCount = d.tickCount
        BY <3>1, <4>1 DEF SnapshotIsFresh
      <4> QED
        BY <1>2, <3>1, <4>1, <4>2, ListedFacts
    <3> QED
      BY <1>3, <2>2, <3>1 DEF SnapshotIsFresh
  <2> QED
    BY <2>1, <2>2
<1>8. SampledSoFar'
  <2> SUFFICES ASSUME NEW x \in Simulations \ disturbed, NEW n \in 0 .. MaxTicks - 1
               PROVE  sampled'[x][n] = IF \/ n < simulations[x].tickCount
                                          \/ n = simulations[x].tickCount /\ InHand(x)'
                                       THEN 1 ELSE 0
    BY <1>2 DEF SampledSoFar
  <2>1. CASE d.simulation # x
    <3>1. InHand(x)' <=> InHand(x)
      BY <1>2, <1>3, <2>1, SimulatorAssumption DEF InHand, NoneListed
    <3>2. sampled'[x] = sampled[x]
      BY <1>1, <2>1 DEF TypeOK
    <3> QED
      BY <3>1, <3>2 DEF SampledSoFar
  <2>2. CASE d.simulation = x
    <3>1. d.tickCount = simulations[x].tickCount
      BY <2>2 DEF SnapshotIsFresh
    <3>2. ~InHand(x)
      BY <1>2, <1>4, <2>2, SimulatorAssumption DEF InHand, TickedAlone, Holds, NoneListed
    <3>3. InHand(x)'
      BY <1>3, <2>2 DEF InHand
    <3>4. simulations[x].tickCount \in 0 .. MaxTicks
      BY DEF TypeOK, Simulation
    <3>5. CASE n = d.tickCount
      <4>1. sampled[x][n] = 0
        BY <3>1, <3>2, <3>4, <3>5 DEF SampledSoFar
      <4>2. d.tickCount # MaxTicks
        BY <3>4, <3>5, SimulatorAssumption
      <4>3. sampled' = [sampled EXCEPT ![x][n] = IF @ = 2 THEN 2 ELSE @ + 1]
        BY <1>1, <2>2, <3>5, <4>2
      <4>4. sampled'[x][n] = IF sampled[x][n] = 2 THEN 2 ELSE sampled[x][n] + 1
        BY <4>3 DEF TypeOK
      <4> QED
        BY <3>1, <3>3, <3>5, <4>1, <4>4
    <3>6. CASE n # d.tickCount
      <4>1. sampled'[x][n] = sampled[x][n]
        BY <1>1, <2>2, <3>6 DEF TypeOK
      <4> QED
        BY <3>1, <3>6, <4>1 DEF SampledSoFar
    <3> QED
      BY <3>5, <3>6
  <2> QED
    BY <2>1, <2>2
<1> QED
  BY <1>6, <1>7, <1>8

\* An increment moves the tickCount past the sample that was in hand.
LEMMA IncrementKeeps ==
    ASSUME TypeOK, JobFits, TickedAlone, SnapshotIsFresh, SampledSoFar,
           NEW r \in Runs, IncrementTick(r)
    PROVE  TickedAlone' /\ SnapshotIsFresh' /\ SampledSoFar'
<1> DEFINE y == job[r].cur.simulation
<1>1. y \in Simulations /\ job[r].cur \in Listed
  BY ListedFacts DEF IncrementTick, JobFits
<1>2. /\ simulations' = [simulations EXCEPT
             ![y].tickCount = IF @ < MaxTicks THEN @ + 1 ELSE @]
      /\ job' = [job EXCEPT ![r].pc = "walk", ![r].cur = NoneListed]
      /\ sampled' = sampled /\ disturbed' = disturbed
  BY DEF IncrementTick
<1>3. /\ job'[r].todo = job[r].todo /\ job'[r].cur = NoneListed
      /\ \A s \in Runs \ {r} : job'[s] = job[s]
  BY <1>2 DEF TypeOK, Job
<1>4. /\ \A x \in Simulations \ {y} : simulations'[x].tickCount = simulations[x].tickCount
      /\ simulations'[y].tickCount = IF simulations[y].tickCount < MaxTicks
                                     THEN simulations[y].tickCount + 1
                                     ELSE simulations[y].tickCount
  BY <1>1, <1>2 DEF TypeOK, Simulation
<1> HIDE DEF y
<1>5. ASSUME NEW s \in Runs, NEW x \in Simulations
      PROVE  /\ x \in Holds(s)' => x \in Holds(s)
             /\ job'[s].cur.simulation = x => s # r /\ job[s].cur.simulation = x
  BY <1>3, SimulatorAssumption DEF Holds, NoneListed
<1>6. y \in Holds(r)
  BY <1>1, SimulatorAssumption DEF Holds, y
<1>7. ASSUME NEW s \in Runs, y \notin disturbed
      PROVE  /\ y \notin Holds(s)'
             /\ job'[s].cur.simulation # y
             /\ \A d \in job'[s].todo : d.simulation # y
  <2>1. CASE s = r
    BY <1>1, <1>3, <1>7, <2>1, SimulatorAssumption DEF SnapshotIsFresh, Holds, NoneListed, y
  <2>2. CASE s # r
    <3>1. y \notin Holds(s)
      BY <1>1, <1>6, <1>7, <2>2 DEF TickedAlone
    <3>2. Holds(s)' = Holds(s)
      BY <1>3, <2>2 DEF Holds
    <3> QED
      BY <1>1, <3>1, <3>2, SimulatorAssumption DEF Holds
  <2> QED
    BY <2>1, <2>2
<1>8. TickedAlone'
  BY <1>2, <1>5 DEF TickedAlone
<1>9. SnapshotIsFresh'
  <2> SUFFICES ASSUME NEW x \in Simulations \ disturbed, NEW s \in Runs
               PROVE  /\ \A d \in job'[s].todo : d.simulation = x =>
                           /\ d.tickCount = simulations'[x].tickCount
                           /\ job'[s].cur.simulation # x
                      /\ job'[s].cur.simulation = x =>
                           job'[s].cur.tickCount = simulations'[x].tickCount
    BY <1>2 DEF SnapshotIsFresh
  <2>1. CASE x = y
    BY <1>7, <2>1
  <2>2. CASE x # y /\ s = r
    BY <1>3, <1>4, <1>5, <2>2 DEF SnapshotIsFresh
  <2>3. CASE x # y /\ s # r
    BY <1>3, <1>4, <2>3 DEF SnapshotIsFresh
  <2> QED
    BY <2>1, <2>2, <2>3
<1>10. SampledSoFar'
  <2> SUFFICES ASSUME NEW x \in Simulations \ disturbed, NEW n \in 0 .. MaxTicks - 1
               PROVE  sampled[x][n] = IF \/ n < simulations'[x].tickCount
                                         \/ n = simulations'[x].tickCount /\ InHand(x)'
                                      THEN 1 ELSE 0
    BY <1>2 DEF SampledSoFar
  <2>1. CASE x # y
    <3>1. InHand(x)' <=> InHand(x)
      BY <1>3, <1>5, <2>1 DEF InHand, y
    <3> QED
      BY <1>4, <2>1, <3>1 DEF SampledSoFar
  <2>2. CASE x = y
    <3>1. InHand(x) /\ ~InHand(x)'
      BY <1>7, <2>2 DEF InHand, y
    <3>2. simulations[x].tickCount \in 0 .. MaxTicks
      BY DEF TypeOK, Simulation
    <3> QED
      BY <1>4, <2>2, <3>1, <3>2, SimulatorAssumption DEF SampledSoFar
  <2> QED
    BY <2>1, <2>2
<1> QED
  BY <1>8, <1>9, <1>10

\* Where callbacks are in their ticks: every step keeps it.
LEMMA JobFitsStep == TypeOK /\ JobFits /\ [Next]_vars => JobFits'
<1> USE SimulatorAssumption
<1> SUFFICES ASSUME TypeOK, JobFits, [Next]_vars PROVE JobFits'
  OBVIOUS
<1>1. ASSUME NEW h \in Requests,
             \/ \E service \in Services : Start(h, service)
             \/ \E x \in Simulations : Stop(h, x)
             \/ CreateSimulation(h)
             \/ StopSimulation(h)
             \/ AbortRequest(h)
      PROVE  JobFits'
  BY <1>1 DEF Start, Stop, Asks, CreateSimulation, StopSimulation, AbortRequest,
              schedulerVars, JobFits
<1>2. ASSUME NEW r \in Runs, StartTick(r) PROVE JobFits'
  BY <1>2 DEF StartTick, TryLock, Off, JobFits, TypeOK, SchedulerTypeOK, Run
<1>3. ASSUME NEW r \in Runs, ListActive(r) PROVE JobFits'
  <2>1. job'[r].pc = "walk" /\ job'[r].cur = job[r].cur
    BY <1>3 DEF ListActive, TypeOK, Job
  <2>2. run' = run /\ \A s \in Runs \ {r} : job'[s] = job[s]
    BY <1>3 DEF ListActive, schedulerVars, TypeOK
  <2>3. job[r].pc = "list"
    BY <1>3 DEF ListActive
  <2> QED
    BY <2>1, <2>2, <2>3 DEF JobFits
<1>4. ASSUME NEW r \in Runs, Sample(r) PROVE JobFits'
  <2>1. PICK d \in job[r].todo : job' = [job EXCEPT ![r] =
          [pc |-> "increment", todo |-> job[r].todo \ {d}, cur |-> d]]
    BY <1>4 DEF Sample, TypeOK
  <2>2. d \in Listed
    BY DEF TypeOK, Job
  <2> QED
    BY <1>4, <2>1, <2>2 DEF Sample, schedulerVars, JobFits, TypeOK
<1>5. ASSUME NEW r \in Runs, IncrementTick(r) PROVE JobFits'
  <2>1. job'[r].pc = "walk" /\ job'[r].cur = NoneListed
    BY <1>5 DEF IncrementTick, TypeOK, Job
  <2>2. run' = run /\ \A s \in Runs \ {r} : job'[s] = job[s]
    BY <1>5 DEF IncrementTick, schedulerVars, TypeOK
  <2>3. job[r].pc = "increment"
    BY <1>5 DEF IncrementTick
  <2> QED
    BY <2>1, <2>2, <2>3 DEF JobFits
<1>6. ASSUME NEW r \in Runs, FinishTick(r) \/ FailTick(r) PROVE JobFits'
  <2>1. job'[r] = Off /\ \A s \in Runs \ {r} : job'[s] = job[s]
    BY <1>6 DEF FinishTick, FailTick, TypeOK
  <2>2. \A s \in Runs \ {r} : run'[s] = run[s]
    BY <1>6 DEF FinishTick, FailTick, EndTick, TypeOK, SchedulerTypeOK
  <2> QED
    BY <2>1, <2>2 DEF Off, JobFits
<1>7. ASSUME NEW r \in Runs, GiveBack(r) PROVE JobFits'
  <2>1. run[r].pc = "unlock" /\ job' = job
    BY <1>7 DEF GiveBack, Unlock, MissUnlock, simulatorVars
  <2>2. \A s \in Runs \ {r} : run'[s] = run[s]
    BY <1>7 DEF GiveBack, Unlock, MissUnlock, Ends, TypeOK, SchedulerTypeOK
  <2> QED
    BY <2>1, <2>2 DEF JobFits
<1>8. ASSUME NEW c \in Connections, Disconnect(c) PROVE JobFits'
  BY <1>8 DEF Disconnect, LoseConnection, simulatorVars, JobFits
<1>9. ASSUME NEW p \in Replicas, Crash(p) PROVE JobFits'
  BY <1>9 DEF Crash, CrashReplica, Off, JobFits
<1>10. CASE UNCHANGED vars
  BY <1>10 DEF vars, schedulerVars, simulatorVars, JobFits
<1> QED
  BY <1>1, <1>2, <1>3, <1>4, <1>5, <1>6, <1>7, <1>8, <1>9, <1>10 DEF Next

\* Simulations that were not started: every step keeps it.
LEMMA NotStartedStep == TypeOK /\ JobFits /\ NotStarted /\ [Next]_vars => NotStarted'
<1> USE SimulatorAssumption
<1> SUFFICES ASSUME TypeOK, JobFits, NotStarted, [Next]_vars PROVE NotStarted'
  OBVIOUS
\* Steps that neither ask for a stop nor list a simulation, nor touch the rows.
<1>a. ASSUME simulations' = simulations,
             \A h \in Requests : request'[h].pc = "stop" => request'[h] = request[h],
             \A r \in Runs : job'[r] = job[r] \/ (job'[r].todo = {} /\ job'[r].cur = NoneListed)
      PROVE  NotStarted'
  <2>1. ASSUME NEW x \in Simulations, NEW r \in Runs PROVE x \in Holds(r)' => x \in Holds(r)
    BY <1>a DEF Holds, NoneListed
  <2> QED
    BY <1>a, <2>1 DEF NotStarted
<1>b. ASSUME NEW h \in Requests, Answered(h)
      PROVE  \A k \in Requests : request'[k].pc = "stop" => request'[k] = request[k] /\ k # h
  BY <1>b DEF Answered, NoRequest, TypeOK
<1>c. job' = job => \A r \in Runs : Holds(r)' = Holds(r)
  BY DEF Holds
<1>1. ASSUME NEW h \in Requests, NEW service \in Services, Start(h, service)
      PROVE  NotStarted'
  <2>1. \A k \in Requests : request'[k].pc = "stop" => request'[k] = request[k]
    BY <1>1 DEF Start, Asks, TypeOK
  <2> QED
    BY <1>a, <1>1, <2>1 DEF Start, Asks
<1>2. ASSUME NEW h \in Requests, NEW x \in Simulations, Stop(h, x) PROVE NotStarted'
  <2>1. \A k \in Requests : request'[k].pc = "stop" =>
           request'[k] = request[k] \/ request'[k].simulation = x
    BY <1>2 DEF Stop, Asks, TypeOK
  <2> QED
    BY <1>2, <1>c, <2>1 DEF Stop, Asks, Running, NotStarted
<1>3. ASSUME NEW h \in Requests, CreateSimulation(h) PROVE NotStarted'
  <2>1. \A x \in Simulations : simulations'[x].state = "NONE" => simulations'[x] = simulations[x]
    BY <1>3 DEF CreateSimulation, TypeOK
  <2> QED
    BY <1>3, <1>b, <1>c, <2>1 DEF CreateSimulation, NotStarted
<1>4. ASSUME NEW h \in Requests, StopSimulation(h) PROVE NotStarted'
  <2>1. \A x \in Simulations : simulations'[x].state = "NONE" => simulations'[x] = simulations[x]
    BY <1>4 DEF StopSimulation, TypeOK, Simulation
  <2> QED
    BY <1>4, <1>b, <1>c, <2>1 DEF StopSimulation, NotStarted
<1>5. ASSUME NEW h \in Requests, AbortRequest(h) PROVE NotStarted'
  BY <1>a, <1>b, <1>5 DEF AbortRequest
<1>6. ASSUME NEW r \in Runs, ListActive(r) PROVE NotStarted'
  <2> DEFINE rows == {[simulation |-> x, tickCount |-> simulations[x].tickCount] :
                        x \in {x \in Simulations : Running(x)}}
  <2>1. /\ job'[r].todo = rows /\ job'[r].cur = NoneListed
        /\ \A s \in Runs \ {r} : job'[s] = job[s]
    BY <1>6 DEF ListActive, JobFits, TypeOK, Job
  <2>2. ASSUME NEW x \in Simulations, simulations[x].state = "NONE", NEW s \in Runs
        PROVE  x \in Holds(s)' => x \in Holds(s)
    <3>1. CASE s = r
      <4>1. \A d \in rows : d.simulation # x
        BY <2>2 DEF Running
      <4> HIDE DEF rows
      <4> QED
        BY <2>1, <3>1, <4>1 DEF Holds, NoneListed
    <3>2. CASE s # r
      BY <2>1, <3>2 DEF Holds
    <3> QED
      BY <3>1, <3>2
  <2>3. simulations' = simulations /\ request' = request
    BY <1>6 DEF ListActive
  <2> QED
    BY <2>2, <2>3 DEF NotStarted
<1>7. ASSUME NEW r \in Runs, Sample(r) PROVE NotStarted'
  <2>1. PICK d \in job[r].todo : job' = [job EXCEPT ![r] =
          [pc |-> "increment", todo |-> job[r].todo \ {d}, cur |-> d]]
    BY <1>7 DEF Sample, TypeOK
  <2>2. \A s \in Runs : \A x \in Simulations : x \in Holds(s)' => x \in Holds(s)
    BY <2>1 DEF Holds, TypeOK
  <2> QED
    BY <1>7, <2>2 DEF Sample, NotStarted
<1>8. ASSUME NEW r \in Runs, IncrementTick(r) PROVE NotStarted'
  <2> DEFINE y == job[r].cur.simulation
  <2>1. y \in Simulations /\ y \in Holds(r)
    BY <1>8, ListedFacts DEF IncrementTick, JobFits, Holds
  <2>2. \A x \in Simulations : /\ simulations'[x].state = simulations[x].state
                               /\ x # y => simulations'[x] = simulations[x]
    BY <1>8 DEF IncrementTick, TypeOK, Simulation
  <2>3. /\ job'[r].todo = job[r].todo /\ job'[r].cur = NoneListed
        /\ \A s \in Runs \ {r} : job'[s] = job[s]
    BY <1>8 DEF IncrementTick, TypeOK, Job
  <2>4. \A s \in Runs : \A x \in Simulations : x \in Holds(s)' => x \in Holds(s)
    BY <2>3 DEF Holds, NoneListed
  <2>5. request' = request
    BY <1>8 DEF IncrementTick
  <2>6. simulations[y].state # "NONE"
    BY <2>1 DEF NotStarted
  <2> HIDE DEF y
  <2>7. ASSUME NEW x \in Simulations, simulations'[x].state = "NONE"
        PROVE  simulations'[x] = simulations[x] /\ simulations[x].state = "NONE"
    BY <2>2, <2>6, <2>7
  <2> QED
    BY <2>4, <2>5, <2>7 DEF NotStarted
<1>9. ASSUME NEW r \in Runs, StartTick(r) PROVE NotStarted'
  BY <1>a, <1>9 DEF StartTick, Off, TypeOK
<1>10. ASSUME NEW r \in Runs, FinishTick(r) \/ FailTick(r) PROVE NotStarted'
  BY <1>a, <1>10 DEF FinishTick, FailTick, Off, TypeOK
<1>11. ASSUME NEW r \in Runs, GiveBack(r) PROVE NotStarted'
  BY <1>a, <1>11 DEF GiveBack, simulatorVars
<1>12. ASSUME NEW c \in Connections, Disconnect(c) PROVE NotStarted'
  BY <1>a, <1>12 DEF Disconnect, simulatorVars
<1>13. ASSUME NEW p \in Replicas, Crash(p) PROVE NotStarted'
  BY <1>a, <1>13 DEF Crash, Off
<1>14. CASE UNCHANGED vars
  BY <1>a, <1>14 DEF vars, simulatorVars
<1> QED
  BY <1>1, <1>2, <1>3, <1>4, <1>5, <1>6, <1>7, <1>8, <1>9, <1>10, <1>11, <1>12, <1>13,
     <1>14 DEF Next

\* All other steps let go.
LEMMA OthersLetGo ==
    ASSUME TypeOK, JobFits, NotStarted, [Next]_vars,
           \A r \in Runs : ~ListActive(r) /\ ~Sample(r) /\ ~IncrementTick(r)
    PROVE  LetsGo
<1> USE SimulatorAssumption
<1>a. ASSUME job' = job, sampled' = sampled, disturbed' = disturbed,
             \A x \in Simulations : simulations'[x].tickCount = simulations[x].tickCount
      PROVE  LetsGo
  BY <1>a DEF LetsGo
<1>b. ASSUME sampled' = sampled, simulations' = simulations, disturbed \subseteq disturbed',
             \A r \in Runs : Drops(r)
      PROVE  LetsGo
  BY <1>b DEF LetsGo, Drops
<1>1. ASSUME NEW h \in Requests,
             \/ \E service \in Services : Start(h, service)
             \/ \E x \in Simulations : Stop(h, x)
             \/ AbortRequest(h)
      PROVE  LetsGo
  BY <1>a, <1>1 DEF Start, Stop, Asks, AbortRequest
<1>2. ASSUME NEW h \in Requests, CreateSimulation(h) PROVE LetsGo
  <2>1. \A x \in Simulations : simulations'[x].tickCount = simulations[x].tickCount
    BY <1>2 DEF CreateSimulation, NotStarted, TypeOK
  <2> QED
    BY <1>a, <1>2, <2>1 DEF CreateSimulation
<1>3. ASSUME NEW h \in Requests, StopSimulation(h) PROVE LetsGo
  <2>1. \A x \in Simulations : simulations'[x].tickCount = simulations[x].tickCount
    BY <1>3 DEF StopSimulation, TypeOK, Simulation
  <2> QED
    BY <1>a, <1>3, <2>1 DEF StopSimulation
<1>4. ASSUME NEW r \in Runs, StartTick(r) PROVE LetsGo
  <2>1. job[r].pc = "off"
    BY <1>4 DEF StartTick, TryLock, JobFits
  <2>2. \A s \in Runs : job'[s].todo = job[s].todo /\ job'[s].cur = job[s].cur
    BY <1>4, <2>1 DEF StartTick, Off, JobFits, TypeOK
  <2> QED
    BY <1>4, <2>2 DEF StartTick, LetsGo
<1>5. ASSUME NEW r \in Runs, FinishTick(r) PROVE LetsGo
  <2>1. CutShort(r) = {}
    BY <1>5 DEF FinishTick, JobFits, CutShort, NoneListed
  <2>2. \A s \in Runs : job'[s] = IF s = r THEN Off ELSE job[s]
    BY <1>5 DEF FinishTick, TypeOK
  <2>3. \A s \in Runs : Drops(s)
    BY <2>1, <2>2 DEF Off, Drops
  <2> QED
    BY <1>b, <1>5, <2>3 DEF FinishTick
<1>6. ASSUME NEW r \in Runs, FailTick(r) PROVE LetsGo
  <2>1. \A s \in Runs : job'[s] = IF s = r THEN Off ELSE job[s]
    BY <1>6 DEF FailTick, TypeOK
  <2>2. \A s \in Runs : Drops(s)
    BY <1>6, <2>1 DEF FailTick, Off, Drops
  <2>3. disturbed \subseteq disturbed' /\ sampled' = sampled /\ simulations' = simulations
    BY <1>6 DEF FailTick
  <2> QED
    BY <1>b, <2>2, <2>3
<1>7. ASSUME NEW r \in Runs, GiveBack(r) PROVE LetsGo
  BY <1>a, <1>7 DEF GiveBack, simulatorVars
<1>8. ASSUME NEW c \in Connections, Disconnect(c) PROVE LetsGo
  BY <1>a, <1>8 DEF Disconnect, simulatorVars
<1>9. ASSUME NEW p \in Replicas, Crash(p) PROVE LetsGo
  <2>1. \A s \in Runs : Drops(s)
    BY <1>9 DEF Crash, Off, Drops
  <2>2. disturbed \subseteq disturbed' /\ sampled' = sampled /\ simulations' = simulations
    BY <1>9 DEF Crash
  <2> QED
    BY <1>b, <2>1, <2>2
<1>10. CASE UNCHANGED vars
  BY <1>a, <1>10 DEF vars, simulatorVars
<1> QED
  BY <1>1, <1>2, <1>3, <1>4, <1>5, <1>6, <1>7, <1>8, <1>9, <1>10 DEF Next

-----------------------------------------------------------------------------

\* Nothing is started, listed or sampled at first.
LEMMA SimulatorInit == Init => SnapshotInv
<1> USE SimulatorAssumption
<1> SUFFICES ASSUME Init PROVE SnapshotInv
  OBVIOUS
<1>1. \A r \in Runs : job[r] = Off /\ Holds(r) = {}
  BY DEF Init, Off, Holds, NoneListed
<1>2. TypeOK
  <2>1. SchedulerTypeOK
    BY InitHolds DEF Init, IInv
  <2>2. simulations \in [Simulations -> Simulation] /\ request \in [Requests -> Request]
    BY DEF Init, NoSimulation, Simulation, NoRequest, Request
  <2>3. job \in [Runs -> Job]
    BY DEF Init, Off, Job
  <2> QED
    BY <2>1, <2>2, <2>3 DEF Init, TypeOK
<1>3. JobFits
  BY <1>1 DEF Off, JobFits
<1>4. NotStarted
  BY <1>1 DEF Init, NoSimulation, NoRequest, NotStarted
<1>5. TickedAlone /\ SnapshotIsFresh /\ SampledSoFar
  BY <1>1 DEF Init, NoSimulation, Off, NoneListed, InHand, TickedAlone, SnapshotIsFresh,
              SampledSoFar
<1> QED
  BY <1>2, <1>3, <1>4, <1>5 DEF SnapshotInv

\* What is in the hand of callbacks is what was sampled and not incremented.
LEMMA SampledOnce == SnapshotInv => EveryTickSampledOnce
<1> USE SimulatorAssumption
<1> SUFFICES ASSUME SnapshotInv, NEW x \in Simulations \ disturbed,
                    NEW n \in 0 .. MaxTicks - 1
             PROVE  /\ sampled[x][n] <= 1
                    /\ n < simulations[x].tickCount <=>
                         /\ sampled[x][n] = 1
                         /\ \A r \in Runs :
                              job[r].cur # [simulation |-> x, tickCount |-> n]
  BY DEF EveryTickSampledOnce
<1>1. /\ simulations[x].tickCount \in Nat
      /\ sampled[x][n] = IF \/ n < simulations[x].tickCount
                            \/ n = simulations[x].tickCount /\ InHand(x)
                         THEN 1 ELSE 0
  BY DEF SnapshotInv, TypeOK, Simulation, SampledSoFar
<1>2. ASSUME NEW r \in Runs
      PROVE  job[r].cur = [simulation |-> x, tickCount |-> n] <=>
               job[r].cur.simulation = x /\ n = simulations[x].tickCount
  <2>1. job[r].cur.simulation = x =>
          /\ job[r].cur.tickCount = simulations[x].tickCount
          /\ job[r].cur \in Listed
    BY ListedFacts DEF SnapshotInv, SnapshotIsFresh, TypeOK, Job
  <2> QED
    BY <2>1, ListedFacts
<1> QED
  BY <1>1, <1>2 DEF InHand

\* The invariant of every behaviour of the simulator.
THEOREM SnapshotInvariant == Spec => []SnapshotInv
<1>1. Spec => []IInv
  BY ImplementsScheduler, Invariant, PTL
<1>2. SnapshotInv /\ IInv /\ IInv' /\ [Next]_vars => SnapshotInv'
  <2> SUFFICES ASSUME SnapshotInv, IInv, IInv', [Next]_vars PROVE SnapshotInv'
    OBVIOUS
  <2> USE DEF SnapshotInv
  <2>1. TypeOK'
    BY SimulatorTypeStep DEF IInv
  <2>2. JobFits' /\ NotStarted'
    BY JobFitsStep, NotStartedStep
  <2>3. TickedAlone' /\ SnapshotIsFresh' /\ SampledSoFar'
    <3>1. CASE \E r \in Runs : ListActive(r)
      BY <3>1, ListKeeps
    <3>2. CASE \E r \in Runs : Sample(r)
      BY <3>2, SampleKeeps
    <3>3. CASE \E r \in Runs : IncrementTick(r)
      BY <3>3, IncrementKeeps
    <3>4. CASE \A r \in Runs : ~ListActive(r) /\ ~Sample(r) /\ ~IncrementTick(r)
      BY <3>4, OthersLetGo, LettingGoKeeps
    <3> QED
      BY <3>1, <3>2, <3>3, <3>4
  <2> QED
    BY <2>1, <2>2, <2>3
<1> QED
  BY SimulatorInit, <1>1, <1>2, PTL DEF Spec

\* No tickCount of a simulation is sampled twice and none is left out
\* (failure-simulator.service.ts:103), whichever replicas tick, unless ticks of
\* one session overlapped on it or one was cut off in between.
THEOREM EveryTickSampledOnceHolds == Spec => []EveryTickSampledOnce
BY SnapshotInvariant, SampledOnce, PTL

=============================================================================
