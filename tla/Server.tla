------------------------------- MODULE Server -------------------------------
(***************************************************************************)
(* The life of one API process: the database check at boot, the scheduled  *)
(* jobs' ticks and the lookup of the account they act for, the requests it *)
(* serves, the shutdown at a signal and the exit it is given ten seconds   *)
(* for, and the restart by whoever runs it.  What a job does on its tick,  *)
(* and the lock some take first, are the Scheduler module's subject.       *)
(***************************************************************************)
EXTENDS Naturals, FiniteSets

CONSTANTS
    Ticks,        \* the ticks under way at one time, of whatever jobs: a timer
                  \* fires whether or not the job's last tick has ended
    MaxServed     \* bound: requests open at one time

VARIABLES
    life,         \* "down", "booting", "up", "stopping", "closing", "exited"
    database,     \* whether it answers
    seeded,       \* whether the system actor's row exists
    actor,        \* whether this process has found it: the cache
    ticks,        \* each tick: "none", "looking" for the actor, "running" its job
    proven,       \* whether a tick of this process has run its job
    early,        \* the ticks that began before that
    open,         \* requests being served
    cause         \* why the process ended last

serverVars == <<life, database, seeded, actor, ticks, proven, early, open, cause>>
jobVars == <<actor, ticks, proven, early>>

NoTicks == [t \in Ticks |-> "none"]

ServerInit ==
    /\ life = "down"
    /\ database \in BOOLEAN /\ seeded \in BOOLEAN
    /\ actor = FALSE
    /\ ticks = NoTicks
    /\ proven = FALSE /\ early = {}
    /\ open = 0
    /\ cause = "none"

End(why) ==
    /\ life' = "exited" /\ cause' = why
    /\ actor' = FALSE /\ ticks' = NoTicks /\ open' = 0
    /\ proven' = FALSE /\ early' = {}
    /\ UNCHANGED <<database, seeded>>

-----------------------------------------------------------------------------

\* External: the database goes and comes, the seed script runs, and Docker
\* starts the process, again when it has ended.
Blip == database' = ~database /\ UNCHANGED <<life, seeded, jobVars, open, cause>>
Seed == ~seeded /\ seeded' = TRUE /\ UNCHANGED <<life, database, jobVars, open, cause>>
Start == /\ life \in {"down", "exited"}
         /\ life' = "booting"
         /\ UNCHANGED <<database, seeded, jobVars, open, cause>>

\* main: a database that does not answer ends the process at once.
Boot ==
    /\ life = "booting"
    /\ \/ /\ database
          /\ life' = "up"
          /\ UNCHANGED <<database, seeded, jobVars, open, cause>>
       \/ ~database /\ End("boot")

\* A timer fires: the actor is looked up unless it is cached.
StartTick(t) ==
    /\ life = "up" /\ ticks[t] = "none"
    /\ ticks' = [ticks EXCEPT ![t] = IF actor THEN "running" ELSE "looking"]
    /\ early' = IF proven THEN early \ {t} ELSE early \cup {t}
    /\ UNCHANGED <<life, database, seeded, actor, proven, open, cause>>

Working == {"up", "stopping", "closing"}

\* The mutated form: the row that was found is not cached.
LookUpEachTime(t) ==
    /\ life \in Working /\ ticks[t] = "looking"
    /\ \/ ~database /\ End("lookup")
       \/ /\ database
          /\ ticks' = [ticks EXCEPT ![t] = IF seeded THEN "running" ELSE "none"]
          /\ UNCHANGED <<life, database, seeded, actor, proven, early, open, cause>>

\* The lookup stands before the try: when the database fails, nobody handles
\* the rejection and the process ends.  Without the row the tick is skipped.
LookUp(t) ==
    /\ life \in Working /\ ticks[t] = "looking"
    /\ \/ ~database /\ End("lookup")
       \/ /\ database
          /\ actor' = seeded
          /\ ticks' = [ticks EXCEPT ![t] = IF seeded THEN "running" ELSE "none"]
          /\ UNCHANGED <<life, database, seeded, proven, early, open, cause>>

\* The job returns or throws, and either is only logged.
FinishTick(t) ==
    /\ life \in Working /\ ticks[t] = "running"
    /\ ticks' = [ticks EXCEPT ![t] = "none"]
    /\ proven' = TRUE
    /\ UNCHANGED <<life, database, seeded, actor, early, open, cause>>

Accept ==
    /\ life = "up" /\ open < MaxServed
    /\ open' = open + 1
    /\ UNCHANGED <<life, database, seeded, jobVars, cause>>

Serve ==
    /\ life \in Working /\ open > 0
    /\ open' = open - 1
    /\ UNCHANGED <<life, database, seeded, jobVars, cause>>

\* SIGINT or SIGTERM: no more ticks, no more requests.  Ticks under way are
\* not waited for.
Signal ==
    /\ life = "up"
    /\ life' = "stopping"
    /\ UNCHANGED <<database, seeded, jobVars, open, cause>>

\* With the last request answered the connections to the database are closed,
\* and the process exits.
Drain ==
    /\ life = "stopping" /\ open = 0
    /\ life' = "closing"
    /\ UNCHANGED <<database, seeded, jobVars, open, cause>>
Exit == life = "closing" /\ End("drained")

\* The mutated form: the timer is set when the last request has been answered.
ForceAfterDrain == life = "closing" /\ End("forced")

\* Ten seconds after the signal.
ForceExit == life \in {"stopping", "closing"} /\ End("forced")

ServerNext ==
    \/ Blip \/ Seed \/ Start \/ Boot
    \/ \E t \in Ticks : StartTick(t)
    \/ \E t \in Ticks : LookUp(t)
    \/ \E t \in Ticks : FinishTick(t)
    \/ Accept \/ Serve \/ Signal \/ Drain \/ Exit \/ ForceExit

\* Only the process's own timer is relied on: a request may never be answered
\* and the database may never come back.
ServerFairness == WF_serverVars(ForceExit)

-----------------------------------------------------------------------------

\* A signal ends the process, whatever its requests, its jobs and the database do.
ShutdownEnds == life \in {"stopping", "closing"} ~> life = "exited"

\* A database that goes away while the process is up ends it only through a
\* lookup that was begun before any tick had run its job.  From then on a blip
\* costs the ticks and requests that meet it and nothing else, which is what
\* the health router counts on when it keeps the database out of liveness.
OnlyFirstLookupsCrash ==
    [][life' = "exited" /\ life \in Working /\ cause' = "lookup"
           => \E t \in early : ticks[t] = "looking"]_serverVars

=============================================================================
