------------------------------ MODULE MCRecords ------------------------------
(***************************************************************************)
(* What the platform keeps and what the seed scripts write, for TLC: the   *)
(* service catalog, the runbooks and the SLA records; the scripts, the     *)
(* stories and the windows they make up, the demo scenarios on the seeded  *)
(* rules and the blast radius on the seeded graph and on every graph of    *)
(* four services.  They share no state, so a behaviour is of one part: the *)
(* state of the others stays as it starts.                                 *)
(***************************************************************************)
EXTENDS Catalog, Runbooks, Sla, SeedScripts, SeededStory, SeededWindows,
        DemoScenarios, BlastRadius, TLC

CONSTANTS s1, s2, g1, g2, d1, d2, i1, r1, r2, b1, b2, l1, l2, h1, h2,
          x1, x2

VARIABLE part

MCServices == {s1, s2}
MCSlugs == {g1, g2}
MCDependencies == {d1, d2}
MCIncidents == {i1}
MCRequests == {r1, r2}
MCRunbooks == {b1, b2}
MCLinks == {l1, l2}
MCHandlers == {h1, h2}
MCSlaIncidents == {x1, x2}

\* Draws of the scripts: both ends and the middle.
MCDrawn(low, high) == {low, (low + high) \div 2, high}
\* A beat in progress that began up to 23 hours ago, or begins as late as that.
MCLeads == {-1380, 0, 12, 60, 1380}

\* Interchangeable, as the other ids are, which would cost more than it saves.
Symmetry == UNION {Permutations(S) : S \in {MCServices, MCRequests, MCHandlers,
                                            MCSlaIncidents}}

AllVars == <<catalogVars, runbookVars, slaVars, seedVars, storyVars, windowsVars,
             scenarioVars, query, part>>

Parts == {"catalog", "runbooks", "sla", "scripts", "story", "windows", "scenarios", "blast"}

MCInit ==
    /\ CatalogInit /\ RunbooksInit /\ SlaInit /\ SeedInit /\ StoryInit /\ ScenariosInit
    /\ part \in Parts
    /\ part # "catalog" => \A s \in Services : ~Registered(s)
    /\ part # "story" => beat.inProgress /\ beat.end = Hours(1)
    /\ part # "scenarios" => scenario = "LATENCY_SPIKE" /\ intensity = "HIGH" /\ target = 1
    /\ IF part = "windows" THEN WindowsInit ELSE ask = NoQuestion
    /\ IF part = "blast" THEN BlastInit(1 .. 4) ELSE query = NoQuery

RecordsNext ==
    /\ \/ part = "catalog" /\ CatalogNext /\ UNCHANGED <<runbookVars, slaVars>>
       \/ part = "runbooks" /\ RunbooksNext /\ UNCHANGED <<catalogVars, slaVars>>
       \/ part = "sla" /\ SlaNext /\ UNCHANGED <<catalogVars, runbookVars>>
    /\ UNCHANGED <<seedVars, storyVars, scenarioVars>>

SeededNext ==
    /\ \/ part = "scripts" /\ SeedNext /\ UNCHANGED <<storyVars, scenarioVars>>
       \/ part = "story" /\ StoryNext /\ UNCHANGED <<seedVars, scenarioVars>>
       \/ part = "scenarios" /\ ScenariosNext /\ UNCHANGED <<seedVars, storyVars>>
    /\ UNCHANGED <<catalogVars, runbookVars, slaVars>>

MCNext == (RecordsNext \/ SeededNext) /\ UNCHANGED <<windowsVars, query, part>>

MCSpec == MCInit /\ [][MCNext]_AllVars
=============================================================================
