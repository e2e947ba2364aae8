------------------------- MODULE MCFailureSimulator -------------------------
(* FailureSimulator for TLC: a replica with two connections and two           *)
(* callbacks, a second with one of each, and one simulation.                  *)
EXTENDS FailureSimulator, TLC

CONSTANTS p1, p2, c1, c2, c3, r1, r2, r3, x1, v1, h1, null

MCReplicas == {p1, p2}
MCConnections == {c1, c2, c3}
MCPool == (p1 :> {c1, c2}) @@ (p2 :> {c3})
MCRuns == {r1, r2, r3}
MCHost == (r1 :> p1) @@ (r2 :> p1) @@ (r3 :> p2)
MCSimulations == {x1}
MCServices == {v1}
MCRequests == {h1}
MCNull == null

\* What is alike in all of them: two sessions and two callbacks of one replica.
Symmetry == Permutations({c1, c2}) \cup Permutations({r1, r2})
=============================================================================
