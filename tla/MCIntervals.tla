----------------------------- MODULE MCIntervals -----------------------------
(* Intervals for TLC: two replicas, each with one session and one callback.  *)
EXTENDS Intervals, TLC

CONSTANTS p1, p2, c1, c2, r1, r2, null

MCReplicas == {p1, p2}
MCConnections == {c1, c2}
MCPool == (p1 :> {c1}) @@ (p2 :> {c2})
MCRuns == {r1, r2}
MCHost == (r1 :> p1) @@ (r2 :> p2)
MCNull == null
=============================================================================
