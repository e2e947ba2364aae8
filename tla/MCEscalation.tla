---------------------------- MODULE MCEscalation ----------------------------
(* Escalation for TLC: one incident, one request and two sweeps at a time. *)
EXTENDS Escalation, TLC

CONSTANTS i1, u1, h1, s1, s2, null

MCIncidents == {i1}
MCSeverities == {"SEV1", "SEV2"}
MCUsers == {u1}
MCHandlers == {h1}
MCInstants == {0, 1, 2, 4, 6}
MCNull == null
OneSweep == {s1}
TwoSweeps == {s1, s2}

\* The newest timeline and audit entries and the histories of module Incidents
\* decide nothing and no property here names them.
View == <<now, incidents, rcaApproved, handler, sweepVars>>

Symmetry == Permutations(TwoSweeps)
=============================================================================
