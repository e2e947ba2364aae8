---------------------------- MODULE MCIncidents ----------------------------
(* Incidents for TLC: one incident, one alert, two requests in flight. *)
EXTENDS Incidents, TLC

CONSTANTS i1, u1, a1, h1, h2, null

MCIncidents == {i1}
MCSeverities == {"SEV2", "SEV3"}
MCUsers == {u1}
MCActiveUsers == {u1}
MCResponders == {}
MCAlerts == {a1}
MCHandlers == {h1, h2}
MCInstants == {0, 1}
MCNull == null

\* In this module time is only written down (openedAt) and compared by nothing.
View == <<[i \in MCIncidents |-> [incidents[i] EXCEPT !.openedAt = 0]],
          alertIncident, rcaApproved, handler, logs, stale, disturbed>>

Symmetry == Permutations(MCHandlers)
=============================================================================
