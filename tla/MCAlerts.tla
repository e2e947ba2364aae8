------------------------------ MODULE MCAlerts ------------------------------
(* Alerts for TLC: two alerts of a rule, three samples and one request of a person. *)
EXTENDS Alerts, TLC

CONSTANTS a1, a2, i1, i2, e1, e2, e3, p1, quiet, null

MCAlerts == {a1, a2}
MCIncidents == {i1, i2}
MCEvaluations == {e1, e2, e3}
MCPeople == {p1}
MCQuiet == quiet
MCNull == null

\* Alerts, incidents and evaluations are interchangeable.
Symmetry == Permutations(MCAlerts) \cup Permutations(MCIncidents)
              \cup Permutations(MCEvaluations)
=============================================================================
