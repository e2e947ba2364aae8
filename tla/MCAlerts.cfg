CONSTANTS
  a1 = a1
  a2 = a2
  i1 = i1
  i2 = i2
  e1 = e1
  e2 = e2
  e3 = e3
  p1 = p1
  quiet = quiet
  null = null
  Severities = {"SEV1", "SEV3"}
  Alerts <- MCAlerts
  Incidents <- MCIncidents
  Evaluations <- MCEvaluations
  People <- MCPeople
  Quiet <- MCQuiet
  Null <- MCNull
SYMMETRY Symmetry
SPECIFICATION Spec
INVARIANTS
  OneFiring
  OneResponsePerAlert
  SevereAlertHasIncident
PROPERTIES
  OnlyStaleWritesReviveAlerts
\* Once every sample and every request is done the model stops.
CHECK_DEADLOCK FALSE
