CONSTANTS
  i1 = i1
  u1 = u1
  h1 = h1
  s1 = s1
  s2 = s2
  null = null
  Incidents <- MCIncidents
  Severities <- MCSeverities
  Users <- MCUsers
  ActiveUsers = {}
  Responders <- MCUsers
  Alerts = {}
  Handlers <- MCHandlers
  Sweepers <- TwoSweeps
  Instants <- MCInstants
  Null <- MCNull
SYMMETRY Symmetry
VIEW View
SPECIFICATION EscalationSpec
INVARIANTS
  NeverPagedWithinAckSla
  EveryLevelPagedOnce
PROPERTIES
  OnlyStaleSweepsMisfire
