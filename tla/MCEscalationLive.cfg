CONSTANTS
  i1 = i1
  u1 = u1
  h1 = h1
  s1 = s1
  s2 = s2
  null = null
  Incidents <- MCIncidents
  Severities = {"SEV1"}
  Users <- MCUsers
  ActiveUsers = {}
  Responders <- MCUsers
  Alerts = {}
  Handlers <- MCHandlers
  Sweepers <- OneSweep
  Instants = {0, 2, 4}
  Null <- MCNull
SPECIFICATION FairEscalationSpec
PROPERTY BreachIsPaged
