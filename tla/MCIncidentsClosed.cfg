CONSTANTS
  i1 = i1
  u1 = u1
  a1 = a1
  h1 = h1
  h2 = h2
  null = null
  Incidents <- MCIncidents
  Severities <- MCSeverities
  Users <- MCUsers
  ActiveUsers <- MCActiveUsers
  Responders <- MCResponders
  Alerts <- MCAlerts
  Handlers <- MCHandlers
  Instants <- MCInstants
  Null <- MCNull
SPECIFICATION Spec
PROPERTY NoSevereCloseWithoutRca
