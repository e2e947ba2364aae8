CONSTANTS
  s1 = s1
  s2 = s2
  t1 = t1
  t2 = t2
  h1 = h1
  h2 = h2
  a1 = a1
  a2 = a2
  a3 = a3
  null = null
  Scenarios <- MCScenarios
  Ticks <- MCTicks
  Requests <- MCRequests
  Alerts <- MCAlerts
  MaxTarget = 2
  Reviewer = TRUE
  Null <- MCNull
VIEW View
SPECIFICATION FairSpec
INVARIANTS
  FinishedRunIsClean
PROPERTIES
  DisableHolds
  ImplementsRun
  RunEnds
