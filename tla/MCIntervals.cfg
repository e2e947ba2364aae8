CONSTANTS
  p1 = p1
  p2 = p2
  c1 = c1
  c2 = c2
  r1 = r1
  r2 = r2
  null = null
  Replicas <- MCReplicas
  Connections <- MCConnections
  Pool <- MCPool
  Runs <- MCRuns
  Host <- MCHost
  MaxHeld = 1
  Null <- MCNull
SPECIFICATION IntervalsSpec
INVARIANT OneTickPerInterval
