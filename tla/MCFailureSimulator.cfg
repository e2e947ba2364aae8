CONSTANTS
  p1 = p1
  p2 = p2
  c1 = c1
  c2 = c2
  c3 = c3
  r1 = r1
  r2 = r2
  r3 = r3
  x1 = x1
  v1 = v1
  h1 = h1
  null = null
  Replicas <- MCReplicas
  Connections <- MCConnections
  Pool <- MCPool
  Runs <- MCRuns
  Host <- MCHost
  MaxHeld = 2
  Null <- MCNull
  Simulations <- MCSimulations
  Services <- MCServices
  Requests <- MCRequests
  MaxTicks = 3
SYMMETRY Symmetry
SPECIFICATION Spec
INVARIANTS
  OneReplicaAtATime
  LockIsGivenBack
  EveryTickSampledOnce
