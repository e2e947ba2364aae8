CONSTANTS
  ann = ann
  id = id
  Id = id
  noToken = noToken
  NoToken = noToken
  ra = ra
  t1 = t1
  t2 = t2
  c1 = c1
  c2 = c2
  Account = {ann}
  GivenRole = {"VIEWER", "COMMANDER", "ADMIN"}
  SeedRole <- MCSeedRole
  Request = {ra}
  Asks <- MCAsks
  Actor = {"someone", "someone else"}
  AnyActor = "anyone"
  Limit = 2
  MaxRows = 5
  Ticks = {t1, t2}
  MaxServed = 2
  Calls <- MCCalls
  FailureThreshold = 3
  ResetTimeout = 2
  SuccessesToClose = 1
  MaxAttempts = 3
  Resource = {"table", "health"}
  Filters <- MCFilters
  Default = "all"
  NoData = "nothing"
  EmptyBody = "{}"
  Incidents = {"incident"}
  Users = {"author", "reviewer"}
  Handlers = {"h1", "h2", "h3"}
  Texts = {"first", "second"}
  Null = null
SPECIFICATION MCSpec
INVARIANTS
  RightsAreCurrent
  DenialsHaveCause
  FourEyes
  AuditNeverLies
  WalkSeesEachRowOnce
  ClosedBelowThreshold
  SettledMeansCurrent
PROPERTIES
  OnlyStaleRequestsChangeApproved
  ShutdownEnds
  OnlyFirstLookupsCrash
  TripsOnlyOnStreak
  OpenLetsATrialThrough
