CONSTANTS
  s1 = s1
  s2 = s2
  g1 = g1
  g2 = g2
  d1 = d1
  d2 = d2
  i1 = i1
  r1 = r1
  r2 = r2
  b1 = b1
  b2 = b2
  l1 = l1
  l2 = l2
  h1 = h1
  h2 = h2
  x1 = x1
  x2 = x2
  Services <- MCServices
  Slugs <- MCSlugs
  Statuses = {"CRITICAL"}
  Dependencies <- MCDependencies
  Incidents <- MCIncidents
  Requests <- MCRequests
  Unset = unset
  Deleted = deleted
  Runbooks <- MCRunbooks
  RunbookSlugs = {"slug"}
  Links <- MCLinks
  Linkable = {"incident"}
  Users = {"responder"}
  Handlers <- MCHandlers
  MaxEdits = 2
  Null = null
  SlaIncidents <- MCSlaIncidents
  Calculations = {"rollup"}
  MinuteLength = 40
  MonthLength = 3
  Months = 1
  TargetPercent = 5000
  Never = Never
  PlatformTables = {"service", "incident", "runbook", "incidentRunbook", "rcaReport", "demoModeState"}
  NotYet = notYet
  Responders = {"author"}
  Commanders = {"commander"}
  Drawn <- MCDrawn
  Ages = {1261, 3600, 14400}
  Leads <- MCLeads
  HistoryDays = 183
  MonthDays = 30
  Intensities = {"LOW", "MEDIUM", "HIGH"}
  Grain = 1
  Quiet = quiet
  MaxDepth = 3
  NoQuestion = noQuestion
  NoQuery = noQuery
SYMMETRY Symmetry
SPECIFICATION MCSpec
INVARIANTS
  VersionNamesItsText
  RecordFitsIncidents
  ScriptsAreAccepted
  OnlyRushedStoriesBreakOrder
  DowntimeIsChargedOnce
  OneSevereIncident
  BlastIsShortestChains
PROPERTIES
  OnlyOutdatedCountsArchive
  OnlyOvertakenHandlersRewriteOutcomes
\* With every id used, the last minute over or a story told nothing is left to do.
CHECK_DEADLOCK FALSE
