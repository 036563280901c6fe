SPECIFICATION Spec
CONSTANTS
  p1 = p1
  p2 = p2
  ann = ann
  bob = bob
  acme = acme
  digest = digest
  None = None
  Idle = Idle
  Actors <- Two
  Requests <- TheRequests
  Subjects <- OneSubject
  SlaHours <- Slas
  Assignees <- People
  Path <- Paths
  Owner <- Owners
  MaxTime = 3
  MaxLag = 1
  Tenants <- OneTenant
  Watchers <- TwoWatchers
  Seeds <- TwoSeeds
  Plans <- TwoBuilds
  MaxFaults = 2
  Slugs <- OneSlug
  Semvers <- TwoSemvers
  Manifests <- TwoManifests
  Servers <- OneServer
  Answers <- TwoVerdicts
  Cron <- FirstMinute
  Builds <- TheBuilds
  MaxMinute = 1
  MaxRuns = 2
  MaxRestarts = 1
  N = 2
  Cadence <- Cadences
  EscalateAfter <- Days
  FirstDue <- Dues
  MaxNow = 2
  MaxCuts = 1
  Probes <- OneProbe
  Feeds <- TheFeeds
  Noise <- TheNoise
  Page = 1
  Interval = 1
  MaxPosts <- Posts
  MaxSyncs = 1
  MaxDisables = 1
  Expectations <- OneFeed
  Fires <- EveryMinute
  Grace <- OneMinute
  MaxScan = 2
  MaxClock = 4
  Contents <- OneContent
  Docs <- TwoDocs
  Entities <- TheEntities
  Contacts <- TheEntities
  AnswersLlm <- TheAnswers
  Strength <- Strengths
  Audiences <- TheAudiences
  ArmLimit = 3
  SearchLimit = 2
  MaxPaths = 2
  MaxOps = 6
  Keys <- TheKeys
  Templates <- TheTemplates
  Dynamic <- DynamicRun
  Deltas <- TheDeltas
  MaxCrash = 1
SYMMETRY Symmetry
INVARIANTS
  TypesOK
  LadderClimbed
  MigratedOnce
  FleetsAreWhole
  CurrentIsActive
  SkillsRunAsApproved
  FollowUpsWereMade
  CursorNeverSkips
  MissesGrow
  WrittenOnce
  ProspectsStayOut
  GraphsAsApproved
PROPERTIES
  SettledIsNotChased
CHECK_DEADLOCK FALSE
