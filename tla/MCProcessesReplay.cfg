SPECIFICATION FairSpec
CONSTANTS
  u1 = u1
  u2 = u2
  low = low
  Items = {u1, low}
  Principals = {p1}
  DependsOn <- Chain
  MaxAttempt = 1
  NoLease = NoLease
  NoWake = NoWake
  Outcomes = {}
  AutoMax = 3
  Holds = {q1}
  Skippable = {low}
  ResultPort = TRUE
  MaxDocs = 0
  MaxCrash = 1
  Idle = Idle
PROPERTIES EventsAreHandled
CHECK_DEADLOCK FALSE
