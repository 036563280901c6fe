SPECIFICATION FairSpec
CONSTANTS
  u1 = u1
  u2 = u2
  low = low
  Items = {u1, low}
  Principals = {p1}
  DependsOn <- Chain
  MaxAttempt = 2
  NoLease = NoLease
  NoWake = NoWake
  Outcomes = {"human_blocked"}
  AutoMax = 3
  Holds = {}
  Skippable = {}
  ResultPort = FALSE
  MaxDocs = 0
  MaxCrash = 0
  Idle = Idle
PROPERTIES ReviewMovesNode
CHECK_DEADLOCK FALSE
