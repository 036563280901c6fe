SPECIFICATION Spec
CONSTANTS
  u1 = u1
  u2 = u2
  low = low
  Items = {u1, u2, low}
  Principals = {p1}
  DependsOn <- Join
  MaxAttempt = 1
  NoLease = NoLease
  NoWake = NoWake
  Outcomes = {"done", "human_blocked"}
  AutoMax = 3
  Holds = {}
  Skippable = {}
  ResultPort = TRUE
  MaxDocs = 1
  MaxCrash = 0
  Idle = Idle
INVARIANTS NothingRunsAhead
CHECK_DEADLOCK FALSE
