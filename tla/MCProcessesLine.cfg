SPECIFICATION Spec
CONSTANTS
  u1 = u1
  u2 = u2
  low = low
  Items = {u1, u2, low}
  Principals = {p1}
  DependsOn <- Line
  MaxAttempt = 1
  NoLease = NoLease
  NoWake = NoWake
  Outcomes = {"done"}
  AutoMax = 2
  Holds = {q1}
  Skippable = {low}
  ResultPort = TRUE
  MaxDocs = 1
  MaxCrash = 1
  Idle = Idle
INVARIANTS CascadeKillsOldLeases WideCascadesAreApproved SettledRunsAreSound
CHECK_DEADLOCK FALSE
