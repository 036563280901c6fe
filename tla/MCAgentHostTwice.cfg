SPECIFICATION Spec
CONSTANTS
  Items = {i1, i2}
  LeaseTtl = 1
  MaxTime = 1
  MaxAttempt = 1
  NoLease = NoLease
  NoWake = NoWake
  Agent = a
  UsdPerRun = 3
  UsdPerDay = 3
  CallCosts = {2}
  Reports = {"done"}
  DayLength = 1
  MaxEvents = 1
  MaxFaults = 1
  NoRun = NoRun
INVARIANTS OneItemPerEvent
CHECK_DEADLOCK FALSE
