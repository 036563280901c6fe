SPECIFICATION FairSpec
CONSTANTS
  Items = {i1}
  LeaseTtl = 1
  MaxTime = 1
  MaxAttempt = 2
  NoLease = NoLease
  NoWake = NoWake
  Agent = a
  UsdPerRun = 3
  UsdPerDay = 3
  CallCosts = {2}
  Reports = {"done"}
  DayLength = 1
  MaxEvents = 1
  MaxFaults = 1
  NoRun = NoRun
INVARIANTS DoneItemsHaveResults BudgetsHold
PROPERTIES WakesAreServed WorkGoesOn
CHECK_DEADLOCK FALSE
