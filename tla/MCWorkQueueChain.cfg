SPECIFICATION FairSpec
CONSTANTS
  u1 = u1
  u2 = u2
  d = d
  Items = {u1, d}
  Principals = {p1, p2}
  DependsOn <- Chain
  WakeTimes <- Wakes
  LeaseTtl = 1
  MaxTime = 2
  MaxAttempt = 2
  NoLease = NoLease
  NoWake = NoWake
INVARIANTS TypeOK LeaseRidesExecution
PROPERTIES LeaseDeathIsFinal JournalExplainsStatus DueIsServed
CHECK_DEADLOCK FALSE
