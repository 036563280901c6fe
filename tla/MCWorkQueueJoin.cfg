SPECIFICATION WorkerSpec
CONSTANTS
  u1 = u1
  u2 = u2
  d = d
  Items = {u1, u2, d}
  Principals = {p1}
  DependsOn <- Join
  WakeTimes <- Wakes
  LeaseTtl = 1
  MaxTime = 1
  MaxAttempt = 2
  NoLease = NoLease
  NoWake = NoWake
INVARIANTS DependencyGate NoLostPromotion
CHECK_DEADLOCK FALSE
