SPECIFICATION Spec
CONSTANTS
  r1 = r1
  r2 = r2
  Requests = {r1}
  KindOf <- MCKindOf
  Messages = {m1}
  Words = {"approve"}
  Elsewhere = {"denied"}
  Dispatchers = {d1}
  BatchSizes = {}
  Slots = {s1}
  MaxActs = 2
  MaxPosts = 1
  MaxFaults = 2
  NoOne = NoOne
INVARIANTS RepeatedIsAnnounced
CHECK_DEADLOCK FALSE
