SPECIFICATION FairSpec
CONSTANTS
  r1 = r1
  r2 = r2
  Requests = {r1, r2}
  KindOf <- MCKindOf
  Messages = {m1, m2}
  Words = {"approve", "noise"}
  Elsewhere = {"denied"}
  Dispatchers = {d1}
  BatchSizes = {}
  Slots = {s1, s2}
  MaxActs = 3
  MaxPosts = 2
  MaxFaults = 1
  NoOne = NoOne
INVARIANTS RepliesReachTheirRequest AnnouncedOnce CardsMatchEvents
PROPERTIES FirstVerdictStands RepliesAreHeard
CHECK_DEADLOCK FALSE
