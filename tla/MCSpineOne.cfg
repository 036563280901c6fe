SPECIFICATION FairSpec
CONSTANTS
  c1 = c1
  c2 = c2
  x = x
  y = y
  Txs = {t1, t2}
  Topics = {x, y}
  Consumers = {c1, c2}
  Selects <- Selectors
  Dispatchers = {p1}
  Batch = 2
  MaxSeq = 3
  MaxFaults = 1
  Reliable = {c2}
  NoTx = NoTx
  Idle = Idle
INVARIANTS Gapless NoEventSkipped HandledIsPrefix OnlyFaultsRepeat
PROPERTIES ImplementsOrderedLog EveryEventDelivered
CHECK_DEADLOCK FALSE
