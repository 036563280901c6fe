SPECIFICATION FairSpec
CONSTANTS
  Nodes = {n1}
  Tenants = {t1}
  Watchers = {w1}
  Seeds <- TwoSeeds
  Plans <- TwoModules
  MaxFaults = 1
  Idle = Idle
PROPERTIES BootsSucceed
CHECK_DEADLOCK FALSE
