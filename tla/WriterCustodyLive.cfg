SPECIFICATION FairSpec
CONSTANTS
  a = a
  b = b
  i = i
  j = j
  k = k
  Run = {a, b}
  Inst = {i, j}
  Nobody = Nobody
  Red = {b}
  Thread = {}
  Failover = {}
  Steady = {j}
  MaxHead = 1
  SlowLaunch = FALSE
  LongStart = FALSE
CHECK_DEADLOCK FALSE
INVARIANTS LaunchKeepsItsRun
PROPERTIES RedStartsOnItsCommit LostRunsAreOrphaned PoisonHeals
