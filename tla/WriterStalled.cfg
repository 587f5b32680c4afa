SPECIFICATION Spec
CONSTANTS
  a = a
  b = b
  i = i
  j = j
  k = k
  Run = {a, b}
  Inst = {i, j}
  Nobody = Nobody
  Red = {}
  Thread = {}
  Failover = {}
  Steady = {}
  MaxHead = 0
  SlowLaunch = TRUE
  LongStart = FALSE
INVARIANTS LaunchKeepsItsRun
CHECK_DEADLOCK FALSE
