SPECIFICATION Spec
CONSTANTS
  a = a
  b = b
  i = i
  j = j
  k = k
  Run = {a, b}
  Inst = {i, j}
  Nobody = Nobody
  Red = {}
  Thread = {}
  Failover = {}
  Steady = {}
  MaxHead = 0
  SlowLaunch = FALSE
  LongStart = TRUE
INVARIANTS WriterHoldsClaim
CHECK_DEADLOCK FALSE
