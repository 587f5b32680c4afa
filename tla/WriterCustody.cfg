SPECIFICATION Spec
CONSTANTS
  a = a
  b = b
  i = i
  j = j
  k = k
  Run = {a, b}
  Inst = {i, j, k}
  Nobody = Nobody
  Red = {}
  Thread = {a, b}
  Failover = {a}
  Steady = {}
  MaxHead = 0
  SlowLaunch = FALSE
  LongStart = FALSE
SYMMETRY Symmetry
CHECK_DEADLOCK FALSE
INVARIANTS WriterHoldsClaim ClosedIsDead
PROPERTIES ImplementsWorktree PoisonNeedsProof
