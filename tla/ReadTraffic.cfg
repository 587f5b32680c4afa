SPECIFICATION FairSpec
CONSTANTS
  p = p
  q = q
  a = a
  Process = {p, q}
  Capsule = {a}
  Chunk = 1
  MaxSeq = 2
  OldRows = 2
  MaxTime = 2
  MaxBatch = 2
  MaxChanges = 2
CHECK_DEADLOCK FALSE
INVARIANTS LastReadExact ServedExact
PROPERTIES BuilderEnds
