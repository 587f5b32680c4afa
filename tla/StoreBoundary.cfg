SPECIFICATION FairSpec
CONSTANTS
  p = p
  q = q
  r = r
  Caller = {p, q}
  Row = {r}
  MaxNotes = 1
  MaxTraffic = 1
  Nobody = Nobody
  None = None
INVARIANTS OneRowEach CursorsAgree TrafficAccounted
PROPERTIES TrafficSettles
