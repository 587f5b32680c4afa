SPECIFICATION FairSpec
CONSTANTS
  p = p
  q = q
  s = s
  u = u
  c1 = c1
  c2 = c2
  d = d
  Process = {p, q}
  Thread = {s, u}
  Conn = {c1, c2, d}
  Nobody = Nobody
  Foreign = Foreign
  MaxDepth = 2
  Home <- MCHome
  Users <- SoloUsers
INVARIANTS NoSelfWait AtRestHoldsNothing
PROPERTIES AdmissionPassesOn
