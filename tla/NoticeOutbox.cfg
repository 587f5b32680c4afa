SPECIFICATION FairSpec
CONSTANTS
  a = a
  b = b
  s = s
  n = n
  p = p
  q = q
  d = d
  Run = {a}
  Addr = {s, n}
  Pusher = {p}
  Drainer = {d}
  Node = {n}
  Remote = {}
  Swarm = {}
  MaxRevived <- NoneRevived
  MaxClaims <- TwiceByHost
CHECK_DEADLOCK FALSE
INVARIANTS DeliveredWasHeard EndedIsArmed OwedNodeNoticeIsNamed
PROPERTIES ImplementsOutbox NoticesAreDelivered
