SPECIFICATION Spec
CONSTANTS
  a = a
  b = b
  s = s
  n = n
  p = p
  q = q
  d = d
  Run = {a, b}
  Addr = {s}
  Pusher = {p, q}
  Drainer = {}
  Node = {}
  Remote = {}
  Swarm = {a, b}
  MaxRevived <- OneRevived
  MaxClaims <- Once
CHECK_DEADLOCK FALSE
INVARIANTS OneHolderPerSwarm
