SPECIFICATION Spec
CONSTANTS
  a = a
  b = b
  s = s
  n = n
  p = p
  q = q
  d = d
  Run = {a}
  Addr = {s}
  Pusher = {p}
  Drainer = {d}
  Node = {}
  Remote = {}
  Swarm = {}
  MaxRevived <- OneRevived
  MaxClaims <- Once
INVARIANTS ToldItEnded
CHECK_DEADLOCK FALSE
