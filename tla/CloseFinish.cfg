SPECIFICATION CloseSpec
CONSTANTS
  a = a
  b = b
  d = d
  Asker = {a}
  Driver = d
  None = None
  MaxCloses = 1
  Stalls = FALSE
  Mortal = {}
INVARIANTS OneServer
CHECK_DEADLOCK FALSE
