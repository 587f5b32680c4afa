SPECIFICATION CloseFairSpec
CONSTANTS
  a = a
  b = b
  d = d
  Asker = {a, b}
  Driver = d
  None = None
  MaxCloses = 4
  Stalls = TRUE
  Mortal = {a, d}
CHECK_DEADLOCK FALSE
INVARIANTS OneServerWhileRegistered AnswerIsNew
PROPERTIES EveryCallIsAnswered
