SPECIFICATION Spec
CONSTANTS
  p1 = p1
  p2 = p2
  p3 = p3
  c1 = c1
  c2 = c2
  A = A
  B = B
  t1 = t1
  Process = {p1}
  Capsule = {c1, c2}
  Space = {A}
  SpaceOf <- OneSpace
  Fingerprint = {t1}
  TextOf <- OneText
  Keyless = {}
  Misconfigured = {}
  Batch = 2
  MaxAttempts = 3
  MaxGeneration = 4
  MaxRefusals = 1
  MaxCrashes = 0
  MaxErrors = 0
  MaxMishaps = 0
  NoProcess = NoProcess
  NoSpace = NoSpace
SYMMETRY Interchangeable
PROPERTIES LexicalUntilVector
