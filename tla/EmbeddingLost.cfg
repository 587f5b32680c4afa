SPECIFICATION FairSpec
CONSTANTS
  p1 = p1
  p2 = p2
  p3 = p3
  c1 = c1
  c2 = c2
  A = A
  B = B
  t1 = t1
  Process = {p1, p2}
  Capsule = {c1}
  Space = {A, B}
  SpaceOf <- TwoSpaces
  Fingerprint = {t1}
  TextOf <- OneText
  Keyless = {}
  Misconfigured = {}
  Batch = 1
  MaxAttempts = 4
  MaxGeneration = 2
  MaxRefusals = 0
  MaxCrashes = 1
  MaxErrors = 2
  MaxMishaps = 3
  NoProcess = NoProcess
  NoSpace = NoSpace
PROPERTIES TransitionEnds
