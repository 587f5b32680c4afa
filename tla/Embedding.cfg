SPECIFICATION FairSpec
CONSTANTS
  p1 = p1
  p2 = p2
  p3 = p3
  c1 = c1
  c2 = c2
  A = A
  B = B
  t1 = t1
  Process = {p1, p2, p3}
  Capsule = {c1, c2}
  Space = {A, B}
  SpaceOf <- TwoSpaces
  Fingerprint = {t1}
  TextOf <- OneText
  Keyless = {p3}
  Misconfigured = {p3}
  Batch = 2
  MaxAttempts = 3
  MaxGeneration = 3
  MaxRefusals = 1
  MaxCrashes = 1
  MaxErrors = 1
  MaxMishaps = 1
  NoProcess = NoProcess
  NoSpace = NoSpace
INVARIANTS NothingOfForgotten ServingIsWhole AttemptsAreEarned SyncedIsQueued
PROPERTIES SentOnlyWanted TransitionEndsUntroubled
