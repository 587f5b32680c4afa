SPECIFICATION FairSpec
CONSTANTS
  b = b
  f = f
  Capsule = {b, f}
  Flagged = {f}
  ValidTo <- EndsAtOne
  After = 0
  MaxTime = 2
  MaxEdits = 2
  MaxReads = 1
  MaxCrashes = 1
  Unknown = Unknown
INVARIANTS SkipIsSound
PROPERTIES Implements OutlivedIsArchived RevokedIsRestored
