SPECIFICATION Spec
CONSTANTS
  None = None
  Docs <- TwoDocs
  Overlap = 1
  InitialWatermark = None
  Modes <- Mutable
  Untimed <- NoDocs
  Updatable = {1}
  Deletable <- NoDocs
  BatchSize = 2
  DryRuns = {FALSE}
  Lateness = 0
  Skew = 0
  TimeLimit = 2
  RunGap = 2
  SecondsApart = TRUE
  HeadAllowed = TRUE
  MaxTime = 4
  WriteUntil = 3
  MaxFaults = 0
INVARIANT NewerVersionNotLost
CHECK_DEADLOCK FALSE
