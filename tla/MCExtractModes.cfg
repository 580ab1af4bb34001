SPECIFICATION Spec
CONSTANTS
  None = None
  Docs <- TwoDocs
  Overlap = 3
  InitialWatermark = None
  Modes <- EveryMode
  Untimed <- NoDocs
  Updatable <- NoDocs
  Deletable <- NoDocs
  BatchSize = 2
  DryRuns = {TRUE, FALSE}
  Lateness = 1
  Skew = 1
  TimeLimit = 1
  RunGap = 2
  SecondsApart = TRUE
  HeadAllowed = TRUE
  MaxTime = 4
  WriteUntil = 3
  MaxFaults = 2
INVARIANTS TypeOK NoLoss WatermarkBacked FreshAfterRun
PROPERTIES KindStable BucketGrows
CHECK_DEADLOCK FALSE
