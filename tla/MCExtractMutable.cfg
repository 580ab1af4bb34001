SPECIFICATION FairSpec
CONSTANTS
  None = None
  Docs <- ThreeDocs
  Overlap = 2
  InitialWatermark = 3
  Modes <- Mutable
  Untimed = {3}
  Updatable = {1}
  Deletable = {1}
  BatchSize = 2
  DryRuns = {FALSE}
  Lateness = 1
  Skew = 0
  TimeLimit = 1
  RunGap = 2
  SecondsApart = TRUE
  HeadAllowed = TRUE
  MaxTime = 7
  WriteUntil = 3
  MaxFaults = 1
INVARIANTS NoLoss FreshAfterRun
PROPERTIES AtLeastOnce CatchesUp
CHECK_DEADLOCK FALSE
