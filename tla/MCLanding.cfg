SPECIFICATION FairSpec
CONSTANTS
  a = a
  b = b
  Hosts <- TwoHosts
  Items <- OneItem
  Sees <- Shared
  MaxVersion = 2
  MaxRuns = 4
  WriteUntil = 3
  MaxFaults = 1
  Turns <- TogetherOrInTurn
  SecondsApart = TRUE
INVARIANTS IInv NothingLost LatestIsNewest SettledComplete
PROPERTIES TargetNeverBack Converges
CHECK_DEADLOCK FALSE
