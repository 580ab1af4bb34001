SPECIFICATION Spec
CONSTANTS
  a = a
  b = b
  Hosts <- TwoHosts
  Items <- OneItem
  Sees <- Shared
  MaxVersion = 2
  MaxRuns = 3
  WriteUntil = 2
  MaxFaults = 0
  Turns <- InTurn
  SecondsApart = TRUE
INVARIANT CommittedMerged
CHECK_DEADLOCK FALSE
