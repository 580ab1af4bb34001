SPECIFICATION Spec
CONSTANTS
  a = a
  b = b
  Hosts <- TwoHosts
  Items <- TwoItems
  Sees <- OwnItem
  MaxVersion = 1
  MaxRuns = 3
  WriteUntil = 2
  MaxFaults = 0
  Turns <- Together
  SecondsApart = FALSE
INVARIANT NothingLost
CHECK_DEADLOCK FALSE
