SPECIFICATION FairSpec
CONSTANTS
  MaxFiles = 2
  MaxLines = 2
  FpPrefix = 1
  Window = 1
  Long <- LastLineLong
  DryRuns = {FALSE, TRUE}
  CreateDuringPoll = FALSE
  MaxFaults = 1
  NoRow = NoRow
INVARIANTS NoLineSkipped NotReshipped IInv
PROPERTIES AtLeastOnce OffsetsAdvance DrainCatchesUp AllShipped
CHECK_DEADLOCK FALSE
