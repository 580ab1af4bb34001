SPECIFICATION Spec
CONSTANTS
  MaxFiles = 2
  MaxLines = 3
  FpPrefix = 2
  Window = 2
  Long <- NoLongLines
  DryRuns = {FALSE}
  CreateDuringPoll = TRUE
  MaxFaults = 0
  NoRow = NoRow
INVARIANT NoLineSkipped
CHECK_DEADLOCK FALSE
