SPECIFICATION FairSpec
CONSTANTS
  Sources <- ThreeSources
  Other = {}
  MaxLen = 8
  MaxFaults = 1
INVARIANTS IInv WholeLines
PROPERTIES ReadsInOrder DrainComplete Drains
CHECK_DEADLOCK FALSE
