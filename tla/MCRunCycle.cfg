SPECIFICATION FairSpec
CONSTANTS
  task = task
  manual = manual
  Procs = {task, manual}
  Task = task
  Pids = {x, y, z}
  NoPid = NoPid
  Enabled <- MongoAndMetrics
  Choices <- JustMetrics
  DryRuns = {TRUE, FALSE}
  Apart = TRUE
  Unreadable = FALSE
  MaxFaults = 1
INVARIANTS IInv OneRun SpoolKept
PROPERTIES ExitTellsRecord Recovers
CHECK_DEADLOCK FALSE
