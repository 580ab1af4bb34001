SPECIFICATION Spec
CONSTANTS
  task = task
  manual = manual
  Procs = {task, manual}
  Task = task
  Pids = {x, y, z}
  NoPid = NoPid
  Enabled <- JustMongo
  Choices <- MongoOnly
  DryRuns = {FALSE}
  Apart = FALSE
  Unreadable = FALSE
  MaxFaults = 0
INVARIANT OneRun
CHECK_DEADLOCK FALSE
