SPECIFICATION FairSpec
CONSTANTS
  p1 = p1
  p2 = p2
  NoJob = NoJob
  Proc = {p1}
  Job = {1, 2}
  MaxTries = 2
  MaxRetained = 1
  MaxFaults = 0
PROPERTIES
  QueuedWorkRuns
CHECK_DEADLOCK FALSE
