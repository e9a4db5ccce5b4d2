SPECIFICATION FairSpec
CONSTANTS
  p1 = p1
  p2 = p2
  NoJob = NoJob
  Proc = {p1, p2}
  Job = {1, 2}
  MaxTries = 2
  MaxRetained = 1
  MaxFaults = 2
INVARIANTS
  TypeOK
  RunsOnce
  CompletedWorked
  NewestKept
PROPERTIES
  NoZombie
CHECK_DEADLOCK FALSE
