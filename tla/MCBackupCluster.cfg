SPECIFICATION Spec
CONSTANTS
  p1 = p1
  p2 = p2
  NoJob = NoJob
  Proc = {p1, p2}
  Job = {1}
  MaxTries = 2
  MaxRetained = 1
  MaxFaults = 0
INVARIANTS
  InterruptedOnly
CHECK_DEADLOCK FALSE
