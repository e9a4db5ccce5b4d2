SPECIFICATION MasterSpec
CONSTANTS
  w1 = w1
  w2 = w2
  w3 = w3
  Worker = {w1, w2, w3}
  MinWorkers = 1
  MaxWorkers = 2
  InitialWorkers = 2
  MaxAttempts = 1
SYMMETRY Symmetry
INVARIANTS
  MinimumKept
  WorkerCap
PROPERTIES
  StopsForGood
CHECK_DEADLOCK FALSE
