SPECIFICATION FairSpec
CONSTANTS
  w1 = w1
  w2 = w2
  s1 = s1
  s2 = s2
  r1 = r1
  NoWorker = NoWorker
  Worker = {w1, w2}
  Reader = {r1}
  Slice = {s1, s2}
  Key = {1}
  KeyOf <- MCKeyOf
  MaxRequests = 2
  MaxFaults = 1
INVARIANTS
  TypeOK
  NoLostRequest
  ReportsCurrent
PROPERTIES
  ImplementsFreshness
  Converges
CHECK_DEADLOCK FALSE
