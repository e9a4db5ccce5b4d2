SPECIFICATION FairSpec
CONSTANTS
  w1 = w1
  w2 = w2
  r1 = r1
  s1 = s1
  s2 = s2
  Worker = {w1, w2}
  Request = {r1}
  Socket = {s1, s2}
  NoSocket = NoSocket
  MaxBus = 1
INVARIANTS
  AdmittedBeforeEnd
  NoOrphanSocket
  OnlySlippedSurvive
PROPERTIES
  EndedSettles
