SPECIFICATION Spec
CONSTANTS
  f1 = f1
  f2 = f2
  j1 = j1
  j2 = j2
  j3 = j3
  q1 = q1
  File = {f1, f2}
  Csv = {f1}
  Job = {j1, j2, j3}
  Request = {q1}
  Workers = 2
  MaxRuns = 3
SYMMETRY Symmetry
INVARIANTS
  TypeOK
  HalfImportsAreTakenBack
  UploadLostOnlyToTwins
CHECK_DEADLOCK FALSE
