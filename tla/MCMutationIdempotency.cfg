SPECIFICATION Spec
CONSTANTS
  r1 = r1
  r2 = r2
  r3 = r3
  a = a
  b = b
  NoPrint = NoPrint
  NoRequest = NoRequest
  Request = {r1, r2, r3}
  Payload = {a, b}
  PayloadOf <- MCPayloadOf
  Bare = {r2}
  Routes = {"collection", "import_file", "import_rows"}
  MaxExpiries = 2
  MaxFaults = 2
INVARIANTS
  TypeOK
  RepeatsPaidFor
  ReplayTruthful
CHECK_DEADLOCK FALSE
