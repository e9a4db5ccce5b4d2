SPECIFICATION Spec
CONSTANTS
  r1 = r1
  r2 = r2
  r3 = r3
  a = a
  b = b
  NoPrint = NoPrint
  NoRequest = NoRequest
  Request = {r1, r2}
  Payload = {a, b}
  PayloadOf <- MCPayloadOf
  Bare = {r2}
  Routes = {"import_rows"}
  MaxExpiries = 0
  MaxFaults = 0
INVARIANTS
  NoDuplicateMutation
CHECK_DEADLOCK FALSE
