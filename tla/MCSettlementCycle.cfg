SPECIFICATION Spec
CONSTANTS
  t1 = t1
  t2 = t2
  Txn = {t1, t2}
  Rec = {1, 2}
  Cycle = {1, 2}
  Amount = {1, 2}
  Due = 2
  Pool = 1
  Old = {1}
  Kinds = {"create", "update", "attach", "delete", "purge", "settle", "revoke"}
  NoTxn = NoTxn
  MaxOps = 4
SYMMETRY Sessions
INVARIANTS
  TypeOK
  ClassificationExact
  OneCountedReceipt
  OnlyKnownDeadlocks
PROPERTIES
  ActivationJustified
  AnchorPinned
CHECK_DEADLOCK FALSE
