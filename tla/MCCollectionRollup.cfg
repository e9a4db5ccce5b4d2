SPECIFICATION Spec
CONSTANTS
  t1 = t1
  t2 = t2
  Txn = {t1, t2}
  Rec = {1, 2}
  Slice = {"d1", "d2", "d3"}
  Key = {1, 2}
  KeyOf <- MCKeyOf
  Amount = {1, 2}
  Expired = {"d1"}
  RepairScopes <- MCRepairScopes
  Kinds = {"create", "update", "delete", "purge", "refresh", "rebuild", "restore", "repair"}
  NoTx = NoTx
  NoRow = NoRow
  Unset = Unset
SYMMETRY Sessions
INVARIANTS
  TypeOK
  DailyExact
  MonthlyExact
  NoLockCycle
PROPERTIES
  PurgeOnlyExpired
  ImplementsLedger
