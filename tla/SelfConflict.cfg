SPECIFICATION Spec
CONSTANTS
  Txn = {t1, t2}
  Key = {k1}
  kEmptyTxId = kEmptyTxId
  NoKey = NoKey
  kMaxTimeStamp = 99
  MaxVersion = 2
  EndTsGap = 1
  Times = {1}
  MaxReads = 2
  MaxWrites = 2
  Ops <- AllOps
  Failing = {}
INVARIANTS
  UploadConflictsWithAnotherTxn
