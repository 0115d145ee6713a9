SPECIFICATION Spec
CONSTANTS
  Txn = {t1, t2}
  Key = {k1, k2}
  kEmptyTxId = kEmptyTxId
  NoKey = NoKey
  kMaxTimeStamp = 9
  MaxVersion = 2
  EndTsGap = 1
  Times = {1, 2}
  MaxReads = 2
  MaxWrites = 2
  Ops <- ReadWriteOps
  Failing = {}
SYMMETRY TxnKeySymmetry
INVARIANTS
  SerializableByTimestamp
  ReadsCommitted
  ValidatedReadsHold
  VersionIntervals
  NoOrphanLocks
  RecoverOnlyAfterFailure
PROPERTIES
  CommitIsAtomic
