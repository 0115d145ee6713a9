SPECIFICATION FairSpec
CONSTANTS
  Txn = {t1, t2}
  Key = {k1, k2}
  kEmptyTxId = kEmptyTxId
  NoKey = NoKey
  kMaxTimeStamp = 9
  MaxVersion = 2
  EndTsGap = 1
  Times = {1}
  MaxReads = 2
  MaxWrites = 1
  Ops <- ReadWriteOps
  Failing = {"UpdateTxnStatus", "CommitVersion", "DeleteVersion"}
PROPERTIES
  RequestsComplete
  CommitIsAtomic
