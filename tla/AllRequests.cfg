SPECIFICATION Spec
CONSTANTS
  Txn = {t1, t2}
  Key = {k1}
  kEmptyTxId = kEmptyTxId
  NoKey = NoKey
  kMaxTimeStamp = 9
  MaxVersion = 2
  EndTsGap = 1
  Times = {1}
  MaxReads = 2
  MaxWrites = 2
  Ops <- AllOps
  Failing <- AllCalls
SYMMETRY TxnSymmetry
INVARIANTS
  TypeOK
  NoLostUpdate
  OwnershipInv
  VersionChain
  PinsBalanced
  OutcomeAgreed
  ReadsCommitted
PROPERTIES
  DecisionIsFinal
  AnsweredBeforeNext
  ErrorLeavesNoWrite
