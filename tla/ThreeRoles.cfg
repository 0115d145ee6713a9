SPECIFICATION Spec
CONSTANTS
  writer = writer
  updater = updater
  reader = reader
  Txn = {writer, updater, reader}
  Key = {k1, k2}
  kEmptyTxId = kEmptyTxId
  NoKey = NoKey
  kMaxTimeStamp = 99
  MaxVersion = 2
  EndTsGap = 1
  Times = {1}
  MaxReads = 2
  MaxWrites = 1
  Ops <- RoleOps
  Failing = {}
SYMMETRY KeySymmetry
INVARIANTS
  ConflictSerializable
