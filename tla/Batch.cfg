SPECIFICATION FairSpec
CONSTANTS
  c1 = c1
  NoRequest = NoRequest
  Client = {c1}
  Script <- BatchScript
  concurrent_txn_count = 2
  Capacity = 13
  Driver = TRUE
INVARIANTS
  TypeOK
  OneTransactionPerTask
  NeverCrashes
  StoppedServedAll
PROPERTIES
  BatchServed
