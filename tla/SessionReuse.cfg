SPECIFICATION Spec
CONSTANTS
  c1 = c1
  c2 = c2
  NoRequest = NoRequest
  Client = {c1}
  Script <- SameSessionScript
  Waits = {c1}
  concurrent_txn_count = 2
  Capacity = 1
INVARIANTS
  OneTransactionPerTask
