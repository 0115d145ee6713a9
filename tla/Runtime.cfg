SPECIFICATION FairSpec
CONSTANTS
  c1 = c1
  c2 = c2
  NoRequest = NoRequest
  Client = {c1, c2}
  Script <- TwoClients
  Waits = {c2}
  concurrent_txn_count = 2
  Capacity = 2
INVARIANTS
  TypeOK
  TransactionsKeptApart
  ActiveTasksCounted
  EveryOutcomeCounted
  NeverThrows
  StoppedOwesOnlyHeldBegin
PROPERTIES
  EveryRequestAnswered
