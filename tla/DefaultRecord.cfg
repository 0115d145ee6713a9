SPECIFICATION FairSpec
CONSTANTS
  c1 = c1
  NoRequest = NoRequest
  Client = {c1}
  Script <- LookupScript
  concurrent_txn_count = 1
  Capacity = 4
  Driver = FALSE
PROPERTIES
  BatchServed
