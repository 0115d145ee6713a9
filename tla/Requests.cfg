SPECIFICATION FairSpec
CONSTANTS
  c1 = c1
  c2 = c2
  Nobody = Nobody
  Pending = Pending
  Client = {c1, c2}
  Script <- TwoClients
INVARIANTS
  TypeOK
PROPERTIES
  PulledIsOwnAnswer
  WaitReturns
