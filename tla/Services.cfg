SPECIFICATION Spec
CONSTANTS
  executors = 2
  Slot = {s1, s2}
  INT64_MAX = 4
  TIME_PROVIDER_INTERVAL = 2
  Clock = {1, 4}
  MaxTime = 4
  MaxDraws = 3
SYMMETRY SlotSymmetry
CHECK_DEADLOCK FALSE
INVARIANTS
  TypeOK
  LiveIdsDistinct
PROPERTIES
  AfterOwnCommits
  TimeGoesBackOnlyAtRefresh
