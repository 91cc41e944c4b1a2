CONSTANTS
  MaxCaches = 2
  ShortRange = 6
  NULL = NULL
  Ptr = {p1, p2}
  RowCounts = {0, 1, 2}
  ColCounts = {0, 1}
  InitBound = 4
SPECIFICATION Spec
INVARIANTS TypeOK CachedOnceAndLive FaultsExplained
  ShutdownLeavesOnlyNewest
PROPERTIES HandedOnce StoreOfPointers
CHECK_DEADLOCK FALSE
