CONSTANTS
  MaxCaches = 2
  ShortRange = 6
  NULL = NULL
  Ptr = {p1, p2}
  RowCounts = {1, 2}
  ColCounts = {0, 1}
  InitBound = 4
SPECIFICATION Spec
INVARIANT OnlyMaxCaches
CHECK_DEADLOCK FALSE
