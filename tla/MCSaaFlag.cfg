CONSTANTS
  MaxCaches = 3
  ShortRange = 16
  NULL = NULL
  RowRange = 8
  InitBound = 5
  Used = {"orbit"}
  Bins = {0, 1}
  Targets = {0, 1}
  RowCounts = {2}
  Compressions <- UnitFactors
SPECIFICATION Spec
INVARIANT SaaFlagCalculated
CHECK_DEADLOCK FALSE
