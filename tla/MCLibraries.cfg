CONSTANTS
  MaxCaches = 3
  ShortRange = 16
  NULL = NULL
  RowRange = 8
  InitBound = 5
  Used = {"orbit", "solar", "attitude"}
  Bins = {0}
  Targets = {0, 1}
  RowCounts = {0, 1}
  Compressions <- TwoFactors
SPECIFICATION Spec
INVARIANTS LibrariesApart OccultationInputs
CHECK_DEADLOCK FALSE
