CONSTANTS
  MaxCaches = 3
  ShortRange = 16
  NULL = NULL
  RowRange = 8
  InitBound = 5
  Used = {"orbit", "solar"}
  Bins = {0, 1, 2}
  Targets = {0, 1}
  RowCounts = {0, 2}
  Compressions <- ManyFactors
SPECIFICATION Spec
INVARIANTS TypeOK FreedElementsUnused SatelliteOfItsBin SunOfItsGroup
PROPERTY CachedValuesStay
CONSTRAINT OneLibrary
CHECK_DEADLOCK FALSE
