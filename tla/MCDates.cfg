CONSTANTS
  LastDay = 78000
SPECIFICATION Spec
INVARIANTS DayOfDate DateOfDay
CHECK_DEADLOCK FALSE
