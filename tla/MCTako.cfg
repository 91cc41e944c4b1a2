CONSTANTS
  NBins = 3
  NTargets = 2
  TicksPerBin = 1
  Exposures = {1, 2}
  FromTicks = {}
  CallBound = 3
  Rows = {0, 1, 2}
  Windows <- MCWindows
SPECIFICATION TakoSpec
INVARIANTS TakoTypeOK BoxIsSchedule OneNumberPerTarget CountedInSunWindow ExposureDelivered
PROPERTIES ClickEnds PlanKept
CHECK_DEADLOCK FALSE
