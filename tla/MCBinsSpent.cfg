CONSTANTS
  NBins = 3
  NTargets = 2
  TicksPerBin = 1
  Exposures = {1, 2}
  FromTicks = {}
  CallBound = 2
SPECIFICATION Spec
INVARIANT BinsSpentOnce
