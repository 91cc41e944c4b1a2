CONSTANTS
  NBins = 2
  NTargets = 1
  TicksPerBin = 2
  Exposures = {1, 2}
  FromTicks = {1, 3}
  CallBound = 2
SPECIFICATION Spec
INVARIANTS TypeOK ClockOnTimeline ExposureDelivered LimitNeverExceeded AnswersOfTheirBin
PROPERTY ScanEnds
