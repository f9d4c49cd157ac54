CONSTANTS
  MaxGen = 1
  MaxSteps = 2
  MaxFaults = 2
  MaxCrashes = 0
  MaxStaleResyncs = 0
  UrlForms <- BothUrls
SPECIFICATION Spec
INVARIANT SuccessMeansRecorded
CHECK_DEADLOCK FALSE
