CONSTANTS
  MaxGen = 1
  MaxSteps = 2
  MaxFaults = 0
  MaxCrashes = 0
  MaxStaleResyncs = 0
  UrlForms <- BothUrls
SPECIFICATION Spec
INVARIANT NothingLeftBehind
CHECK_DEADLOCK FALSE
