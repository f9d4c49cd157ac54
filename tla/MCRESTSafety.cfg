CONSTANTS
  MaxGen = 2
  MaxSteps = 3
  MaxFaults = 3
  MaxCrashes = 1
  MaxStaleResyncs = 1
  UrlForms <- BothUrls
SPECIFICATION Spec
INVARIANTS TypeOK FinalizerHeld RecordedWasSent ObservedMonotone StatusNamesResource NothingForgotten
PROPERTIES ImplementsObligation NothingCreatedAfterRemove RunGetsOn
CHECK_DEADLOCK FALSE
