CONSTANTS
  MaxGen = 2
  MaxSteps = 1
  MaxFaults = 1
  MaxCrashes = 1
  MaxStaleResyncs = 1
  UrlForms <- AnyUrls
SPECIFICATION FairSpec
PROPERTIES Converges DeletionCompletes
CHECK_DEADLOCK FALSE
