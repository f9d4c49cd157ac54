CONSTANTS
  NumSources = 1
  MaxRev = 1
  Ids <- TheIds
  Deps <- TheDeps
  Trivial <- TheTrivial
  Renderings <- Reversed
  Copies <- NoCopies
  Patches = FALSE
  Onceoff = FALSE
  MaxTroubles = 0
SPECIFICATION HealthySpec
PROPERTY IndependentCreated
