CONSTANTS
  NumSources = 1
  MaxRev = 2
  Ids <- TheIds
  Deps <- TheDeps
  Trivial <- TheTrivial
  Renderings <- Rollouts
  Copies <- TheCopies
  Patches = FALSE
  Onceoff = FALSE
  MaxTroubles = 1
SPECIFICATION HealthySpec
PROPERTY Converges
