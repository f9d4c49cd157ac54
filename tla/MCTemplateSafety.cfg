CONSTANTS
  NumSources = 1
  MaxRev = 2
  Ids <- TheIds
  Deps <- TheDeps
  Trivial <- TheTrivial
  Renderings <- Changing
  Copies <- NoCopies
  Patches = TRUE
  Onceoff = TRUE
  MaxTroubles = 1
SPECIFICATION Spec
INVARIANTS TypeOK DependenciesFirst ReadyIsEarned PatchedFirst
PROPERTIES ImplementsRollout OnceoffSettles PassGetsOn SettledStays
