CONSTANTS
  Half8 = 2
  Half32 = 4
  Half64 = 16
  Exact = 8
  Units = {1, 2, 4, 8}
  pod = pod
  storage = storage
  custom = custom
  None = None
  Broken = Broken
  Nodes <- MCNodes
  Schema <- MCSchema
  Parts <- MCParts
  Indexes <- MCIndexes
  Paths <- MCPaths
  Place <- MCPlace
  Escape <- MCEscape
  Kinds <- MCKinds
  Named <- MCNamed
  Guessed <- MCGuessed
  Published <- MCPublished
  Crd <- MCCrd
  Objects <- MCObjects
SPECIFICATION Spec
INVARIANTS TypeOK WellTyped NumbersKept FailsForCause
PROPERTIES Ends CallGetsOn
