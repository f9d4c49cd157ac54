CONSTANTS
  t1 = t1
  a = a
  b = b
  f = f
  near = near
  far = far
  x = x
  y = y
  widget = widget
  git = git
  None = None
  Templates = {t1}
  Sources = {a, f}
  Kinds = {widget, git}
  Git = git
  Spaces = {near, far}
  Labels = {x, y}
  KindOf <- MCKindOf
  SpaceOf <- MCSpaceOf
  Selectors <- MCSelectors
  MaxGen = 3
  MaxRev = 2
  MaxTroubles = 1
SPECIFICATION Spec
INVARIANTS TypeOK InformerMissesNothing StrayNeedsEdit
PROPERTY Converges
