CONSTANTS
  worker = worker
  informer = informer
  k1 = k1
  k2 = k2
  Threads = {worker, informer}
  Kinds = {k1, k2}
  MaxRv = 2
  MaxTroubles = 1
SPECIFICATION Spec
SYMMETRY Symmetry
INVARIANT ConversionsPickedUp
