CONSTANTS
  Node = {n1, n2, n3}
  NoNode = NoNode
  Root = {r1}
  MAX_OUTSTANDING_K = 3
  MAX_GARBAGE_KEPT = 3
  MAX_GARBAGE_ARG_LEN = 2
  POS_FIRST = 1
SPECIFICATION Spec
SYMMETRY Symmetry
INVARIANTS
  TypeOK
  RefCountsExact
  ReclaimedOnce
  WindowInBounds
  CascadeAssertions
  OnlyCyclesLeak
  FreePathUnreachable
PROPERTIES SharedKeepsArity CascadeShrinks
