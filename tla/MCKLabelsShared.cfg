SPECIFICATION LbSpec
CONSTANTS
  Node = {n1, n2}
  NoNode = NoNode
  Root = {r1}
  MAX_OUTSTANDING_K = 2
  MAX_GARBAGE_KEPT = 2
  MAX_GARBAGE_ARG_LEN = 1
  POS_FIRST = 0
  Label = {l1, l2, l3}
  NoLabel = NoLabel
  Symbol = {s1}
  Literal = {i1, i2}
  Sharing = TRUE
SYMMETRY LabelSymmetry
INVARIANT LabelsIntact
