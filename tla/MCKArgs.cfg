SPECIFICATION ArgsSpec
CONSTANTS
  Elem = {e1, e2}
  Array = {n1, n2, n3, n4}
  NULL = NULL
  MAX_GARBAGE_ARG_LEN = 4
  POS_FIRST = 1
  MaxElems = 2
  MaxCalls = 3
SYMMETRY Symmetry
INVARIANTS AccessesHold OverwrittenStayLive SlotsCounted
PROPERTY KeepsPromise
