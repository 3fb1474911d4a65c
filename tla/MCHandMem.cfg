SPECIFICATION HtSpec
CONSTANTS
  Node <- HandNode
  NoNode = 0
  Root = {"cell1", "cell2", "cell3", "x", "y"}
  MAX_OUTSTANDING_K = 67
  MAX_GARBAGE_KEPT = 67
  MAX_GARBAGE_ARG_LEN = 12
  POS_FIRST = 6
  Tests = {"prog1"}
  Sound = {"prog1"}
  Source <- HandSource
  Program <- HandProgram
  Input = 2
  Runs = 3
  Cells <- CellsOfRuns
  Key = {"x", "y"}
  MAX_K = 6
  Num <- HandNum
  Subsorts <- HandSubsorts
  Rules <- HandRules
INVARIANT ResultAsEvaluated
