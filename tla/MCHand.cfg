SPECIFICATION HtFairSpec
CONSTANTS
  Node <- HandNode
  NoNode = 0
  Root = {"cell1", "cell2", "cell3", "x", "y"}
  MAX_OUTSTANDING_K = 90
  MAX_GARBAGE_KEPT = 90
  MAX_GARBAGE_ARG_LEN = 12
  POS_FIRST = 6
  Tests <- HandTests
  Sound <- Good
  Source <- HandSource
  Program <- HandProgram
  Input = 2
  Runs = 2
  Cells <- CellsOfRuns
  Key = {"x", "y"}
  MAX_K = 6
  Num <- HandNum
  Subsorts <- HandSubsorts
  Rules <- HandRules
INVARIANTS HandTypeOK OperandsStayLive ResultAsEvaluated CheckPasses OnlyHoldersLeak LimitNeverReported
PROPERTIES RuleSteps Terminates
