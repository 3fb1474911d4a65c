SPECIFICATION TmFairSpec
CONSTANTS
  Node <- ImpNode
  NoNode = 0
  Root = {"k", "oldK", "x"}
  MAX_OUTSTANDING_K = 60
  MAX_GARBAGE_KEPT = 60
  MAX_GARBAGE_ARG_LEN = 20
  POS_FIRST = 4
  Tests <- ImpTests
  Rules <- ImpRules
  Subsorts <- ImpSubsorts
  LabelVar = {}
  Code <- Compiled
  Program <- ImpProgram
  Expected <- EndsExpected
  CVar <- ImpCVar
  Global = {"#true", "#false"}
  Literal <- ImpLiteral
  Num <- ImpNum
  Key = {"x"}
INVARIANTS NothingLeaks BorrowedStaysLive ResultAsTested
PROPERTIES RewriteSteps Terminates
