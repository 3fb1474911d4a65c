SPECIFICATION TmSpec
CONSTANTS
  Node <- ImpNode
  NoNode = 0
  Root = {"k", "oldK", "x"}
  MAX_OUTSTANDING_K = 30
  MAX_GARBAGE_KEPT = 30
  MAX_GARBAGE_ARG_LEN = 20
  POS_FIRST = 4
  Tests = {"store01"}
  Rules <- ImpRules
  Subsorts <- ImpSubsorts
  LabelVar = {}
  Code <- Compiled
  Program <- ImpProgram
  Expected <- ImpExpected
  CVar <- ImpCVar
  Global = {"#true", "#false"}
  Literal <- ImpLiteral
  Num <- ImpNum
  Key = {"x"}
INVARIANT ResultAsTested
