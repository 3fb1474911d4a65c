SPECIFICATION TmSpec
CONSTANTS
  Node <- BasicNode
  NoNode = 0
  Root = {"k", "oldK"}
  MAX_OUTSTANDING_K = 15
  MAX_GARBAGE_KEPT = 15
  MAX_GARBAGE_ARG_LEN = 20
  POS_FIRST = 2
  Tests = {"list3"}
  Rules <- BasicRules
  Subsorts <- BasicSubsorts
  LabelVar <- BasicLabelVar
  Code <- Compiled
  Program <- BasicProgram
  Expected <- BasicExpected
  CVar <- BasicCVar
  Global = {"#true", "#false"}
  Literal = {}
  Num <- NoNum
  Key = {}
INVARIANT ResultAsTested
