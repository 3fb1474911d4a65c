SPECIFICATION TmSpec
CONSTANTS
  Node <- BasicNode
  NoNode = 0
  Root = {"k", "oldK"}
  MAX_OUTSTANDING_K = 30
  MAX_GARBAGE_KEPT = 30
  MAX_GARBAGE_ARG_LEN = 20
  POS_FIRST = 2
  Tests <- Working
  Rules <- BasicRules
  Subsorts <- BasicSubsorts
  LabelVar <- BasicLabelVar
  Code <- Compiled
  Program <- BasicProgram
  Expected <- BasicExpected
  CVar <- BasicCVar
  Global = {"#true", "#false"}
  Literal = {}
  Num <- NoNum
  Key = {}
INVARIANTS RwTypeOK StopsInNormalForm NothingLeaks ChecksReadWhatExists ResultAsTested
PROPERTIES RewriteSteps
