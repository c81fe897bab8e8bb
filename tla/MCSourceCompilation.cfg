CONSTANTS
  w1 = w1
  w2 = w2
  r1 = r1
  Workers <- TwoWorkers
  Requests <- OneRequest
  MaxDecisions = 2
  Risk <- CompilationRisk
  MaxKinds = 1
SPECIFICATION CompilationSpec
INVARIANT RecompiledAfterDecision
PROPERTY CompilationEnds
CHECK_DEADLOCK FALSE
