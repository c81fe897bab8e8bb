CONSTANTS
  w1 = w1
  w2 = w2
  r1 = r1
  Workers <- TwoWorkers
  Requests <- OneRequest
  MaxDecisions = 2
  Risk <- CompilationRisk
  MaxKinds = 0
SPECIFICATION CompilationSpec
PROPERTY EveryJobCompletes
CHECK_DEADLOCK FALSE
