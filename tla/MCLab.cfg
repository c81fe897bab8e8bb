SPECIFICATION LabSpec
CONSTANTS
  j1 = j1
  j2 = j2
  w1 = w1
  w2 = w2
  NoJob = NoJob
  Jobs <- TwoJobs
  Workers <- TwoWorkers
  SameBuild <- OneWorker
  Plan = 2
  CallLimit = 2
  DailyLimit = 3
  Risk <- SomeRisk
  MaxKinds = 1
CHECK_DEADLOCK FALSE
INVARIANTS
  PaidOnce
  CancelledWasNotCalled
  HonestVerdict
  PaidWithinDay
PROPERTIES
  OutcomeIsFinal
  NoCallAfterRevocation
  JobEnds
