SPECIFICATION LabSafety
CONSTANTS
  j1 = j1
  j2 = j2
  w1 = w1
  w2 = w2
  NoJob = NoJob
  Jobs <- OneJob
  Workers <- OneWorker
  SameBuild <- OneWorker
  Plan = 2
  CallLimit = 2
  DailyLimit = 6
  Risk <- OneStall
  MaxKinds = 1
CHECK_DEADLOCK FALSE
INVARIANT LostIsUnknown
