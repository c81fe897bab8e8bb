SPECIFICATION RunnerSpec
CONSTANTS
  MaxKinds = 1
  m1 = m1
  m2 = m2
  m3 = m3
  w1 = w1
  w2 = w2
  NoMessage = NoMessage
  NoOwner = NoOwner
  NoResult = NoResult
  Messages <- TwoMessages
  Workers <- TwoWorkers
  Owners <- TwoWorkersOwners
  ImageMessages <- NoImages
  Limit <- ProgressLimit
  Risk <- ProgressRisk
  MaxEntries = 3
  MaxFolded = 1
  AcceptsSteering = TRUE
  MaxLeases = 4
CHECK_DEADLOCK FALSE
PROPERTIES
  RunSettles
  QueueProgress
  StorageSpec
