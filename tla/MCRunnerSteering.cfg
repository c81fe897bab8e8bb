SPECIFICATION RunnerSafety
CONSTANTS
  MaxKinds = 9
  m1 = m1
  m2 = m2
  m3 = m3
  w1 = w1
  w2 = w2
  NoMessage = NoMessage
  NoOwner = NoOwner
  NoResult = NoResult
  Messages <- ThreeMessages
  Workers <- OneWorker
  Owners <- OneWorkerOwners
  ImageMessages <- LastHasImages
  Limit <- SteeringLimit
  Risk <- SteeringRisk
  MaxEntries = 3
  MaxFolded = 1
  AcceptsSteering = TRUE
  MaxLeases = 4
SYMMETRY TextSymmetry
CHECK_DEADLOCK FALSE
INVARIANTS
  ScrubbedIsSaved
  NoDeafLeader
