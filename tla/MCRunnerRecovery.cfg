SPECIFICATION RunnerSafety
CONSTANTS
  MaxKinds = 2
  m1 = m1
  m2 = m2
  m3 = m3
  w1 = w1
  w2 = w2
  NoMessage = NoMessage
  NoOwner = NoOwner
  NoResult = NoResult
  Messages <- TwoMessages
  Workers <- OneWorker
  Owners <- OneWorkerOwners
  ImageMessages <- SecondHasImages
  Limit <- AllOnce
  Risk <- OneEach
  MaxEntries = 3
  MaxFolded = 1
  AcceptsSteering = TRUE
  MaxLeases = 4
CHECK_DEADLOCK FALSE
INVARIANTS
  EvidenceOnce
  LineageBeforeTurn
  ScrubbedIsSaved
  NoDeafLeader
PROPERTIES
  KeepsPromise
