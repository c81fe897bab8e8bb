SPECIFICATION SavesSpec
CONSTANTS
  q1 = q1
  q2 = q2
  o1 = o1
  phone = phone
  web = web
  Queued <- OneQueued
  Own <- OneOwn
  Devices <- TwoDevices
  Attempts = 2
  Rounds = 2
  Risk <- SessionRisk
  MaxKinds = 2
INVARIANTS SavesTypeOK WithdrawnStaysHidden KnownOutcome
PROPERTIES NothingLostUnseen KeepsHistory SaveEnds
CHECK_DEADLOCK FALSE
