CONSTANTS
  phone = phone
  laptop = laptop
  None = None
  Devices <- TwoDevices
  Risk <- DraftsRisk
  MaxKinds = 1
SPECIFICATION DraftsSpec
INVARIANTS DraftsTypeOK TypedSurvives StatusIsTrue
PROPERTY CleanupOnlySent
CHECK_DEADLOCK FALSE
