CONSTANTS
  phone = phone
  laptop = laptop
  None = None
  Devices <- TwoDevices
  Risk <- RefreshRisk
  MaxKinds = 1
SPECIFICATION DraftsSpec
PROPERTY NeverOverwritesUnseen
CHECK_DEADLOCK FALSE
