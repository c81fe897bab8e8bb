CONSTANTS
  phone = phone
  laptop = laptop
  None = None
  Devices <- OneDevice
  Risk <- RemovalRisk
  MaxKinds = 2
SPECIFICATION DraftsSpec
INVARIANT SavingHasASave
CHECK_DEADLOCK FALSE
