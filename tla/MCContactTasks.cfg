CONSTANTS
  i1 = i1
  s1 = s1
  s2 = s2
  web = web
  Images <- OneImage
  Servers <- TwoServers
  Clients <- OneClient
  Risk <- TaskRisk
  MaxKinds = 1
SPECIFICATION TasksSpec
INVARIANTS TasksTypeOK NoSilentRepeat FiledOnce DeletionLeavesNothing
PROPERTY TaskSettles
CHECK_DEADLOCK FALSE
