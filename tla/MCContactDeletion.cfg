CONSTANTS
  i1 = i1
  s1 = s1
  s2 = s2
  web = web
  Images <- OneImage
  Servers <- OneServer
  Clients <- OneClient
  Risk <- DeletionRisk
  MaxKinds = 1
SPECIFICATION TasksSpec
INVARIANT ToldDeletedIsGone
CHECK_DEADLOCK FALSE
