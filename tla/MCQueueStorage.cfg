SPECIFICATION QueueSpec
CONSTANTS
  m1 = m1
  m2 = m2
  m3 = m3
  o1 = o1
  NoMessage = NoMessage
  NoOwner = NoOwner
  NoResult = NoResult
  Messages <- ThreeMessages
  Owners <- OneOwner
  MaxEntries = 3
  Limit <- AllOnce
  MaxKinds = 2
SYMMETRY MessageSymmetry
CHECK_DEADLOCK FALSE
INVARIANTS
  TableChecks
  SingleAuthority
  GroupShape
  WaitingOrderTotal
PROPERTIES
  AuthorityNeverRegained
  StopIsFinal
