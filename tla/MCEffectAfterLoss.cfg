CONSTANTS
  a1 = a1
  a2 = a2
  t1 = t1
  t2 = t2
  Actions <- OneAction
  Texts <- OneText
  Risk <- GovernedRisk
  MaxKinds = 3
SPECIFICATION GovernedSpec
PROPERTY NoEffectAfterLoss
CHECK_DEADLOCK FALSE
