CONSTANTS
  a1 = a1
  a2 = a2
  t1 = t1
  t2 = t2
  Actions <- TwoActions
  Texts <- OneText
  Risk <- GovernedRisk
  MaxKinds = 2
SPECIFICATION GovernedSpec
SYMMETRY ActionSymmetry
INVARIANT StandingEffectIsKnown
PROPERTY EffectIsApproved
CHECK_DEADLOCK FALSE
