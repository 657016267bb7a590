CONSTANTS
  Initiators <- MCInitiators
  Targets <- MCTargets
  CRCStep <- MCCRCStep
  Setups <- MCSetups
SPECIFICATION FairSpec
CHECK_DEADLOCK FALSE
INVARIANTS HoldsInv HeardAndTold
PROPERTIES SilentWithoutAuthority RetiredIsReclaimed
