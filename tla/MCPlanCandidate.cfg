CONSTANTS
  PBs = {0, 1}
  SBs = {0}
  Requests = {0, 1}
  Sources = {0, 1}
  MaxEntries = 4
  MaxPlanBytes = 9
  Samples <- MCSamples
  Noise <- MCNoise
SPECIFICATION CandidateSpec
CHECK_DEADLOCK FALSE
INVARIANTS VerdictInv CodecsAgree
