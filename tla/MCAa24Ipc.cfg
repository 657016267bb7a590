CONSTANTS
  Setups <- MCSetups
  Words = {"kind", "payload"}
  Values = {1, 2}
  Zero = 0
  Capacity = 2
  Reserves = {0, 1}
  MaxIndex = 4
SPECIFICATION MCSpec
CHECK_DEADLOCK FALSE
INVARIANTS ControlKept EvidenceKept LaneInv
PROPERTIES TokensOnce OneSideLeaves ImplementsFifo
