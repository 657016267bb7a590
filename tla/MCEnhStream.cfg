CONSTANTS
  Setups <- MCSetups
  MaxAaAbsorptionsPerEscapePair = 1
  MaxResets = 1
SPECIFICATION Spec
INVARIANTS QueueInv NoStaleLead
