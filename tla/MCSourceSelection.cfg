CONSTANTS
  Callers = {c1, c2}
  None = None
  Setups <- MCSetups
  Frames <- MCFrames
  InquiryMaxAttempts = 1
SPECIFICATION SelectionSpec
CHECK_DEADLOCK FALSE
INVARIANTS SelectionInv BudgetKept
PROPERTY SelectReturns
