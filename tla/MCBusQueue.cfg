\* Two callers, one of which may keep sending at high priority; source priorities
\* around the one of transport operations, promotion after two pops.
CONSTANTS
  Requests = {r1, r2}
  NoRequest = none
  Sources = {0, 3}
  transportOpPriority = 2
  starvationThreshold = 2
  outCap = 2
SPECIFICATION FairSpec
CHECK_DEADLOCK FALSE
INVARIANTS TypeOK RequestInOnePlace NoLostWakeup BoundedOvertaking
PROPERTY EveryCallReturns
