\* Three callers with any operations, one reconnect, and Close at any time.
CONSTANTS
  Callers = {p1, p2, p3}
  NoCaller = none
  MaxConnections = 2
SPECIFICATION FairSpec
CHECK_DEADLOCK FALSE
INVARIANTS NoLeak InitFirst
PROPERTY CloseUnblocks
