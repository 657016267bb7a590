\* Every budget can be used, renewed by a reconnect and used again.
CONSTANTS
  TimeoutRetries = 2
  NACKRetries = 1
  ReconnectRetries = 2
SPECIFICATION FairSpec
INVARIANTS StartsBounded RecoveryInv
PROPERTY SendReturns
