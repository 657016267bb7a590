\* Two leases of one generation: every order of Release, callback end and Stop,
\* where the factory, the adapter and the callbacks may hang.
CONSTANTS
  Callers = {p1, p2}
  NoCaller = none
  Leases = {l1, l2}
  MaxConstructions = 1
SPECIFICATION FairSpec
INVARIANT DrainAccounting
PROPERTY StopReturns
