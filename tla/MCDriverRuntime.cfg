\* Three goroutines race Start, Stop and Replace over two constructions.
CONSTANTS
  Callers = {p1, p2, p3}
  NoCaller = none
  Leases = {l1}
  MaxConstructions = 2
SPECIFICATION Spec
SYMMETRY Symmetry
INVARIANTS TypeOK SingleOwner GenerationInUse
PROPERTIES ImplementsOwnership QuarantineIsFinal
