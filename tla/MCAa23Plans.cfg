CONSTANTS
  a1 = a1
  a2 = a2
  m1 = m1
  s1 = s1
  s2 = s2
  Addresses = {a1, a2}
  Initiators = {m1}
  Slots = {s1, s2}
  MaxSubscribers = 1
  MaxRegistrations = 2
  MaxMasters = 1
  MaxLeaseTicks = 2
  Bounds <- MCBounds
  None = None
SPECIFICATION Spec
SYMMETRY Symmetry
CHECK_DEADLOCK FALSE
INVARIANTS BooksAgree StorageHeld
PROPERTY PublishedIsImmutable
