SPECIFICATION Spec
CONSTANTS
  User = {p1, p2, p3, p4}
  Block = {k1, k2, k3}
  Val = {v1, v2}
  Buf = {b1, b2}
  MAXPIN = 1
  None = None
SYMMETRY Symmetry
INVARIANTS CacheInv SleepersHaveReason
PROPERTIES ImplementsBlockStore
