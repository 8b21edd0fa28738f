SPECIFICATION Spec
CONSTANTS
  Proc = {p1, p2, p3}
  Block = {b1, b2, b3}
  Val = {v1, v2}
  NoVal = NoVal
  NoBlock = NoBlock
  LOGSIZE = 4
  MAXOPBLOCKS = 2
  NLOG = 4
  OPMAX = 1
SYMMETRY Symmetry
INVARIANTS SpaceReserved NoLostWakeup
PROPERTIES ImplementsTxnDisk DurableOnReturn
CHECK_DEADLOCK FALSE
