SPECIFICATION Spec
CONSTANTS
  NPROC = 2
  NPAGE = 20
  PGSIZE = 2
  PTES = 2
  MAXARG = 2
  Images <- MCImages
  Deltas <- MCDeltas
  Stored = {0}
  None = None
INVARIANTS VmInv
PROPERTIES ImplementsAddrSpace
