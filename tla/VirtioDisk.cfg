SPECIFICATION Spec
CONSTANTS
  Proc = {p1, p2, p3, p4}
  NUM = 8
  U16 = 16
  None = None
VIEW View
SYMMETRY Symmetry
INVARIANTS RingInv NoStrayTransfer SleepersHaveReason
