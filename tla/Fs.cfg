SPECIFICATION Spec
CONSTANTS
  p1 = p1
  p2 = p2
  Proc = {p1, p2}
  NINODES = 4
  NINODE = 3
  Name = {"a", "b"}
  Menus <- MCMenus
  None = None
INVARIANTS FsInv PanicHasReason RefsCounted NothingDangles
