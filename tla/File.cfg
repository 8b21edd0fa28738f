CONSTANTS
  NPROC = 2
  NOFILE = 2
  NFILE = 2
  NPIPE = 1
  NINODES = 2
  NBLOCK = 5
  BSIZE = 2
  NDIRECT = 2
  NINDIRECT = 2
  MAXOPBLOCKS = 8
  Image <- MCImage
  Menus <- MCMenus
  Modes = {"rdwr", "trunc"}
  Writes = {6}
  Reads = {1}
  None = None
SPECIFICATION Spec
INVARIANTS FileInv BlocksInv OpFits
PROPERTY ImplementsFiles
