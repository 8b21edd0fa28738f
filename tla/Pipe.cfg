SPECIFICATION FairSpec
CONSTANTS
  Proc = {p1, p2, p3}
  Byte = {0, 1}
  Readers = {p1, p2}
  Writers = {p2, p3}
  PIPESIZE = 2
  UINT = 4
  MAXN = 2
  Killable = {p2}
  None = None
INVARIANTS PipeInv SleepersHaveReason
PROPERTIES ImplementsFifo ClosedReturns
CHECK_DEADLOCK FALSE
