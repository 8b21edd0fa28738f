CONSTANTS
  NPROC = 7
  NOFILE = 6
  MAXARGS = 3
  MaxFail = 1
  Sessions <- MCSessions
  Tails <- MCTails
SPECIFICATION Spec
INVARIANTS ParseAgrees Plumbing ForegroundDone
PROPERTY PromptReturns
CHECK_DEADLOCK FALSE
