SPECIFICATION Spec
CONSTANTS
  NPROC = 3
  MAXPID = 4
  KillArgs = {0, 2}
INVARIANTS ProcInv NoZombieMissed NoKidsIsTrue
