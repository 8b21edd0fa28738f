SPECIFICATION Spec
CONSTANTS
  NPROC = 2
  CPU = {c1, c2}
  NoCPU = NoCPU
SYMMETRY Symmetry
INVARIANTS SchedInv OneCPUPerStack NoLostWakeup
