SPECIFICATION FairSpec
CONSTANTS
  NPROC = 2
  CPU = {c1}
  NoCPU = NoCPU
PROPERTIES RunnableRuns SleepersWake
