\* Two CPUs.
SPECIFICATION Spec
CONSTANTS
  NPROC = 3
  NCPU = 2
  SleepTicks = {1}
  KallocMayFail = TRUE
  StrayKills = FALSE
INVARIANTS TypeOK StackInUse ParentAlive SleepJustified 
