\* Two CPUs.
SPECIFICATION Spec
CONSTANTS
  NPROC = 3
  NCPU = 1
  SleepTicks = {1}
  KallocMayFail = TRUE
  StrayKills = TRUE
INVARIANTS UnusedNotKilled
