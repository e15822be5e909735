\* One CPU: nobody else holds a lock.
SPECIFICATION Spec
CONSTANTS
  NPROC = 3
  NCPU = 1
  SleepTicks = {1}
  KallocMayFail = TRUE
  StrayKills = FALSE
PROPERTIES KilledExits OrphansReaped RunnableRuns
