SPECIFICATION FairSpec
CONSTANTS
  MaxJobs = 2
  KeepN = 1
  Mounts = {TRUE, FALSE}
  Cleaners = {c1}
  MaxFailures = 1
  MaxCrashes = 1
INVARIANTS InFlightBackup LiveKept
PROPERTIES RollbackRestores RetentionKept LeftoversSwept
CHECK_DEADLOCK FALSE
