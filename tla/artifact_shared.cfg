SPECIFICATION FairSpec
CONSTANTS
  a = a
  b = b
  None = None
  Every = Every
  Jobs = {a, b}
  Names = {1}
  Wanted <- MCWanted
  Retried = {a}
  MaxUploads = 2
  MaxFailures = 1
  Faults = {"list", "download", "crash", "prune"}
CHECK_DEADLOCK FALSE
INVARIANT TypeOK
PROPERTIES ReportsWhatItExtracts EventuallyRestored
