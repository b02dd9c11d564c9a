SPECIFICATION FairSpec
CONSTANTS
  Unset = Unset
  Junk = Junk
  Nothing = Nothing
  Environments <- MCEnvironments
  DefaultInterval = 60
  DefaultTimeout = 10
  Workloads <- MCWorkloads
  MaxLate = 2
CHECK_DEADLOCK FALSE
INVARIANTS
  TypeOK
  CleanRollout
PROPERTIES
  ExitsWhenSignalled
  ZensuCatchesUp
