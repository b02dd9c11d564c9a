SPECIFICATION StartSpec
CONSTANTS
  Unset = Unset
  Junk = Junk
  Environments <- MCEnvironments
  DefaultInterval = 60
  DefaultTimeout = 10
CHECK_DEADLOCK FALSE
INVARIANTS
  ConfigIsUsable
  CaveatMatchesSource
  RefusalStartsNothing
