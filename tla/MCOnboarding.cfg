\* A node that takes over an account while resharings are begun and cancelled.
SPECIFICATION MCSpec
CONSTANTS
  MaxEpoch = 1
  MaxDomains = 2
  MaxAttempt = 1
  MaxInstances = 4
  MaxCrashes = 0
  Migrates = TRUE
INVARIANT
  ConcludedWithShares
CHECK_DEADLOCK FALSE
