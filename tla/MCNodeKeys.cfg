\* A participant, or a node that takes over an account by a migration, with a crash.
SPECIFICATION MCSpec
CONSTANTS
  MaxEpoch = 2
  MaxDomains = 2
  MaxAttempt = 1
  MaxInstances = 4
  MaxCrashes = 1
  Migrates = TRUE
INVARIANTS
  SharesSafe
  ServesSound
  PromotionSucceeds
CHECK_DEADLOCK FALSE
