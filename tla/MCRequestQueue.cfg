SPECIFICATION Spec
CONSTANTS
  WindowSize = 6
  Chains <- MCChains
  RequestIds = {"r1", "r2"}
  RequestKind <- MCKind
  Scheme <- MCScheme
  Participants = {"me", "p"}
  Me = "me"
  LeaderOrder <- MCLeaderOrder
  StaleThreshold = 1
  MaxHeightDiff = 3
  MaxLeaderAttempts = 2
  MaxNetworkChanges = 2
INVARIANTS
  BlocksSound
  RequestsSound
PROPERTIES
  NoFutileAttempt
  ServedByLeader
CHECK_DEADLOCK FALSE
