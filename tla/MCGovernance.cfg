\* Updates and policies while participants change; images and launchers while time passes.
SPECIFICATION MCSpec
CONSTANTS
  a = a
  b = b
  c = c
  d = d
  NoKey = NoKey
  PublicKeys = {}
  Accounts = {a, b, c, d}
  InitialParameters <- Initially
  Proposals <- Replacement
  Policies = {"p1", "p2"}
  Images = {"i1", "i2"}
  Launchers = {"l1", "l2"}
  TeeUpgradeDeadlineDuration = 1
  InitImages <- OneImage
  InitLaunchers = {"l1"}
  MaxUpdates = 2
  MaxTime = 5
INVARIANTS
  VotesBacked
  AllowListsSound
PROPERTIES
  ExpiredImagesStayOut
