SPECIFICATION Spec
INVARIANTS AttestationsSound BackupsSound ForeignTxSound
PROPERTY AttestationKept
CONSTANTS
  acct1 = acct1 acct2 = acct2 acct3 = acct3
  n1 = n1 n2 = n2 n3 = n3 n4 = n4 n5 = n5
  i1 = i1 i2 = i2 l1 = l1 l2 = l2
  Accounts = {acct1, acct2, acct3}
  Nodes = {n1, n2, n3, n4, n5}
  Owner <- OwnerMC
  Mocks <- MocksMC
  Candidates <- CandidatesMC
  Destinations <- DestinationsMC
  RunsImage <- RunsImageMC
  RunsLauncher <- RunsLauncherMC
  Images = {i1, i2}
  AllowedLaunchers = {l1}
  FirstNode <- FirstNodeMC
  Evidence <- EvidenceMC
  Migrating = {acct2}
  Threshold = 2
  Validity = 0
  MaxCleanups = 1
  NodeImages = {"i1", "i2"}
  DefaultImage = "i1"
  EntryLife = 2
  MaxInTransit = 2
  MaxCrashes = 1
  MaxBackupKeys = 2
  MaxKeysets = 2
  MaxDomains = 2
  MaxTokens = 1
  MaxLinks = 1
  EncryptionKeys = {1, 2}
  NodeEncryptionKey = 1
  Signers <- SignersMC
  Trim <- TrimMC
  Faulty = {"u2"}
  Configs <- ConfigsMC
  MaxProviders = 2
  Policies <- PoliciesMC
  Requests <- RequestsMC
  Depth = 2
  Variants = {"ok", "reverted"}
  Successes = {"ok"}
  Logging = {"ok"}
  MaxHeight = 2
  MaxPlaces = 2
  MaxConfigs = 1
  MaxAttempts = 1
CHECK_DEADLOCK FALSE
