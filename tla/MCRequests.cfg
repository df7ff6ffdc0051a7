\* Every kind of request, resubmitted, while a key is generated and all are reshared.
SPECIFICATION FairSpec
CONSTANTS
  Accounts = {"a"}
  PublicKeys = {"k1", "k2"}
  Keys <- AllKeys
  InitKeys <- InitialKeys
  Requests <- AllRequests
  Payloads = {"p", "q"}
  Chains = {"chain"}
  MaxYields = 3
INVARIANTS
  PendingSound
  AnswersAreOwn
PROPERTIES
  PendingCleared
