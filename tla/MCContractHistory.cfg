\* Key generation from a new contract; resharing of one or two keys with a key generated in between.
SPECIFICATION MCSpec
CONSTANTS
  a = a
  b = b
  c = c
  d = d
  k1 = k1
  k2 = k2
  NoKey = NoKey
  Accounts = {a, b, c, d}
  PublicKeys = {k1, k2}
  InitParameters <- MCInitParameters
  InitialStates <- MixedStates
  Proposals <- MixedProposals
  Batches <- MixedBatches
  Submitters = {d}
  KeyEventTimeoutBlocks = 0
  MaxEpoch = 2
  MaxAttempt = 1
INVARIANTS
  KeysInStep
  ParametersSound
  EpochsSound
PROPERTIES
  KeyHistoryStable
  NewKeysUnanimous
  ImplementsKeyService
