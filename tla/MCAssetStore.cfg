SPECIFICATION Spec
CONSTANTS
  Peers = {"p", "q"}
  Takers = {"t1", "t2"}
  ParticipantSets = {{"p"}, {"q"}}
  DiscardCount = 1
  MaxAssets = 2
  MaxRestarts = 1
  MaxChanges = 2
INVARIANTS
  StoreSound
PROPERTIES
  NoUsableDiscarded
  TakeReturns
CHECK_DEADLOCK FALSE
