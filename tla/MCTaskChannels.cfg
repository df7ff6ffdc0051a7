SPECIFICATION Spec
CONSTANTS
  Node = {1, 2, 3}
  Channel = {"generate", "sign"}
  Leader <- MCLeader
  Participants <- MCParticipants
  Waits = {"generate"}
  LruCapacity = 1
  MaxEvents = 2
INVARIANTS
  ChannelsSound
PROPERTIES
  CompletesWithoutFaults
CHECK_DEADLOCK FALSE
