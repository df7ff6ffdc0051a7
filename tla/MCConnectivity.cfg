SPECIFICATION Spec
CONSTANTS
  Slots = {1, 2}
  DialerVersions = {"Unsupported", "Dec2025", "Jan2026"}
  CidModulus = 8
  MaxFaults = 2
  MaxSends = 2
  MaxHeight = 2
INVARIANTS
  DeliverySound
PROPERTIES
  ListenerSteps
  Reconnects
CHECK_DEADLOCK FALSE
