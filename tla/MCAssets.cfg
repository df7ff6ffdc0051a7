SPECIFICATION Spec
CONSTANTS
  Node = {1, 2, 3}
  Threshold = 2
  Owners = {1}
  Scenarios <- MCScenarios
  Desired = 1
  BatchSize = 2
  MaxTasks = 4
  MaxRequests = 2
  MaxFaults = 2
INVARIANTS
  StoresSound
  UsedSafely
PROPERTIES
  BufferRefilled
CHECK_DEADLOCK FALSE
