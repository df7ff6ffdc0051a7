SPECIFICATION MCSpec
CONSTANTS
  Q = 31
  SecurityParameter = 2
  ScalarBits = 1
  Seeds = {1, 2, 3}
  Jobs <- MCJobs
  Faults <- MCFaults
  Coin <- MCCoin
  Setups <- MCSetups
  ValueA = v
  ValueB = w
  Values <- MCValues
  NoValue = none
INVARIANTS
  KeyshareSound
  OutputsSound
  NoFalseAlarm
  ProtocolsEnd
  BroadcastSound
  Delivered
CHECK_DEADLOCK FALSE
