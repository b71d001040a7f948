SPECIFICATION ExtSpec
CONSTANTS
  a = a
  b = b
  Callers = {a, b}
  Configs <- MCConfigs
  MaxRetries = 1
  MaxLate = 1
  MaxId = 6
  None = None
INVARIANTS
  ExternalTypeOK
  PerformedIsStored
PROPERTIES
  AssetsLeaveByApproval
  DeliveriesEnd
  RetriesDeliver
CHECK_DEADLOCK FALSE
