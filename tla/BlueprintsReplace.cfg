SPECIFICATION Spec
CONSTANTS
  Slots = {c1}
  Operations <- ConnectingOperations
  Starts <- MCStarts
  FirstId = 4
  MaxCalls = 2
  MaxMissing = 0
  MaxEdits = 0
PROPERTIES BlueprintKeepsConnections
CHECK_DEADLOCK FALSE
