SPECIFICATION Spec
CONSTANTS
  Slots = {c1, c2}
  Operations <- AddingOperations
  Starts <- AddingStarts
  FirstId = 4
  MaxCalls = 2
  MaxEdits = 0
PROPERTIES SearchTypeAlreadyExists
CHECK_DEADLOCK FALSE
