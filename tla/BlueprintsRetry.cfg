SPECIFICATION Spec
CONSTANTS
  Slots = {c1}
  Operations <- RetryOperations
  Starts <- MCStarts
  FirstId = 4
  MaxCalls = 2
  MaxMissing = 0
  MaxEdits = 0
INVARIANTS RetriesConverge
CHECK_DEADLOCK FALSE
