SPECIFICATION Spec
CONSTANTS
  Slots = {c1, c2}
  Operations <- MCOperations
  Starts <- MCStarts
  FirstId = 4
  MaxCalls = 2
  MaxMissing = 1
  MaxEdits = 1
INVARIANTS TypeOK WiredTogether ReportAccounts
PROPERTIES OnlyAsAsked
SYMMETRY SlotSymmetry
CHECK_DEADLOCK FALSE
