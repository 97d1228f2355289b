SPECIFICATION Spec
CONSTANTS
  Slots = {c1, c2}
  Operations <- MCOperations
  Starts <- MCStarts
  FirstId = 4
  MaxCalls = 2
  MaxEdits = 2
INVARIANTS TypeOK InStep PlacedClear
PROPERTIES OnlyAsAsked
SYMMETRY SlotSymmetry
CHECK_DEADLOCK FALSE
