SPECIFICATION Spec
CONSTANTS
  Browsers = {b1}
  Records <- ReplayedRecords
  Bounds <- ReplayedBounds
  U64MAX = 99
  MaxRecords = 4
  MaxPolls = 1
CHECK_DEADLOCK FALSE
INVARIANT NeverWaits
