SPECIFICATION FairSpec
CONSTANTS
  Browsers = {b1}
  Records <- MCRecords
  Bounds <- MCBounds
  U64MAX = 99
  MaxRecords = 4
  MaxPolls = 2
CHECK_DEADLOCK FALSE
INVARIANTS NumberedByRecord GapsAreMarked ServedWhole
PROPERTIES  PollReturns
