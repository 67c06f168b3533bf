SPECIFICATION FairSpec
CONSTANTS
  Records <- MCRecords
  AllSettings <- MCSettings
  Wanted = {2}
  Queriers = {q1}
  BufCap = 2
  U64MAX = 100
  MaxUnits = 4
  MaxRecords = 2
  MaxSeeks = 1
  MaxSessions = 1
INVARIANTS LayersAgree EndIsKept RangeInOrder
PROPERTIES BufferIsDueEvent QueryReturns CallsWaitOnlyForWriter
