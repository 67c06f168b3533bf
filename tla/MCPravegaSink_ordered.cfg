SPECIFICATION Spec
CONSTANTS
  Buffers <- OrderedBuffers
  Upstream = "ordered"
  BufCap = 2
  IndexMin = 1
  IndexMax = 2
  U64 = 100
  Seal = FALSE
  FlushMayFail = FALSE
  MaxEvents = 4
  MaxSessions = 2
CHECK_DEADLOCK FALSE
INVARIANTS IndexOrdersData
