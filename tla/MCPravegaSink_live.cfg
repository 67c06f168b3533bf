SPECIFICATION FairSpec
CONSTANTS
  Buffers <- SealBuffers
  Upstream = "any"
  BufCap = 2
  IndexMin = 1
  IndexMax = 2
  U64 = 100
  Seal = TRUE
  FlushMayFail = TRUE
  MaxEvents = 2
  MaxSessions = 3
CHECK_DEADLOCK FALSE
PROPERTIES StoredSpec CallsReturn
