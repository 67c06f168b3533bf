SPECIFICATION Spec
CONSTANTS
  Buffers <- FlagBuffers
  Upstream = "any"
  BufCap = 2
  IndexMin = 1
  IndexMax = 2
  U64 = 100
  Seal = FALSE
  FlushMayFail = TRUE
  MaxEvents = 3
  MaxSessions = 3
CHECK_DEADLOCK FALSE
INVARIANTS TypeOK RecordsWhereDue IndexWithinData OffsetsInOrder LossIsMarked ContinuousBetweenRecords RecordPointsAtItsEvent
PROPERTIES OkMeansStored
