SPECIFICATION Spec
CONSTANTS
  U64 = 64
  UTC_TO_TAI_SECONDS = 3
  UNIX_TO_NTP_SECONDS = 8
  MAX_ATOMIC_WRITE_SIZE = 5
  Words = {8, 9}
  Instants = {0, 20}
  RawPts = {4}
  Payloads <- MCPayloads
  FlagSets <- MCFlagSets
  Sources = {"realtime-clock", "ntp", "tai"}
  Indexes = {3}
  MaxEvents = 3
  MaxSettings = 2
INVARIANTS SameInstant EventsComeBack RecordsFindEvents
CHECK_DEADLOCK FALSE
