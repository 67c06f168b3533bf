SPECIFICATION Spec
CONSTANTS
  Topics = {t1, t2}
  Threads = {main, other}
  MaxSends = 3
  MaxFailures = 1
INVARIANTS OneWriterPerStream OkIsDurable AnsweredInOrder
PROPERTIES EverySendAnswered
CHECK_DEADLOCK FALSE
