SPECIFICATION TruncateSpec
CONSTANTS
  Searchers = {t1, t2}
  Times = {1, 2, 3}
  Offsets = {0, 1, 2}
  Wanted = {1, 2}
  BufRecords = 1
  MaxRecords = 3
SYMMETRY ToolSymmetry
CHECK_DEADLOCK FALSE
INVARIANTS RecordsPointToData OnlyOldIsDeleted
