SPECIFICATION FairSpec
CONSTANTS
  Searchers = {s1}
  Times = {2, 3, 4}
  Offsets = {0}
  Wanted <- WantedTimes
  BufRecords = 2
  MaxRecords = 4
CHECK_DEADLOCK FALSE
INVARIANTS NeverWaits FindsAnswer Brackets EofMeansEmpty
PROPERTIES SearchReturns
