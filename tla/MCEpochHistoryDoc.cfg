\* An import over an epoch that the collector recorded.
SPECIFICATION HistorySpec
CONSTANTS
  LastReward = 2
  MaxImports = 1
  MaxBreaks = 0
INVARIANT ScheduleIsMarked
