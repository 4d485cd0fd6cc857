\* A save while the collector starts up, and no fault at all.
SPECIFICATION Spec
CONSTANTS
  MaxSaves = 2
  MaxFaults = 0
PROPERTY LatestIsUsed
CHECK_DEADLOCK FALSE
