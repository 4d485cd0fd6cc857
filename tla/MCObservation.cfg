\* One pillar with everything that can change about it, in a network of which
\* nothing is known; and in one that produces, over three epochs of at most two
\* slots each.  Or three reward epochs, two imports and a crash.  A bound that
\* is used up may leave nothing to happen.
SPECIFICATION MCSpec
CONSTANTS
  Owners = {o1}
  Names = {alpha, beta}
  Shares = {low, high}
  AllowEmpty = TRUE
  Counts = {0, 1}
  EpochNumbers = {1, 2, 3}
  Threshold = 2
  MissedBound = 3
  LastEpoch = 4
  MaxSlots = 2
  LastReward = 3
  MaxImports = 2
  MaxBreaks = 1
INVARIANTS
  FeedRebuildsTable
  InactiveMeansQuiet
  InterpolatedIsMarked
  BackfillGivesBack
PROPERTIES
  EpochFeedIncreases
  AlarmsAreEarned
  RecordedIsKept
  AnnouncedOnce
CHECK_DEADLOCK FALSE
