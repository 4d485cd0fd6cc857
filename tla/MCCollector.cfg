\* No pillar or two and two momentums; a fault, a fork, and days without a poll,
\* one more than snapshots are kept.
SPECIFICATION CFairSpec
CONSTANTS
  o1 = o1
  o2 = o2
  alpha = alpha
  share = share
  white = white
  black = black
  Owners = {o1, o2}
  Names = {alpha}
  Shares = {share}
  AllowEmpty = TRUE
  Counts = {0}
  EpochNumbers = {1, 2}
  Threshold = 1
  MissedBound = 1
  Listings <- MCListings
  Forks = {white, black}
  MaxHeight = 2
  MaxStale = 2
  Grace = 2
  Retention = 1
  MaxGap = 2
  MaxFaults = 1
INVARIANTS
  SubscribersKeepUp
  PollRowAgrees
PROPERTIES
  CatchesUp
  CursorIsSafe
