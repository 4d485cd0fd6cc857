\* Two nodes that fail, recover, grow and fork; two momentums of two hashes.
SPECIFICATION FairSpec
CONSTANTS
  white = white
  black = black
  Last = 1
  Forks = {white, black}
  Cooldown = 1
  RequireSync = FALSE
  MaxHeight = 2
INVARIANTS
  FailsOver
PROPERTIES
  FreshNodeIsUsed
  PrimaryIsPreferred
