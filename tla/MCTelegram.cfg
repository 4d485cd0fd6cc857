\* Two presses or commands, and a restart or an error at any step.
SPECIFICATION Spec
CONSTANTS
  Statuses = {"all", "active"}
  AllPillars = "all"
  PageCount <- MCPageCount
  MaxUpdates = 2
  MaxFaults = 1
INVARIANTS
  NoUpdateSkipped
  RepeatsNeedFaults
PROPERTY PinnedSettles
