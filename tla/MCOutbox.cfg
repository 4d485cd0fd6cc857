\* Two dispatchers and two rows, a lease of one tick, two attempts per row, and
\* fetches of one row at a time.
SPECIFICATION FairSpec
CONSTANTS
  n1 = n1
  n2 = n2
  e1 = e1
  Notifications = {n1, n2}
  Dispatchers = {d1, d2}
  Epochs = {e1}
  MaxAttempts = 2
  Lease = 1
  SendBound = 1
  Limit = 1
  MaxFaults = 2
  EpochOf <- MCEpochOf
INVARIANTS
  ExclusiveClaim
  AttemptsAccountedFor
  DuplicatesNeedFaults
  SettledTruthfully
  AnnouncementMatchesOutbox
PROPERTIES
  EveryRowSettles
  SettledIsFinal
  ImplementsDelivery
