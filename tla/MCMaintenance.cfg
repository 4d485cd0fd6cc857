\* Maintenance in chunks of one day, which may be interrupted or left out for a day,
\* with a visitor at any time.
SPECIFICATION Spec
CONSTANTS
  Collector = collector
  Visitors = {visitor}
  Retention = 4
  Period = 2
  AprDays = 1
  Chunk = 1
  MaxDay = 7
  MaxPolls = 2
  MaxCount = 1
  MaxFaults = 1
INVARIANTS
  StoredIsTrue
  OpenDaysAreIntact
PROPERTIES
  CompletedDaysStay
CONSTRAINT BeginsWithPoll
