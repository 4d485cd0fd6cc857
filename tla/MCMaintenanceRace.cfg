\* A collector that was away for longer than the retention, and a visitor.
SPECIFICATION Spec
CONSTANTS
  Collector = collector
  Visitors = {visitor}
  Retention = 2
  Period = 4
  AprDays = 1
  Chunk = 7
  MaxDay = 5
  MaxPolls = 2
  MaxCount = 1
  MaxFaults = 2
PROPERTY
  CompletedDaysStay
