SPECIFICATION Spec
CONSTANTS
  LastHour = 1
  Timestamps <- MCTimestamps
  Requested = {0, 1, 2}
  Positions <- MCPositions
  TicksPerMinute = 2
  HourMinutes = 6
  BucketMinutes = 2
  IntBits = 5
  IntSpan = 256
  MarginMinutes = 3
  MaxMessages = 2
  MaxTrims = 1
  MaxQueries = 1
INVARIANTS TypeOK HoursAreTrue TrackIsTrue TrackIsComplete
