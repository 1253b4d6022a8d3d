SPECIFICATION Spec
CONSTANTS
  Ships = {k1}
  Sources = {s1, s2}
  Super = super
  LastCell = 1
  LastTime = 3
  HourLength = 1
  BufferInSeconds = 2
  SlowPeriod = 4
  FastPeriod = 1
  MaxMessages = 3
  Lateness = 2
SYMMETRY SourceSymmetry
INVARIANTS CountedAsOften SourceWithinSuper MissingWithinFeed
