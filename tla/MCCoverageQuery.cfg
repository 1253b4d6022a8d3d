SPECIFICATION QuerySpec
CONSTANTS
  Ships = {k1}
  Sources = {s1}
  Super = super
  LastCell = 1
  LastTime = 1
  HourLength = 1
  BufferInSeconds = 1
  SlowPeriod = 1
  FastPeriod = 1
  MaxMessages = 2
  Lateness = 0
  MaxQueries = 1
  MultiplicationFactor = 2
INVARIANTS AnswerIsConsistent
PROPERTIES QueryEnds
