SPECIFICATION Spec
CONSTANTS
  Cells = {c1}
  LastHour = 4
  MaxMessages = 3
  MaxSignals = 3
  FirstHour = 0
  MaxWindowSize = 2
  Lateness = 0
  MsPerHour = 2
  IntSpan = 8
INVARIANTS
  NoStaleSpans
