SPECIFICATION Spec
CONSTANTS
  Cells = {c1, c2}
  LastHour = 4
  MaxMessages = 3
  MaxSignals = 2
  FirstHour = 0
  MaxWindowSize = 2
  Lateness = 1
  MsPerHour = 2
  IntSpan = 32
INVARIANTS
  NoStaleSpans
  WindowIsKept
PROPERTIES
  FirstMessageAdvances
  WindowIsTrimmed
