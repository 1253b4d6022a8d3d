SPECIFICATION Spec
CONSTANTS
  Sources = {s1}
  Cells = {1, 2}
  Rounded <- MCRounded
  LastHour = 1
  MaxSignals = 1
  MaxSaves = 1
  MaxStarts = 2
INVARIANTS RestartSucceeds
