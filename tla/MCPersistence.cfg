SPECIFICATION Spec
CONSTANTS
  Sources = {s1}
  Cells = {1, 2}
  Rounded <- MCRounded
  LastHour = 1
  MaxSignals = 2
  MaxSaves = 2
  MaxStarts = 2
INVARIANTS TypeOK NeverOvercounted TotalWithinSpans
PROPERTIES SaveIsRecent SaverReturns
