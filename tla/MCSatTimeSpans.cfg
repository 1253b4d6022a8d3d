SPECIFICATION Spec
CONSTANTS
  LastTime = 7
  TimeMargin = 2
  MaxMessages = 4
  Lateness = 3
  WindowSize = 2
  MaxTrims = 1
INVARIANTS CountsAgree HeadIsOldest SpansWellFormed
