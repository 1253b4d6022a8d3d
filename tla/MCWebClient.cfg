SPECIFICATION PageSpec
CONSTANTS
  Sources = {a}
  Zooms = {7, 8}
  InitialZoom = 7
  Places = {here}
  InitialPlace = here
  LastHour = 2
  DefaultHours = 1
  RangesOf <- MCRangesOf
  FilterPositions = {0}
  ExportPositions = {5}
  MaxGestures = 3
INVARIANTS PictureAgrees DisplayAgrees SliderAgrees WindowIsFollowed
PROPERTIES ShowsLatest ChangesAreDrawn
\* the page waits for its user
CHECK_DEADLOCK FALSE
