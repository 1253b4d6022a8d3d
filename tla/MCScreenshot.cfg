SPECIFICATION ScreenSpec
CONSTANTS
  Images <- MCImages
  Kind <- MCKind
  Drawings <- MCDrawings
  Options <- MCOptions
  Documents <- MCDocuments
INVARIANTS CountsAreExact PaintedInOrder CanvasIsClean
PROPERTIES Completes
\* a picture is taken once
CHECK_DEADLOCK FALSE
