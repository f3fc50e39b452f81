SPECIFICATION Spec
CONSTANTS
  a = a
  b = b
  x = x
  y = y
  z = z
  Gone = Gone
  Paths <- TwoPaths
  Contents = {x, y}
  Large = {}
  Literal = {}
  Options <- BothWays
  Starts = {"settled"}
  Budget <- Mixed
SYMMETRY Symmetry
PROPERTIES CaptureOverBase EditIsNotPlannedOver ConflictStands
