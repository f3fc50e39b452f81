SPECIFICATION Spec
CONSTANTS
  a = a
  b = b
  x = x
  y = y
  z = z
  Gone = Gone
  Paths <- TwoPaths
  Contents = {x, y}
  Large = {}
  Literal = {}
  Options <- TwoWay
  Starts = {"settled"}
  Budget <- EditsAndAPush
PROPERTY CaptureKeepsNewerCommits
