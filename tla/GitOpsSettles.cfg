SPECIFICATION FairSpec
CONSTANTS
  a = a
  b = b
  x = x
  y = y
  z = z
  Gone = Gone
  Paths <- OnePath
  Contents = {x, y, z}
  Large = {z}
  Literal = {y}
  Options <- BothWays
  Starts = {"settled", "fresh"}
  Budget <- AnyTwo
PROPERTY Settles
