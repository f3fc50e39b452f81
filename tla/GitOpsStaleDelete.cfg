SPECIFICATION Spec
CONSTANTS
  f1 = f1
  f2 = f2
  a1 = a1
  a2 = a2
  h1 = h1
  n1 = n1
  n2 = n2
  Floors <- MCFloors
  Areas <- MCAreas
  Helpers <- MCHelpers
  KeyOrder <- MCKeyOrder
  Names <- MCNames
  Manifests <- MCManifests
  Starts <- MCStarts
  None = None
  Keep = Keep
  Undeclared = Undeclared
  Gone = Gone
  Malformed = Malformed
  MaxFaults = 1
CHECK_DEADLOCK FALSE
PROPERTY DeclaredIsNeverDeleted
