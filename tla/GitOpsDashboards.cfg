SPECIFICATION Spec
CONSTANTS
  d1 = d1
  r1 = r1
  r2 = r2
  t1 = t1
  t2 = t2
  c1 = c1
  c2 = c2
  p1 = p1
  p2 = p2
  tag = tag
  Dashes = {d1}
  Resources = {r1, r2}
  KeyOrder <- MCKeyOrder
  ResIds <- MCResIds
  Titles = {t1, t2}
  Contents = {c1, c2}
  Paths = {p1, p2}
  Tags = {None, tag}
  Types = {"module"}
  Manifests <- MCManifests
  Starts <- MCStarts
  None = None
  Keep = Keep
  Undeclared = Undeclared
  Malformed = Malformed
  Unreadable = Unreadable
  Gone = Gone
  MaxChanges = 1
  MaxFaults = 1
CHECK_DEADLOCK FALSE
INVARIANTS RolledBackRestores SettledMeansNoPlan
PROPERTIES OnlyOwnedIsDeleted NoTwinResource
