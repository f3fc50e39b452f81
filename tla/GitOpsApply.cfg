SPECIFICATION Spec
CONSTANTS
  f = f
  g = g
  r = r
  q = q
  e = e
  x = x
  h = h
  i1 = i1
  s = s
  Items = {f, g, r, q, e, x, h, i1, s}
  LayerOf <- MCLayerOf
  Refused = {q}
  Adopted = {h}
  Manifests <- MCManifests
  PruneKeep = 1
  MaxStashes = 3
  MaxFaults = 2
CHECK_DEADLOCK FALSE
INVARIANT ButtonHasItsStash
PROPERTIES AppliedOrPending RollBackUndoes
