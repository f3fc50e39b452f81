SPECIFICATION Spec
CONSTANTS
  h1 = h1
  i1 = i1
  i2 = i2
  s1 = s1
  repo = repo
  custom = custom
  core = core
  t1 = t1
  t2 = t2
  ty = ty
  plain = plain
  ref = ref
  bad = bad
  v1 = v1
  v2 = v2
  HacsIds = {h1}
  Ints = {i1, i2}
  Subs = {s1}
  KeyOrder <- MCKeyOrder
  EntryIds <- MCEntryIds
  SubIds <- MCSubIds
  Provides <- MCProvides
  Store = {}
  Domains = {custom, core}
  Titles = {t1, t2}
  Uids = {}
  SubTypes = {ty}
  Datas = {plain, ref, bad}
  Ref = ref
  Bad = bad
  SecretValues = {v1, v2}
  Manifests <- MCManifests
  Starts <- MCQuietStarts
  None = None
  Undeclared = Undeclared
  Malformed = Malformed
  Gone = Gone
  Opaque = Opaque
  MaxFaults = 1
CHECK_DEADLOCK FALSE
INVARIANT UnidentifiedIsCreatedAgain
