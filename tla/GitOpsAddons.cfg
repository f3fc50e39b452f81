SPECIFICATION Spec
CONSTANTS
  mosquitto = mosquitto
  frigate = frigate
  o1 = o1
  o2 = o2
  v1 = v1
  v2 = v2
  Self = self
  Addons = {mosquitto, frigate, self}
  AddonOrder <- MCAddonOrder
  Options = {o1, o2}
  Values = {v1, v2}
  Defaults <- MCDefaults
  Manifests <- MCManifests
  Starts <- MCStarts
  Absent = Absent
  Keep = Keep
  Ref = Ref
  Missing = Missing
  Malformed = Malformed
  Undeclared = Undeclared
  Unmanaged = Unmanaged
  NoStep = NoStep
  MaxChanges = 2
  MaxFaults = 1
  MaxEvents = 2
CHECK_DEADLOCK FALSE
INVARIANTS RolledBackRestores SettledMeansRunning
PROPERTIES RestoreGivesBack UndeclaredSurvive
