SPECIFICATION Spec
CONSTANTS
  d1 = d1
  d2 = d2
  x = x
  e1 = e1
  e2 = e2
  hub = hub
  bulb = bulb
  kitchen = kitchen
  Devices <- MCDevices
  Entities = {x}
  Entries <- MCEntries
  EntryOrder <- MCEntryOrder
  ThingOrder <- MCThingOrder
  DeviceNames = {hub, bulb}
  AreaKeys = {kitchen}
  Manifests <- MCManifests
  Starts <- MCStarts
  None = None
  Undeclared = Undeclared
  Malformed = Malformed
  Unrecorded = Unrecorded
  Gone = Gone
  MaxChanges = 2
  MaxFaults = 1
  MaxEvents = 2
CHECK_DEADLOCK FALSE
INVARIANTS RolledBackRestores SettledMeansNoPlan
PROPERTIES RestoreGivesBack IntegrationDecides
