SPECIFICATION Spec
CONSTANTS
  v1 = v1
  v2 = v2
  k = k
  h = h
  secrets = secrets
  packageSecrets = packageSecrets
  light = light
  mqtt = mqtt
  core_ssh = core_ssh
  Values = {v1, v2}
  NoVal = NoVal
  Conflict = Conflict
  None = None
  Root = secrets
  Keys = {k}
  HandKeys = {}
  Files = {secrets}
  Domains = {light, mqtt}
  Addons = {}
  Uses <- ProtocolUses
  Reloadable = {light}
  Modes = {"auto"}
  Budget <- StopBudget
PROPERTY
  InterruptedIsNotUndone
