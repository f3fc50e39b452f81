SPECIFICATION Spec
CONSTANTS
  v1 = v1
  v2 = v2
  k = k
  h = h
  secrets = secrets
  packageSecrets = packageSecrets
  light = light
  mqtt = mqtt
  core_ssh = core_ssh
  Values = {v1}
  NoVal = NoVal
  Conflict = Conflict
  None = None
  Root = secrets
  Keys = {k, h}
  HandKeys = {h}
  Files = {secrets, packageSecrets}
  Domains = {light}
  Addons = {core_ssh}
  Uses <- FilesUses
  Reloadable = {light}
  Modes = {"auto"}
  Budget <- FilesBudget
INVARIANTS
  StaleAddonIsRemembered
  NothingIsLost
PROPERTIES

  UsedKeysStay
