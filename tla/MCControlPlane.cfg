SPECIFICATION Spec
CONSTANTS
  Nil = Nil
  StaticDevices <- MCStaticDevices
  DeviceIds <- MCDeviceIds
  StaticInventory <- MCStaticInventory
  StaticTemp = "mild"
  Hosts <- MCHosts
  Temps = {"mild", "warm", "absurd"}
  TempsInRange = {"mild", "warm"}
  Cidrs = {"lan", "typo"}
  ParsableCidrs = {"lan"}
  Limits = {"slow", "huge", "none"}
  WritableLimits = {"slow", "huge"}
  LoadableLimits = {"slow"}
  Conns = {c1, c2}
  Wizards = {w1}
  Mutations <- MCMutations
  MaxTokens = 2
  MaxCrashes = 1
SYMMETRY Symmetry
CHECK_DEADLOCK FALSE
INVARIANTS
  DocumentIsValid
  SingleUse
  SerialCommits
  RevisionBound
PROPERTIES
  ReloadNeverRegresses
