SPECIFICATION Spec
CHECK_DEADLOCK FALSE
CONSTANTS
  Sites <- MCSites
  Role <- MCRole
  MdfOf <- MCMdfOf
  NoSite = "none"
  SiteLists <- MCSiteLists
  Typed <- MCTyped
  DeviceChoices <- MCDeviceChoices
  Kinds = {"interface", "heartbeat"}
  MaxCommands = 2
  MaxLate = 1
INVARIANTS
  GraphsAreSound
  DeletionIsSound
  RowsFollowManifest
  OverlayIsSound
