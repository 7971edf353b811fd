SPECIFICATION Spec
CONSTANTS
  Events <- AllEvents
  Days = 1
  PruneSize = 1
  NoEvent = NoEvent
  MaxMessages = 2
  MaxTime = 2
INVARIANTS
  NoLoss
  CurrentIsLatest
  AppliedOnceInWindow
  HistoryKeepsLedger
PROPERTIES
  IdentityNeverRegresses
