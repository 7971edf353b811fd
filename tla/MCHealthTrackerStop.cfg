SPECIFICATION FairSpec
CONSTANTS
  Devices <- Two
  Configs <- SlowPair
  Edits <- NoEdits
  Temperatures = {65}
  PublishMayFail = TRUE
  MaxWorkers = 1
  MaxFailures = 2
  MaxReloads = 0
  MaxStops = 1
INVARIANTS
  SentMatchesLedger
PROPERTIES
  EventuallyAlarmed
