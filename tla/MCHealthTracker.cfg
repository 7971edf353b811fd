SPECIFICATION Spec
CONSTANTS
  Devices <- Three
  Configs <- SafetyConfigs
  Edits <- SafetyEdits
  Temperatures = {65}
  PublishMayFail = FALSE
  MaxWorkers = 2
  MaxFailures = 2
  MaxReloads = 2
  MaxStops = 0
INVARIANTS
  VerdictsAreSound
  SentMatchesLedger
