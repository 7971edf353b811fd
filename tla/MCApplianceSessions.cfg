SPECIFICATION Spec
CHECK_DEADLOCK FALSE
CONSTANTS
  Users = {u1, u2}
  Requests = {r1, r2}
  Limit = 1
  Window = 1
  MaxEntries = 1
  Lifetime = 2
  Grace = 1
  MaxTokens = 1
  MaxSecrets = 2
  MaxTime = 3
  MaxChanges = 1
  MaxRestarts = 1
SYMMETRY Symmetry
INVARIANTS
  EndedStaysEnded
  OldSecretIsRefused
  FailuresBounded
PROPERTIES
  LiveSessionsStay
