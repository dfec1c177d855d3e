SPECIFICATION Spec
CONSTANTS
  MaxRuns = 1
  Hosting = "child"
  MaxAttempts = 2
  MaxRecoveryAttempts = 0
  RecoveryActions = {}
  Controls = {}
  MaxPending = 0
  MayThrow = FALSE
  MaxBoots = 1
PROPERTIES
  ExhaustedIsBuried
