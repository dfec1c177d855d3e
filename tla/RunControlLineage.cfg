SPECIFICATION Spec
CONSTANTS
  MaxRuns = 2
  Hosting = "child"
  MaxAttempts = 2
  MaxRecoveryAttempts = 1
  RecoveryActions = {"retry", "wait"}
  Controls = {c1}
  MaxPending = 0
  MayThrow = FALSE
  MaxBoots = 1
INVARIANTS
  LiveRunHasWork
PROPERTIES
  JobOutcomeIsFinal
