SPECIFICATION Spec
CONSTANTS
  MaxRuns = 3
  Hosting = "tmux"
  MaxAttempts = 1
  MaxRecoveryAttempts = 2
  RecoveryActions = {"retry"}
  Controls = {}
  MaxPending = 2
  MayThrow = FALSE
  MaxBoots = 3
INVARIANTS
  OneRecoveryAtATime
  ScheduledRecoveryIsServed
PROPERTIES
  UsesWorkQueue
