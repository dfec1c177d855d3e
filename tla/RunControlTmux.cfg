SPECIFICATION Spec
CONSTANTS
  MaxRuns = 1
  Hosting = "tmux"
  MaxAttempts = 2
  MaxRecoveryAttempts = 0
  RecoveryActions = {"wait", "pause", "escalate", "approve"}
  Controls = {c1}
  MaxPending = 2
  MayThrow = TRUE
  MaxBoots = 1
INVARIANTS
  TypeOK
  HandleHasOwner
