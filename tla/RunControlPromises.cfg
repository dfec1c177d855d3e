SPECIFICATION FairSpec
CONSTANTS
  MaxRuns = 3
  Hosting = "child"
  MaxAttempts = 2
  MaxRecoveryAttempts = 1
  RecoveryActions = {"retry", "pause"}
  Controls = {}
  MaxPending = 0
  MayThrow = FALSE
  MaxBoots = 2
INVARIANTS
  RecoveriesAreBounded
PROPERTIES
  PausedRunAwaitsOperator
  EveryRunSettles
